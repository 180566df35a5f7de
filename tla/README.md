# A verification project for mrjim-auth

TLA+ specifications of mrjim-auth, the TLC runs that check them on small
instances and the TLAPS proofs about them. Every definition is translated from
the code under `packages/mrjim-auth/src` (paths below are relative to that
directory); `PROJECT.json` names, for each definition, the lines it stands for.

Commands, in this directory:

    tlc -workers 2 -config Sessions.cfg MCSessions
    tlapm SessionsProof.tla

## The system

mrjim-auth is an authentication library: a server part over PostgreSQL, a
browser/SSR client, framework adapters and a CLI.

| component | state | operations | what makes it correct | modelled |
|---|---|---|---|---|
| session service and store (`server/sessions.ts`, `postgres/repositories/sessions.ts`) | `auth.sessions`, `auth.refresh_tokens` | create, refresh (rotation), replay containment, sign-out in three scopes, revocation by refresh token | single-use rotation, one live token per session, total revocation, replay always contained | `Sessions`, `SessionFamily` |
| browser session client (`client/auth-client.ts`, `storage.ts`, `lock.ts`, `events.ts`) | storage record, in-memory session and revisions per tab, lock, event channel | refresh, sign-in, sign-out, updateUser, remote synchronization, dispose | never presents a spent token, never stores an older token, every call returns | `ClientSession` |
| one-time tokens and users (`server/one-time-tokens.ts`, `server/users.ts`, `postgres/repositories/users.ts`) | `auth.one_time_tokens`, `auth.users`, passwords | sign-up, confirm, recover, OTP, e-mail change, password change | a token works once, no session outlives its password, addresses stay unique and are proven | `Accounts`, `ProofTokens` |
| OAuth and identities (`server/oauth.ts`) | state rows, exchange codes, identities | authorize, callback, exchange, link, unlink | state and code are single use, an account of a provider has one user, the last login method stays | `OAuth` |
| roles and permissions (`server/authorization.ts`, `postgres/repositories/authorization.ts`, `0002_authorization.sql`) | roles, permissions, inheritance, assignments; a cache per request | assignment, inheritance, resolution, matching | the inheritance graph stays acyclic, the checks of one request agree | `AdminRoles`, `Requests` |
| administration (`server/admin-service.ts`, `postgres/repositories/admin.ts`, `server/admin.ts`) | the same tables, row locks held by open transactions | role and user management | nobody edits above their own rank, a system role keeps a holder | `AdminRoles`; what it does to users also beside the others in `Sessions`, `Accounts`, `OAuth`, `Requests` |
| API keys (`server/api-keys.ts`) and the request path (`server/auth-server.ts`, `server/routes/`) | `auth.api_keys`; what a request has read so far | receive, authenticate, authorize, dispatch, answer | a handler acts on credentials that were good after the request was read; every request is answered | `Requests` |
| HTTP contract (`shared/contracts.ts`, `server/openapi.ts`, `server/routes/`, the clients, `adapters/express.ts`) | none | routing, schemas, errors, documents | the hand-written tables agree; what a client sends is served and what it reads is answered | `Protocol`, `Callers` |
| rows (`postgres/repositories/schema.ts`, `mapping.ts`, `admin.ts`) | none | queries, mappers | row types, contract, mappers and answers agree | `Rows` |
| migrations (`postgres/migrate.ts`, `verify.ts`, `manifest.ts`, `internal/`) | `auth.schema_migrations`, the schema, an advisory lock | migrate, status, verify | the history is what was run and a prefix of the manifest; success and verification mean a whole release | `Migrations`, `Catalog` |
| rate limiter (`server/rate-limit.ts`) | counters per window, in memory or in PostgreSQL | consume | never more than the limit in a window; both limiters answer alike | `RateLimits` |
| PKCE list (`client/storage.ts`) | up to four pending transactions | start, find, consume | a transaction is consumed once | `Pkce` |
| access tokens (`server/tokens.ts`, `server/jwks.ts`) | the configured keys | issue, verify, publish | a server accepts what it issues; servers that rotate a key together accept each other | `AccessTokens` |
| cookie storage (`server/cookies.ts`) | the cookies of a browser | get, set, remove | what is written is read back, whatever was there | `Cookies` |
| audit, e-mail, storage/S3, configuration | none, or external | formatting, I/O | | no: see the end |

How they interact: a browser tab calls the HTTP routes, which call the services;
each service opens one database transaction per step and shares rows with the
others (`auth.users` above all: the owner's row lock orders everything that
concerns one user). The tabs of a browser interact through one storage record,
a lock and an event channel. In the models the two halves meet in
`SessionFamily`: `Sessions` implements it, and the server that `ClientSession`
talks to takes only its steps.

What is hard: two refreshes of one token; a replay discovered in one transaction
and contained in another; a clock read before a wait; bans and deletions racing
sign-ins; answers lost after the commit; tabs reading and writing storage between
each other's awaits. `PROJECT.json` lists these hazards at their lines.

## Modules

* `SessionFamily`: what the session store promises, abstractly. Sessions are
  opened once; a session has at most one current token; handing over spends it
  for a fresh one; revocation spends what is current. No tables, clock or
  requests.
* `Sessions`: the session service over its tables. Variables `users`, `sessions`,
  `tokens` are the tables (the columns behaviour depends on), `reqs` the handlers
  in flight, `clock` the service clock, `disclosed` the refresh tokens a client
  has received (what may be presented). One action per handler step:
  `BeginCreate`/`Create`/`CreateRefused` (create), `BeginRefresh`/`Rotate`/
  `ClassifyReplay`/`RefreshRefused`/`containReuse` (refresh),
  `BeginSignOut`/`SignOut` (signOut and revokeRefreshToken), `Fail`, `Deliver`,
  `Lose`, the administrator's `BanUser` and `DeleteUser`, and `Tick`.
* `MCSessions`, `SessionsProof`: instances for TLC; the inductive invariant with its
  proof, the action properties and the refinement.
* `ClientSession`: the tabs. `record` is the storage record, `currentSession`,
  `lastRevision`, `localRevision`, `lastEvent` the variables of the client
  closure and the storage controller, `lockQueue` the lock with its waiters,
  `writeQueue` the promise queue of `storage.ts`, `remote` the head of
  `remoteQueue`, `channel` the messages on their way, `tasks` the calls in flight.
  Every `await` is a step boundary: `Acquire`, `ReadSession`, `ReadRevision`,
  `Serve...` (the server), `Commit` or `Clear`, `GetRecord`, `SetItem`, and for
  remote messages `RemoteBegin`, `RemoteReadSession`, `RemoteReadRevision`.
* `MCClientSession`, `ClientSessionProof`: instances for TLC; two inductive invariants,
  one for every client and one for tabs that exclude each other, and the refinement.
* `ProofTokens`: what a one-time token promises, abstractly: issued once, it is
  applied once, or lost, or burnt by failures.
* `Accounts`: users, passwords and one-time tokens. `users`, `passwords`, `tokens`,
  `sessions` are the tables, `mailed` the tokens whose mail has arrived (what may
  be presented, beside a wrong code), `reqs` the handlers in flight. A handler is
  a chain of awaits: `SignUpLookup`, `CreateUser`, `Issue`, `Mail` (signUp);
  `SignInLookup`, `SignIn`; `AskLookup`, `Issue`, `Mail` (signInWithOtp,
  resetPasswordForEmail, resend); `Verify` or `VerifyRefused` and `RecordFailure`,
  then `CheckUser`, `Confirm`, `OpenSession` (verifyOtp, confirmEmail, and signUp
  without confirmation from `Confirm` on); `ResetPassword` and
  `ConfirmEmailChange`, one transaction each; `Authorize` then `UpdateUser` or
  `ChangePassword`. `SignOut` is what others do, `updateUserById` and `DeleteUser` what
  administrators do, and `AddUser` is a user made by one of them or by a provider.
* `MCAccounts`, `AccountsProof`: instances for TLC; the inductive invariant with its
  proof, the refinement and the action properties.
* `OAuth`: sign-in through a provider. `identities`, `states`, `codes` are its tables,
  `users`, `passwords`, `sessions` those it shares. A flow is `Authorize` (or
  `AuthorizeSubject` and `AuthorizeLink`, to link), `Consume`, `ProviderAnswers` and
  `Callback` (callback), and `ExchangeCode`; `BeginSignInFromProfile` and
  `SignInFromProfile`, `LinkIdentity` and `Unlink` are the other entry points.
  `ResolveFound`, `ResolveByEmail`, `ResolveNew` and `ResolveLink` are the outcomes of
  `resolveProfile`, shared by three of them. `CreateUser`, `SignIn`, `ResetPassword`,
  `SignOut`, `updateUserById` and `DeleteUser` are what others do meanwhile.
* `MCOAuth`, `OAuthProof`: instances for TLC; the inductive invariant with its proof and
  the action properties.
* `Pkce`: the list of pending PKCE transactions in the storage that tabs share: `list` is
  the stored record, `holder` the lock, `tasks` the call each tab runs. `Read`,
  `WriteBack` are `readPkceTransactions`, `Find`, `Write` and `Consume` its callers.
* `AdminRoles`: transactions of the administration that lock row by row. `live`, `rank`,
  `grants`, `inherits`, `holds`, `deleted` are the tables as committed, `roleLock` and
  `holdLock` the row locks, `txs` the open transactions. A transaction goes through
  `LockAssignment`, `LockRole`, `RereadAssignments`, `RolesLocked` for the actor, then
  `Authorize` or `Deny`, the same again for the roles it writes, `Decide` or `Refuse`,
  `Write` or `RefuseWrite`, the deferred trigger (`Guard`, `GuardFails`) and `Commit`.
  `Abort` is PostgreSQL ending a deadlock, `Fail` any other loss. `MCAdminRoles` and
  `AdminRolesProof` belong to it.
* `Catalog`: the seven migration files as the objects they make, change and drop, and
  the contract of `schema-contract.ts`. `Migrations`: `rows` is the history, `schema`
  the files whose statements are committed, `altered` what somebody changed by hand,
  `lock` the advisory lock, `runs` and `checks` the runners and verifiers. A run is
  `TakeLock`, `ReadHistory`, then `BeginFile`, `RunSql`, `InsertRow`, `CommitFile` for
  each file (or `RunSqlAlone`), `Finish`, `Unlock`; `Lose` and `LoseAnswer` are a
  connection lost before and after a commit. A verification is one `ReadCatalog` per
  kind of object, then `ReadStatuses`. `MCMigrations`, `MigrationsProof`.
* `Requests`: `AuthServer.handle` and `AuthServer.authorize`. `keys`, `sessions`,
  `lapsed`, `banned`, `deleted`, `grants` are the store, `reqs` the requests. One action
  is what the code does between two awaits: `Receive`, `ReceiveBody`, `LookUpKey`,
  `FindUser`, `AuthorizeSession`, then by the kind of route `Serve`, `Logout`,
  `AuthorizeAdmin` and `Mutate`, or for the application's own checks `Load`, `Admit`,
  `Ask`, `Decide`, `DecideAnyScope`, `Leave`. `Environment` is everybody else.
  `MCRequests`, `RequestsProof`.
* `Protocol`: the routes of `contracts.ts`, the dispatch and the credentials of
  `auth-server.ts`, the branches of the handlers, errors and the OpenAPI document, as
  operators. `Callers`: what the browser client and the administration client send and
  read, the routes an application can mount by themselves, the Express adapter.
  `Rows`: the columns of the contract, the row types, the mappers. None has state: each
  ASSUME says that tables written by hand in several files fit each other, and TLC
  evaluates it in the run `requests`.
* `RateLimits`: the two limiters as functions from what they hold and a call to an
  answer; its ASSUMEs run them over every short schedule, in the run `accounts`.
  `RateLimitsProof`: one call of them, for every policy.
* `AccessTokens`: what a token says, who signs it and which servers accept it, as
  operators over the configured keys; evaluated in the runs of `Sessions`.
* `Cookies`: the storage of a server-side client as functions on a jar of cookies;
  evaluated in the runs of `ClientSession`.

### Decisions in Sessions

* A transaction is one step. Every transaction of the session repository locks the
  owning user's row first (`SESSION_LOCK_ORDER`), so two transactions of one user
  do not interleave between that lock and the commit; the unlocked discovery
  reads before it only find immutable columns. Transactions of different users
  touch different rows.
* `now` is read when the request arrives, before the wait for the lock, and is
  carried in the request as the code carries it.
* Classification and containment of a replay are two transactions, and the request
  may fail or be lost between them.
* `seen` of a request is history: the sessions of the user when its sign-out commits.
  A session that a sign-in adds after the request arrived is among them, so an answer
  that all sessions are gone is judged by the list the code revoked and no earlier one.
* A family is named by its first token instead of by a random UUID: both are
  written once and never chosen again. Tokens are names; hashing is left out.
* Time stamps are positive numbers and 0 is NULL. `created_at`, `refreshed_at`,
  `aal`, address, user agent and the audit row decide nothing here and are left
  out. The access token is taken as verified.
* The revocations by password change, password reset and e-mail confirmation call
  `revokeUserSessions` and behave like the `global` and `others` scopes.
* When the bounded tables are full a sign-in or a rotation waits for ever: the
  only effect of the bound.

### Decisions in ClientSession

* A refresh token is its session and a generation; access tokens and the user
  record are left out. The server answers a refresh by rotating the current
  generation, revoking the session when an older one is presented, and refusing a
  revoked session.
* A storage access and the assignment after it are one step; two accesses are two
  steps. Tabs live in different processes and storage may be asynchronous, so
  other tabs run in between.
* The lock queue and the write queue are orders, sets of pairs: `<<j, k>>` says that `j`
  stands before `k` or is `k`. The lock queue is in order of request; under Web Locks
  all tasks exclude each other, under the fallback lock only the tasks of one tab. A
  waiting call may time out while it is blocked.
* `Lose`: the connection fails before or after the server acted; a request given up
  may still arrive later (`ServeStray`). `Close`: a tab is closed or its client
  disposed at any point. `Revoke`: the session ends for a reason outside this
  browser.
* `adrift` is a history variable: the sessions whose rotation was never stored
  because an answer or a tab was lost, or that storage stopped carrying while they
  were live. For those, the next refresh is a replay by design of the protocol;
  the properties speak of all others.
* Left out: supplied sessions (`setSession`, `refreshSession(session)`), initialization
  from the URL, timers and visibility (a timer's refresh is one more refresh call),
  calls that only read, malformed records. After `dispose` a write already queued
  would still complete; in the model it is dropped with the tab.

### Decisions in Accounts

* A transaction is one step. It locks the user's row (or, for a token, updates its
  row) before it decides, so what it checks still holds when it commits. Reads
  outside a transaction are steps of their own, and nothing they saw is assumed
  later.
* The answers are not modelled, and neither is expiry: a refusal, an expired token, a
  failing adapter, a rolled-back transaction and a crash all end a handler with
  nothing written. `Stop` stands for them, at any step. So the properties cannot
  depend on a handler finishing.
* A ban is a flag that comes and goes instead of a time. A wrong code is the token
  `None`; `bound` says whether the redirect presented is the one the token was
  issued for. A password stands for its hash.
* The lookup by address skips deleted users while the unique index does not
  (`Found` and `Holders`): the address of a deleted user stays taken.
* An administrator's patch (`updateUserById`) replaces or removes the address, confirms
  it or takes the confirmation back, bans and unbans, in any combination. The code asks
  for no proof and no session, and checks `deleted_at` and the unique index only, so a
  banned user's address may change; sessions and mailed tokens stay. `AddUser` is
  `createUser` of an administrator, or a user whom a provider sends (see `OAuth`).
* `password` and `proof` of a session, `proven`, `vouched` and `applied` are history: no
  step reads them. A session spared by a password change loses its `password`, for its
  owner chose to keep it. `vouched` has the addresses that an administrator or a provider
  answers for: who gives a user an address, even unconfirmed, admits that the next link
  the user opens confirms it, also a link that was mailed to the address before
  (`confirmEmail` confirms the row, not the address mailed to).
* A project starts empty or, to reach further with the same number of requests,
  `Inhabited`: one user who has signed up, confirmed, signed in and has a code in the
  mailbox, a state that the operations lead to, but for the spent token of the sign-up.
* `Ops` restricts an instance to some operations, `MaxCalls` bounds the requests,
  `MaxAttempts` is 5 in the SQL text and smaller in the passing runs.

### Decisions in OAuth

* As in `Accounts`, a transaction is one step, and `Stop` is every refusal, failure and
  crash. A handler that is one transaction (`ExchangeCode`, `Authorize` to sign in)
  is one action and needs no request slot. A callback has two transactions with the
  request to the provider between them; the check of a signed-in subject is a
  transaction of its own before linking and unlinking.
* The lookup of an identity at the start of `resolveProfile` takes no lock, so it is a
  step apart from the locks and inserts that follow, merged with the provider's
  answer. It skips deleted users while the unique index does not (`Found` and
  `Taken`). An identity found then is not looked up again (`ResolveFound`), so it may
  be gone when its code is written. The exchange looks again, in the transaction that
  opens the session; a property of that one step would only repeat its guard, so
  `FlowsKeepTheirUser` is about what the three transactions hand from one to the next.
* Expiry, the age limit of a linking session, a wrong verifier, redirect or flow are
  refusals. Encryption of the state, the providers' protocols and default roles are
  left out. A profile is any subject with or without an address, verified or not; a
  linking flow ignores the address (`Bare`).
* A deleted identity keeps its row with `present` false, because codes may refer to its
  id and ids are never reused.
* `CreateUser` is a sign-up, or an administrator who creates a user without a password and
  perhaps without an address. `updateUserById` bans, unbans and replaces the address;
  confirmation decides nothing here and is left out.
* `state` of a code and `code` of a session are history: no step reads them. `MaxCalls`
  bounds new users, an administrator's patches, sign-ins and handlers; the sizes of the tables
  bound the rest.

### Decisions in Pkce

* Tabs run in processes of their own and storage may be asynchronous: `getItem` and
  `setItem` are two steps. The lock is the Web Locks kind, which excludes all tabs;
  each tab runs one call at a time.
* An entry is its identifier; the verifier is left out. `expired` grows at any time.
  `sent` is history. `GiveUp` is a closed tab, a lock timeout or a failed request.
* Left out: malformed records, the filter of `findPkce` by flow and redirect, and the
  removal of a transaction whose authorization failed.

### Decisions in AdminRoles

* The tables change at the commit. Other transactions see nothing of an open one, and
  what a transaction decides on it has locked, except where the code reads without a
  lock: there the read is a step of its own.
* The roles of the actor are locked before those of the target, each group in order of
  id, so two transactions can wait for each other; PostgreSQL aborts one of them.
* The role that is to be outranked once more after a change of rank (the third call of
  `assignedRolesForUpdate`) is the phase `newRank`. `direct` is what `#authorize` locked.
* A secret key acts like the server itself (`Trusted`); only the creation of a system
  role tells them apart and is left out. `createRole` takes any free role id.
* `countActiveRoleAssignments` counts the assignments of deleted users too, as the query
  does. Scopes and expiry of assignments, the rows of `auth.permissions` and the locks of
  user rows are left out.

### Decisions in Migrations

* A file is its place and its content: the place stands for its version, the content
  for the checksum and the release. Statements of a file are one step, because they are
  one transaction; the row of the history is another.
* Several releases work at once. `Releases` are the first four files, the first five,
  and the first three followed by the seventh, so that one manifest continues another
  and one contradicts it. Init is a database that any of them has begun to migrate.
* `Alter` is a person with `psql`. It may touch the objects `Touched` names, one of a kind
  compared by name and one compared in its form.
* The version of PostgreSQL, the extension and the list of forbidden names are left out.

### Decisions in Requests

* Other requests are part of the environment: a request shares nothing with them but the
  store. So one slot is enough, and `Req` may still have any size in the proofs.
* A request refused before anything is read leaves no state. The signed callback carries
  no credentials; it is in `OAuth`. An unknown key is `None`. Verifying a token's
  signature reads nothing, so it is merged with the lookup that follows.
* Session and owner are judged in one transaction, at one moment, but their expiry by a
  reading of the clock that may be earlier. A limiter may refuse a mutation at will.
* Inheritance is resolved into `grants`; an assignment that expires is one removed.
  `AuthServer.authorize` does not hand out its context: the application makes its own
  with `createAuthorizationRequestContext`, and asks each requirement at most once.
* `views`, `fresh` and the like in `Seen` are history: what was true of the store at some
  moment since the request was read. `touchApiKeyLastUsed` writes what nothing reads.

### Decisions in Protocol, Callers and Rows

* A field of a body is its name, or name and value where the code looks at the value. A
  shape is groups of alternatives. Lengths and encodings are left out but for the bounds
  the client and the server name differently.
* A column is name, type and presence; `inet` is read as a string. `snapshotValue`
  refuses an object with a prototype, which dates and buffers are.

### Decisions in RateLimits

* Time is in ticks, two to a second. A statement of PostgreSQL is one step; whether its
  batch of deletions got to an expired row is a flag, and all ASSUMEs hold for both.
* Schedules have up to four calls of limit 2 and window 2 s from one or two keys: enough
  to fill a window, to be refused, to pass into the next, and to fill a map of one entry.

### Decisions in AccessTokens and Cookies

* A key is the pair it belongs to and the form it was configured in; a signature fits
  the pair. jose refuses to verify with a private key, which is what decides.
* A token has whole seconds, a session milliseconds: the instants checked lie around
  the ends of both.
* What is joined from the chunks of two records is `Invalid`: it decodes to text that is
  not the JSON of a record. Names and attributes of cookies are left out, and so are
  methods of an adapter that throw.

## Runs

| run | instance | distinct states | shows |
|---|---|---|---|
| sessions | 1 user, 2 sessions, 3 tokens, 2 requests, clock up to 2, lifetime 2 | 1,027,290 | `LineageIntact`, `NoTokenOutlivesSession`, `DeletedUserHasNoSession`, `AnswersAreTrue`, `NoReplayBrushedOff`, `NoTokenForInactive` |
| sessions_steady | 1 user, 1 session, 3 tokens, 2 requests, no failures, weak fairness of each request's service | 243,915 | `ReplayIsContained`, and that `Sessions` implements `SessionFamily` |
| client_calls | 2 tabs, Web Locks, 2 sessions, 4 calls, lost answers | 1,068,473 | `NoHonestReplay`, `NewestTokenKept` |
| client_lanes | 1 tab with 3 concurrent calls, fallback lock, 4 calls, all faults, weak fairness | 80,961 | `EveryCallReturns`, `ServerKeepsPromise` |
| accounts | 1 user, 2 sessions, 2 tokens, 2 addresses, 2 passwords, 2 handlers, 3 requests (an administrator's included), empty or inhabited at the start, both confirmation policies | 368,185 | `NoStalePassword`, `ConfirmedIsProven`, `NoProofWasted`, `ChangesAreProven`, `InactiveStayOut`, and that the tokens implement `ProofTokens`; the ASSUMEs of `RateLimits` |
| oauth | 2 users, 1 address, 2 provider accounts, 2 identities, 1 state, 2 codes, 2 sessions, 2 handlers, 4 calls, both auto-link policies | 279,611 | `SingleUse`, `IdentitiesUnique`, `FlowsKeepTheirUser`, `LastMethodStays`, `LinksAreAuthorized` |
| roles | 2 users, 3 roles (1 of the system), 2 transactions | 693,762 | `NoShortCycle`, `SystemRoleKept`, `EditsAreEntitled` |
| migrations | 3 releases, 2 runners, 1 verifier, 3 starts, 2 objects changed by hand, weak fairness of a run | 323,410 | `HistoryIsTrue`, `HistoryIsAPrefix`, `SuccessIsComplete`, `VerifiedIsComplete`, `DriftIsSeen`, `RunsEnd`; the ASSUME of `Catalog` |
| requests | 1 request, 1 user, 1 session, 1 access token, 2 keys, 2 changes of the store, weak fairness of a request | 436,168 | `AuthorityIsFresh`, `ChecksAgree`, `EveryRequestAnswered`; the ASSUMEs of `Protocol`, `Callers`, `Rows` |
| client_update | 2 tabs, Web Locks | | violated: updateUser restores a spent token |
| pkce_once | 2 tabs, 2 transactions | | violated: one transaction is exchanged twice |
| roles_cycle | 4 roles, 2 transactions with disjoint locks | | violated: a circle of four roles is committed |

Why the bounds are enough to meet the hazards: a forked lineage needs two requests and a
root with two competing replacements (3 tokens); a replay needs a spent token and
its live replacement (2 tokens) and a second request in between; the clock needs
two values for an expiry to fall between the read and the commit, and a lifetime of two
for a rotation one tick after its session was created, whose replacement the session's
own expiry has to cut short. (`sessions_steady`, where no property is about expiry, keeps
a lifetime of one.) Failures change only
the requests, so that checking the refinement without them loses nothing. In the
client, a stale write needs two tabs, one rotation and one concurrent call; four calls
allow two rotations and a sign-out or sign-in around them. The client runs stop when
the calls are used up, which is why they do not check deadlock; `EveryCallReturns`
says that nothing is stuck before. (With all three faults and four calls
`client_calls` was also explored once: 4,291,674 states, no error.)

In `Accounts` a stale password needs a sign-in caught between its two verifications and a
change or reset by a second handler, which itself needs a session or a mailed token: from
the inhabited start two requests and two handlers, and one request is left for an
administrator or for asking for a proof. Two tokens let a sign-up or magic-link proof
and an address-change proof of one user exist together, so that one is answered while
the other replaces the address. From the empty start the same three requests sign up,
confirm and sign in. `SensibleRequests` leaves out requests that are refused whatever
happens (a token presented with a purpose or for an address it was not issued for) and
those whose first step, which only reads, would be refused when they arrive: a request
that arrives later takes their place. `SensiblePatches` lets an administrator change one
thing at a time, and something. In the specification and in the proofs neither applies.
Users, sessions, tokens, addresses, passwords and handlers are interchangeable, so their
permutations are symmetries; none of the properties checked there is liveness. One user
is enough for them; that addresses stay unique takes two, and is proved instead (`AddressesCorrect`),
as are `OneSessionPerProof` (`ProofsCorrect`) and `RevocationTotal` (`StoreCorrect`).

In `AdminRoles` a lost holder, an edit above one's rank and a circle each need two
transactions that overlap; the seed gives the second user a role by inheritance, so
that the loss of one role leaves him an administrator. The circle of four needs a seed
of its own, with two edges that share no role.

In `Migrations` two runners of different releases and a lost connection are three starts;
a verification between them is one of the three.

In `Requests` two changes suffice for a credential to be taken away and for another
(or the same right) to be given while a request waits; the request passes five awaits.

In `OAuth` the last login method needs a user with two identities: a sign-in, a link and
two concurrent unlinkings, four calls and two handlers. The same bounds hold two
callbacks that found one account free, a link whose session is signed out while the
provider is asked, an unlinking between a code and its exchange, and an account of the
provider that changes its user between two steps of a flow.

Fairness. `SteadySpec` lets a request that waits for its transaction be served: row
locks are taken in one order, so no deadlock keeps a transaction waiting, and a
handler awaits nothing else. It has no failures, because a crash between the two
transactions of a replay does leave the session alive: the code accepts that, and
`AnswersAreTrue` shows that nobody is then told the replay was contained.
`FairSpec` of the client lets the event loop run what is ready and the server
answer; neither losses nor timeouts nor further calls are assumed to happen.
`Migrations` assumes that a runner goes on when its next statement can run and that the
advisory lock is granted when free: nothing else holds it. `Requests` assumes that the
server goes on with a request it has read and that PostgreSQL answers or fails; that
the body arrives is not assumed, because `readBody` has no timeout, and so
`EveryRequestAnswered` speaks of requests that were read.

## Findings

* `client_update`: `updateUser` and `updatePassword` read the session, await the
  server and write the session back without the lock. A rotation in between is
  undone in storage; the next refresh presents a spent token.
* `pkce_once`: a browser test and the implementation status say that a PKCE transaction
  is consumed atomically across tabs. `findPkce` reads without the lock, and a reader
  that met an expired entry writes the list back without it: over a consumption that
  happened since, which is thereby undone. The second exchange is refused by the
  server, whose code is single use (`SingleUse`); the same write loses a transaction
  that another tab has just added.
* `roles_cycle`: the schema reference says that edits of the inheritance are serialised
  and a deferred trigger rejects cycles. The trigger sees committed edges only, and the
  locks of two edits may be disjoint from four roles on; circles of up to three
  (`NoShortCycle`, proved) are always rejected.

### Stated by an ASSUME

These disagreements between code and documents need no run of several steps; the
operators say what the code does.

* `Rows!AnswersFromRowsAssumption`: `GET /admin/audit` answers `internal_error` as soon as
  one event is stored. `mapAudit` (`repositories/admin.ts:35`) leaves `occurred_at` a
  `Date`, which the copy in `auth-server.ts:490` refuses; `docs/reference/server.md:172`
  promises a page of events.
* `RateLimits!SharedBucketAssumption`: the routes hand the services no address
  (`routes/public.ts:77`, `routes/user.ts`), so `users.ts:875` counts all callers of a
  deployment under `ip:unknown`, ten sign-ins a quarter of an hour;
  `docs/specs/mrjim-auth-v1.md:444` says the limits are per address.
* `RateLimits!LateStatementAssumption`: a statement that read the clock before the end of
  its window and runs after another has deleted that window's row starts it anew.
* `Callers!ClientCallsAssumption`: `signInWithOtp` of the client accepts the type `signup`
  (`auth-client.ts:456`, `docs/compatibility/supabase-auth.md:36`); the schema of `/otp`
  refuses it.
* `Callers!PreflightAssumption`: the preflight advertises PATCH and refuses it.
* `Callers!MountedAssumption`: a bad OAuth state is 400 from a route mounted by itself and
  401 from AuthServer, a refused unlink 401 and 400.
* `Callers!BoundsAssumption`: the schema allows 10,000 ids in a list, which cannot fit the
  64 KiB of a body.
* `Callers!AdapterAssumption`: with a body parser that leaves `{}` on a call without a body,
  as Express 4 does, the calls without a body are refused.
* `Callers!CallbackAssumption`: the callback route mounted by itself refuses a redirect
  that has a parameter named `state`, `code_verifier` or like a token, when the code it was
  to carry is already issued.
* `AccessTokens!FormsAssumption`: a server configured with a PEM private key issues tokens,
  publishes the key and refuses its own tokens, because `jwks.ts:153` imports it as a
  private key for verification too; the comment at `jwks.ts:116` speaks of PEM and JWK
  material alike.
* `AccessTokens!RotationAssumption`: a new key must be published everywhere before it is
  made active, and the old one withdrawn only after that; `docs/getting-started.md:92` has
  the second half only.
* `Cookies!CrossedAnswersAssumption`: two requests of one browser that refresh side by side
  leave an unreadable record when the answer that arrives first wrote more chunks than
  the other and than there were: the second does not know of them.
* `Protocol!DocumentAssumption`: the OpenAPI document says that `POST /logout` requires a
  body; it serves the holder of an access token without one.

### Read, but not modelled

Noted while reading, for whoever works on these parts next:

* Five wrong one-time codes leave the code unconsumed: a failure is counted against the
  row whose digest was presented. The comment in `repositories/users.ts` says this is
  meant; `docs/specs/mrjim-auth-v1.md:447` says otherwise.
* The fallback lock is a map in one tab's memory; `docs/specs/mrjim-auth-v1.md:479` promises
  exclusion between tabs.
* `readLatest` (`auth-client.ts:738`) raises `lastRevision` without dispatching, so the remote
  message that follows is ignored and a sign-out of another tab raises no event.
* `AdminService.#mutate` consumes from the rate limiter inside its open transaction
  (`admin-service.ts:148`). With one pool for both, as in `examples/express-api`, ten
  mutations at once wait for an eleventh connection.
* Both buckets are consumed even when one refuses (`users.ts:877`), and OAuth starts are not
  limited, which `docs/security.md:43` says they are.
* `authorization.allowWildcards` is parsed and read nowhere.
* `GET /.well-known/jwks.json` requires an API key; the specification calls it public.

## Proofs

`SessionsProof` proves, for any finite or infinite sets of users, sessions, tokens and
requests and any positive `Ttl` and `MaxTime`:

* `TypeCorrect`: `Spec => []TypeOK`
* `StoreCorrect`: lineage, at most one live token, total revocation
* `DeletionCorrect`: `DeletedUserHasNoSession`
* `AnswersCorrect`: `AnswersAreTrue`

None of the invariants is inductive alone. The inductive invariant `IInv` adds that rows
refer to existing rows (`References`) and what a request in flight still knows
(`RequestInv`): its clock was read before, its token and session exist and belong
together, and what it is about to answer is true. Rotation needs all of it at once: the
replacement is new, so nobody refers to it, and the rotated token was the one live
token of its session. The proof has one lemma per action; stamping lemmas say what
revocation does to a set of rows.

It also proves, from `IInv` and one step:

* `TokensExpire`: `NoTokenOutlivesSession`
* `ReplaysAnswered`: `NoReplayBrushedOff`
* `NoTokenForInactiveUser`: `NoTokenForInactive`
* `Implementation`: `Sessions` implements `SessionFamily`, each step being `Open`,
  `HandOver`, `Revoke` or a stutter.

`AccountsProof` proves all invariants of `Accounts`, for any sets of users, sessions,
tokens, addresses, passwords and handlers and any bounds:

* `TypeCorrect`: `Spec => []TypeOK`
* `AddressesCorrect`: `AddressesUnique`
* `ConfirmationsCorrect`: `ConfirmedIsProven`
* `PasswordsCorrect`: `NoStalePassword`
* `ProofsCorrect`: `OneSessionPerProof`
* `ProofsUsed`: `NoProofWasted`
* `InactiveStaysOut` and `ChangesProven`: the action properties `InactiveStayOut` and
  `ChangesAreProven`. What handlers do is told apart from what administrators do
  (`Handled`): an administrator may change the address of a user, a banned one too, with
  no proof and no session.
* `Implementation`: the token rows implement `ProofTokens`

Its inductive invariant adds to them `Linked`, `RequestOK` and `Exclusive`. `Linked`: rows
refer to rows, what was applied or opened a session is consumed, and every link
token claims an address of its user (`Claim`): the address mailed to is the user's, or
the user's has answered since, or was vouched for. Without the claim, confirming an old
link after a change of address would mark an address that nobody answered for. `RequestOK` is
what a handler may rely on at its next step: what it looked up still exists and, if
it has spent a proof, the address that proof confirms is proven. `Exclusive`: a spent
proof is in the hands of one handler or one session, which is why it opens one. Most
steps write few rows, so the lemmas go by kind of step (`RequestStep` moves a handler,
`TokenStep` also a token, `OpenStep` opens a session, `WriteStep` writes a user and
revokes), and each action is reduced to one of them.

`OAuthProof` proves, for any users, provider accounts, addresses, rows and handlers:

* `TypeCorrect`, `UsedOnce` (`SingleUse`), `AccountsUnique` (`IdentitiesUnique`),
  `FlowsCorrect` (`FlowsKeepTheirUser`), `LastMethodKept` (`LastMethodStays`) and
  `LinksAuthorized` (`LinksAreAuthorized`).

Its inductive invariant adds to `SingleUse` and `IdentitiesUnique` that a consumed state is
in the hands of one callback (`Exclusive`), that this callback has issued no code for it
yet (`RowOK`), and that codes come from consumed states (`StatesOK`): a state is spent in
one transaction and its code written in a later one, so single use of codes rests on who
holds the state in between. For `FlowsCorrect` a second invariant, `Flows`, follows the user
of a flow from row to row: what a callback took from its state, what a code says of its
identity and its state, and what a session says of its code. `LastMethodStays` is about two states of a step. Unlinking
counts identities under the lock of the user's row, and more than one means that one other
stays.

`ClientSessionProof` proves, for any tabs, sessions, lanes and number of calls:

* with either lock, all calls and all faults: `TypeCorrect`, `PromiseKept`
  (`ServerKeepsPromise`: the server of the model takes only steps of `SessionFamily`) and
  `LockExclusive` (two calls that exclude each other never hold the lock together, whoever
  gave up waiting or closed)
* under `OneLock` (every two calls exclude each other: Web Locks, or one tab) and
  without `updateUser`: `HonestTabs` (`NoHonestReplay`) and `NewestKept`
  (`NewestTokenKept`).

The hypotheses of the second group are those of the run `client_calls`. They are needed:
`client_update` shows what `updateUser` does to both properties, and without `OneLock` two
tabs under the fallback lock rotate one token side by side. The first inductive invariant,
`IInv`, is `TypeOK`, what a call still knows at its next step (`RowOK`), that nobody else
knows of a session whose sign-in is not finished (`FreshOK`), and two accounts:
`RotationsOK` and `RevisionsOK` count the calls that may still rotate or write, because a
generation and a revision are bounded only by the calls that have been begun. `LockOK`
is the order of the lock queue. The second, `HInv`, adds `TrackOK`: of a session that is
not adrift, storage has the newest token unless the holder of the lock or a sign-in is
about to write it (`NewestTokenKept`, `HolderOK`), a refusal means that the session has
ended (`RefusedOK`), requests nobody waits for are of sessions adrift (`StraysOK`), and
whoever has a token of a session that is not adrift, storage carries that session
(`RootsOK`).

`AdminRolesProof` proves, for any users, roles, transactions, seeds and requests:

* `TypeCorrect`, `NoShortCycles`, `SystemRolesKept` and `EditsEntitled`.

Its inductive invariant is `TypeOK`, `NoShortCycle` and, for each transaction, `Row(h)`:
`Shape` (what a record may hold at its step), `Locked` (the roles it was allowed to edit
are locked by it and still outranked by a role of its actor), `Ranked` (the ranks it has
read are those of roles of the actor it has locked), `Carried` (the role on which the
permission was found is still the actor's), `Counted` (when it takes a system role from
a user, another has it) and `Passed` (with the edges the trigger has seen, its own close
no short circle). A circle of three is always caught because any two edits that could
close one share a locked role.

`MigrationsProof` proves, for any manifests and any sets of runners and verifiers:

* `TypeCorrect`, `HistoryTrue`, `HistoryPrefix`, `NoClashes`, `SuccessComplete`,
  `VerifiedComplete`, `DriftSeen`.

The inductive invariant adds to `HistoryIsTrue` and `HistoryIsAPrefix` two conjuncts:
`RunOK(r)`, only the holder of the lock is past taking it, and the history is the prefix
it believes to have reached; and `CheckOK(v)`, no object that was altered when a
verification began is of a kind it has read and found clean.

`RequestsProof` proves, for any stores and requests:

* `IndexSound`: the index of permissions answers as matching them one by one does
* `TypeCorrect`, `AuthorityFresh` and `ChecksAgreed`.

`Row(r)` of its invariant is `Shape`, `Credited` (what has been accepted, or will be by a
clock read before, was seen good since the request was read), `Watched` (the permissions
that a pending read would return were the user's at some moment since) and `Told` (a
scope has one entry in the cache, and every answer so far follows from it).

`RateLimitsProof` proves about one call of either limiter, for any policies, keys, clocks,
size of the map and amount of cleaning:

* `WaitIsExact`: the wait of a refusal is right to the second
* `LimitHolds`: a call takes one of what its window has left, or takes nothing
* `LimitersAgree`: as long as the map has room, both limiters answer alike and stay alike.

`WellKept` (what is live belongs to the window under way, is within the limit and there
once) holds of an empty limiter, and every call preserves it. So the theorems apply to
each call of every schedule whose clock does not go back; that last step, over the
length of a schedule, is induction over data and not formalised. `LateStatementAssumption`
shows why the clock matters.

Every assumption of these proofs is an ASSUME about constants, named in the module that
declares them; TLC evaluates it in the runs of that module.

Only model-checked: `ReplayIsContained`, `EveryCallReturns`, `RunsEnd` and
`EveryRequestAnswered`, because liveness is outside the prover; `Pkce`, whose one property
is violated; the answers of whole schedules of `RateLimits`; and the tables of `Protocol`,
`Callers`, `Rows`, `Catalog`, `AccessTokens` and `Cookies`, which are constants with nothing
to prove for other values.

## Plan

Left to prove: that a PKCE transaction is consumed once as long as no entry of the list
expires, which is what the finding `pkce_once` leaves of the documented promise; and of
`Cookies`, that what is written is read back for any number of chunks.

## Not modelled

* Cryptography. In `Sessions`, `Accounts` and `OAuth` the access token of a caller is
  taken as verified; what changes behind it is in `Requests`.
* Audit and e-mail: formatting and redaction; the audit row belongs to the transaction of
  the operation it records, a mail's arrival is `Mail` of `Accounts`.
* Storage client and S3 adapter: a wrapper of an object store, with no state.
* Configuration, assembly of the services and the wrapping of injected callbacks:
  executed once, before any request.
* The parsing of headers, paths, bodies and URLs byte by byte, and validation of answers
  in the client beyond the members it demands.
* Initialization of the client from the URL, timers and visibility, `setSession` and
  `refreshSession` with a supplied session.
* Invitations, permission rows, lists and profile metadata, which meet no other state
  than their own row.
