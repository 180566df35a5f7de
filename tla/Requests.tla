------------------------------ MODULE Requests ------------------------------
(***************************************************************************)
(* One HTTP request through the server: AuthServer.handle and              *)
(* AuthServer.authorize (server/auth-server.ts), the route handlers that   *)
(* act on its credentials (server/routes/), the request-local permission   *)
(* checks (server/authorization.ts) and the admission of an administration *)
(* call (server/admin-service.ts), against a store in which keys, sessions,*)
(* bans and grants change while the request waits.                         *)
(*                                                                         *)
(* A request reads its credentials at four places with awaits between      *)
(* them: the body, the API key, the user row, the session transaction.     *)
(* One action is what the code does between two awaits.                    *)
(***************************************************************************)
EXTENDS Integers, FiniteSets

CONSTANTS
  User, Session, Bearer, Key, Req,
  Owner,         \* the user of a session
  SessionOf,     \* the session an access token names
  Secret,        \* the keys of kind "secret"; the others are publishable
  Scoped,        \* the secret keys whose scopes cover the administration
  Scope,         \* the scopes a grant or a check can name
  Resource, Action,
  Manage,        \* the permission the administration call requires
  Family,        \* the permission "auth.*"
  Grantable,     \* the assignments that may come and go: <<user, scope, perm>>
  Requirements,  \* the requirements the application checks
  Lapsing,       \* the credentials whose expiry falls within the run
  None, Global,  \* no value; no scope
  MaxChanges     \* bound on what the rest of the world does to the store

Any == "*"
Perm == ((Resource \X (Action \cup {Any})) \cup {<<Any, Any>>})
Scopes == Scope \cup {Global}
Requirement == [any : SUBSET Perm, all : SUBSET Perm, scope : Scopes]

ASSUME OwnerAssumption == Owner \in [Session -> User] /\ SessionOf \in [Bearer -> Session]
ASSUME KeyAssumption == Scoped \subseteq Secret /\ Secret \subseteq Key
ASSUME PermAssumption ==
  /\ Any \notin Resource \cup Action
  /\ Manage \in Resource \X Action /\ Family \in Resource \X {Any}
ASSUME GrantAssumption ==
  /\ Global \notin Scope
  /\ Grantable \subseteq User \X Scopes \X Perm
  /\ \A q \in Requirements : q \in Requirement /\ q.any \cup q.all # {}
ASSUME BoundAssumption ==
  Lapsing \subseteq Key \cup Bearer \cup Session /\ MaxChanges \in Nat
ASSUME NoneAssumption == None \notin Key \cup Bearer \cup Session \cup Req

-----------------------------------------------------------------------------
(* permissions: server/authorization.ts *)

\* how specifically a grant covers a required key; 0 is no cover
MatchRank(g, p) ==
  IF g = p THEN 3
  ELSE IF g = <<p[1], Any>> /\ p[2] # Any THEN 2
  ELSE IF g = <<Any, Any>> /\ p[1] # Any /\ p[2] # Any THEN 1
  ELSE 0

Matches(g, p) == MatchRank(g, p) > 0

\* what a read of the effective permissions is kept as
Index(P) == [exact     |-> P,
             resources |-> {p[1] : p \in {g \in P : g[2] = Any /\ g[1] # Any}},
             global    |-> <<Any, Any>> \in P]

HasPermission(ix, p) ==
  \/ p \in ix.exact
  \/ p[2] # Any /\ (p[1] \in ix.resources \/ ix.global)

\* an absent `any` or `all` is empty; a requirement never has both absent
Satisfies(ix, q) ==
  /\ q.any = {} \/ \E p \in q.any : HasPermission(ix, p)
  /\ \A p \in q.all : HasPermission(ix, p)

\* admin-service.ts matches its own permissions by name
Administers(P) == P \cap {Manage, Family, <<Any, Any>>} # {}

-----------------------------------------------------------------------------
VARIABLES
  keys,       \* the API keys: absent, live or revoked
  sessions,   \* the sessions: live or revoked
  lapsed,     \* the keys, access tokens and sessions past their expiry
  banned, deleted,
  grants,     \* the assignments in force, inheritance resolved
  changes,    \* how often the rest of the world has changed the store
  reqs,       \* the requests in progress
  seen        \* history: what was good at some moment since it mattered

store == <<keys, sessions, lapsed, banned, deleted, grants>>
vars == <<keys, sessions, lapsed, banned, deleted, grants, changes, reqs, seen>>

Route == {"public", "authorize", "link", "user", "logout", "admin", "app"}
Request ==
  [pc : {"body", "key", "user", "session", "route", "mutate", "check", "app"},
   route : Route, key : Key \cup {None}, bearer : Bearer \cup {None},
   browser : BOOLEAN, token : Session \cup {None}, now : SUBSET Lapsing,
   cache : SUBSET (Scopes \X SUBSET Perm), asked : SUBSET Requirements,
   granted : SUBSET Requirements, denied : SUBSET Requirements]

Seen == [key : BOOLEAN, fresh : BOOLEAN, login : BOOLEAN,
         views : SUBSET (Scopes \X SUBSET Perm)]
Nothing == [key |-> FALSE, fresh |-> FALSE, login |-> FALSE, views |-> {}]

\* repositories/authorization.ts: no scope selects the global assignments only
Effective(u, sc) ==
  IF u \in deleted THEN {}
  ELSE {p \in Perm : <<u, Global, p>> \in grants \/ <<u, sc, p>> \in grants}

Subject(r) == Owner[SessionOf[reqs[r].bearer]]
Busy(r) == reqs[r] # None
At(r, pc) == Busy(r) /\ reqs[r].pc = pc

-----------------------------------------------------------------------------
(* the history: argument-free, so that it can be primed *)

GoodKeys == {k \in Key : keys[k] = "live" /\ k \notin lapsed}
Unlapsed == {b \in Bearer : {b, SessionOf[b]} \cap lapsed = {}}
GoodLogins == {b \in Bearer : /\ sessions[SessionOf[b]] = "live"
                              /\ Owner[SessionOf[b]] \notin banned \cup deleted}
Powers == [u \in User |-> [sc \in Scopes |-> Effective(u, sc)]]

\* the scopes in which a check of the request waits for its read
Pending(q) == {c.scope : c \in q.asked} \ {e[1] : e \in q.cache}

\* the scopes in which the request is to read permissions next
Reading(q) == IF q.pc = "route" /\ q.route = "admin" /\ q.bearer # None THEN {Global}
              ELSE Pending(q)

\* what request q could learn in the next state, added to `before`
Learnt(before, q) ==
  IF q.pc = "body" THEN before
  ELSE [key   |-> before.key \/ q.key \in GoodKeys',
        fresh |-> before.fresh \/ q.bearer \in Unlapsed',
        login |-> before.login \/ q.bearer \in GoodLogins',
        views |-> before.views \cup
          {<<sc, Powers'[Owner[SessionOf[q.bearer]]][sc]>> : sc \in Reading(q)}]

\* every history moves on; that of r, the request that acts, from `before`
Witness(r, before) ==
  seen' = [q \in Req |->
             IF reqs'[q] = None THEN Nothing
             ELSE Learnt(IF q = r THEN before ELSE seen[q], reqs'[q])]

-----------------------------------------------------------------------------
Answer(r) == reqs' = [reqs EXCEPT ![r] = None]
\* (a clock reading ends with the step that judged by it)
Goto(r, pc) == reqs' = [reqs EXCEPT ![r].pc = pc, ![r].now = {}]

Init ==
  /\ keys \in [Key -> {"absent", "live"}] /\ sessions = [s \in Session |-> "live"]
  /\ lapsed = {} /\ banned = {} /\ deleted = {} /\ grants \in SUBSET Grantable
  /\ changes = 0
  /\ reqs = [r \in Req |-> None] /\ seen = [r \in Req |-> Nothing]

Arrived(pc, route, key, bearer, browser, token) ==
  [pc |-> pc, route |-> route, key |-> key, bearer |-> bearer, browser |-> browser,
   token |-> token, now |-> IF pc = "key" THEN lapsed ELSE {}, cache |-> {},
   asked |-> {}, granted |-> {}, denied |-> {}]

\* snapshotRequest, checkOrigin and the routing let the request in; a request
\* they turn away is answered at once. AuthServer.authorize reads no body.
Receive(r) ==
  /\ ~Busy(r)
  /\ \E route \in Route, pc \in {"body", "key"}, browser \in BOOLEAN,
        key \in {k \in Key : keys[k] # "absent"} \cup {None},
        bearer \in Bearer \cup {None}, token \in Session \cup {None} :
       /\ pc = "body" => route \in {"public", "user", "logout", "admin"}
       /\ browser => key \in Secret
       /\ token # None => route = "logout" /\ pc = "body"
       /\ reqs' = [reqs EXCEPT ![r] = Arrived(pc, route, key, bearer, browser, token)]
  /\ UNCHANGED <<store, changes>>
  /\ Witness(r, Nothing)

\* parseRequestBody is done; authenticate reads the clock before it awaits
ReceiveBody(r) ==
  /\ At(r, "body")
  /\ reqs' = [reqs EXCEPT ![r].pc = "key", ![r].now = lapsed]
  /\ UNCHANGED <<store, changes>>
  /\ Witness(r, Nothing)

RequiresBearer(q) ==
  \/ q.route \in {"user", "app", "link"}
  \/ q.route = "admin" /\ q.key \notin Secret

\* findApiKeyByHash and safeApiKey judge expiry by the clock read before
KeyAccepted(q) ==
  /\ q.key # None
  /\ q.key # None => keys[q.key] = "live"
  /\ q.key \notin q.now
  /\ ~(q.key \in Secret /\ q.browser)

BearerAccepted(q) ==
  IF q.bearer = None THEN ~RequiresBearer(q)
  ELSE /\ RequiresBearer(q) \/ q.route \in {"admin", "logout", "authorize"}
       /\ q.bearer \notin lapsed

LookUpKey(r) ==
  /\ At(r, "key")
  /\ IF KeyAccepted(reqs[r]) /\ BearerAccepted(reqs[r])
       THEN Goto(r, IF reqs[r].bearer = None THEN "route" ELSE "user")
       ELSE Answer(r)
  /\ UNCHANGED <<store, changes>>
  /\ Witness(r, seen[r])

\* users.findById; authorizeSession then verifies the token and reads the clock
FindUser(r) ==
  /\ At(r, "user")
  /\ IF Subject(r) \notin deleted /\ reqs[r].bearer \notin lapsed
       THEN reqs' = [reqs EXCEPT ![r].pc = "session", ![r].now = lapsed]
       ELSE Answer(r)
  /\ UNCHANGED <<store, changes>>
  /\ Witness(r, seen[r])

\* Mutant: the access token is trusted without its session's row.
SessionUnread(r) ==
  LET s == SessionOf[reqs[r].bearer]
  IN  s \notin reqs[r].now /\ Subject(r) \notin banned \cup deleted

SessionAccepted(r) ==
  LET s == SessionOf[reqs[r].bearer]
  IN  /\ sessions[s] = "live" /\ s \notin reqs[r].now
      /\ Subject(r) \notin banned \cup deleted

\* The transaction of authorizeSession; the context of the checks is fresh.
AuthorizeSession(r) ==
  /\ At(r, "session")
  /\ IF ~SessionAccepted(r) THEN Answer(r)
     ELSE IF reqs[r].route = "app"
       THEN \E q \in Requirements :
              reqs' = [reqs EXCEPT ![r].pc = "check", ![r].now = {}, ![r].asked = {q}]
       ELSE Goto(r, "route")
  /\ UNCHANGED <<store, changes>>
  /\ Witness(r, seen[r])

\* the other handlers: what they change is in the modules of their services
Serve(r) ==
  /\ At(r, "route") /\ reqs[r].route \in {"public", "authorize", "link", "user"}
  /\ Answer(r)
  /\ UNCHANGED <<store, changes>>
  /\ Witness(r, seen[r])

Ended(s, scope) ==
  CASE scope = "local"  -> {s}
    [] scope = "global" -> {t \in Session : Owner[t] = Owner[s]}
    [] scope = "others" -> {t \in Session : Owner[t] = Owner[s]} \ {s}

End(S) == sessions' = [s \in Session |-> IF s \in S THEN "revoked" ELSE sessions[s]]

\* signOut by the access token, or revokeRefreshToken; both, or none, is refused
Logout(r) ==
  /\ At(r, "route") /\ reqs[r].route = "logout"
  /\ IF (reqs[r].bearer = None) = (reqs[r].token = None)
       THEN UNCHANGED sessions
       ELSE \E scope \in {"local", "global", "others"} :
              End(Ended(IF reqs[r].token = None THEN SessionOf[reqs[r].bearer]
                        ELSE reqs[r].token, scope))
  /\ Answer(r)
  /\ UNCHANGED <<keys, lapsed, banned, deleted, grants, changes>>
  /\ Witness(r, seen[r])

\* principal: a secret key acts for itself, even beside an access token
AuthorizeAdmin(r) ==
  /\ At(r, "route") /\ reqs[r].route = "admin"
  /\ IF IF reqs[r].key \in Secret THEN reqs[r].key \in Scoped
        ELSE Administers(Effective(Subject(r), Global))
       THEN Goto(r, "mutate")
       ELSE Answer(r)
  /\ UNCHANGED <<store, changes>>
  /\ Witness(r, seen[r])

SetBanned(u) ==
  /\ u \notin deleted
  /\ banned' = IF u \in banned THEN banned \ {u} ELSE banned \cup {u}
  /\ UNCHANGED <<keys, sessions, lapsed, deleted, grants>>

DeleteUser(u) ==
  /\ u \notin deleted
  /\ deleted' = deleted \cup {u}
  /\ End({s \in Session : Owner[s] = u})
  /\ UNCHANGED <<keys, lapsed, banned, grants>>

\* the rest of #mutate: the limiter refuses, or the operation runs and commits
Mutate(r) ==
  /\ At(r, "mutate")
  /\ \/ UNCHANGED store
     \/ \E u \in User : SetBanned(u)
     \/ \E u \in User : /\ reqs[r].key \notin Secret => u # Subject(r)
                        /\ DeleteUser(u)
  /\ Answer(r)
  /\ UNCHANGED changes
  /\ Witness(r, seen[r])

-----------------------------------------------------------------------------
(* the checks of a request: AuthorizationService.authorize, contextPermissions *)

\* Mutant: a context that has an entry starts no other read.
LoadOnce(r) ==
  /\ At(r, "check") \/ At(r, "app")
  /\ reqs[r].cache = {}
  /\ \E sc \in Pending(reqs[r]) : \E P \in {Effective(Subject(r), sc), {}} :
       reqs' = [reqs EXCEPT ![r].cache = @ \cup {<<sc, P>>}]
  /\ UNCHANGED <<store, changes>>
  /\ Witness(r, seen[r])

\* the read that the first check of a scope started; one that fails is kept as
\* no permission at all
Load(r) ==
  /\ At(r, "check") \/ At(r, "app")
  /\ \E sc \in Pending(reqs[r]) : \E P \in {Effective(Subject(r), sc), {}} :
       reqs' = [reqs EXCEPT ![r].cache = @ \cup {<<sc, P>>}]
  /\ UNCHANGED <<store, changes>>
  /\ Witness(r, seen[r])

\* The answer of AuthServer.authorize. The application it lets in makes one
\* context for all the checks of its own.
Admit(r) ==
  /\ At(r, "check")
  /\ \E q \in reqs[r].asked, e \in reqs[r].cache :
       /\ e[1] = q.scope
       /\ IF Satisfies(Index(e[2]), q)
            THEN reqs' = [reqs EXCEPT ![r].pc = "app", ![r].cache = {}, ![r].asked = {}]
            ELSE Answer(r)
  /\ UNCHANGED <<store, changes>>
  /\ Witness(r, [seen[r] EXCEPT !.views = {}])

Ask(r) ==
  /\ At(r, "app")
  /\ \E q \in Requirements \ (reqs[r].asked \cup reqs[r].granted \cup reqs[r].denied) :
       reqs' = [reqs EXCEPT ![r].asked = @ \cup {q}]
  /\ UNCHANGED <<store, changes>>
  /\ Witness(r, seen[r])

\* Mutant: one cache entry per context, whatever the scope.
DecideAnyScope(r) ==
  /\ At(r, "app")
  /\ \E q \in reqs[r].asked, e \in reqs[r].cache :
       reqs' = IF Satisfies(Index(e[2]), q)
                THEN [reqs EXCEPT ![r].asked = @ \ {q}, ![r].granted = @ \cup {q}]
                ELSE [reqs EXCEPT ![r].asked = @ \ {q}, ![r].denied = @ \cup {q}]
  /\ UNCHANGED <<store, changes>>
  /\ Witness(r, seen[r])

Decide(r) ==
  /\ At(r, "app")
  /\ \E q \in reqs[r].asked, e \in reqs[r].cache :
       /\ e[1] = q.scope
       /\ reqs' = IF Satisfies(Index(e[2]), q)
                    THEN [reqs EXCEPT ![r].asked = @ \ {q}, ![r].granted = @ \cup {q}]
                    ELSE [reqs EXCEPT ![r].asked = @ \ {q}, ![r].denied = @ \cup {q}]
  /\ UNCHANGED <<store, changes>>
  /\ Witness(r, seen[r])

Leave(r) ==
  /\ At(r, "app") /\ reqs[r].asked = {}
  /\ Answer(r)
  /\ UNCHANGED <<store, changes>>
  /\ Witness(r, seen[r])

\* any await may reject, and the application may stop
Fail(r) ==
  /\ Busy(r)
  /\ Answer(r)
  /\ UNCHANGED <<store, changes>>
  /\ Witness(r, seen[r])

-----------------------------------------------------------------------------
(* what the rest of the world does to the store *)

CreateKey(k) ==
  /\ keys[k] = "absent"
  /\ keys' = [keys EXCEPT ![k] = "live"]
  /\ UNCHANGED <<sessions, lapsed, banned, deleted, grants>>

RevokeKey(k) ==
  /\ keys[k] = "live"
  /\ keys' = [keys EXCEPT ![k] = "revoked"]
  /\ UNCHANGED <<sessions, lapsed, banned, deleted, grants>>

Lapse(c) ==
  /\ c \notin lapsed
  /\ lapsed' = lapsed \cup {c}
  /\ UNCHANGED <<keys, sessions, banned, deleted, grants>>

EndSession(s) ==
  /\ sessions[s] = "live"
  /\ End({s})
  /\ UNCHANGED <<keys, lapsed, banned, deleted, grants>>

Assign(g) ==
  /\ grants' = IF g \in grants THEN grants \ {g} ELSE grants \cup {g}
  /\ UNCHANGED <<keys, sessions, lapsed, banned, deleted>>

Environment ==
  /\ changes < MaxChanges /\ changes' = changes + 1
  /\ \/ \E k \in Key : CreateKey(k) \/ RevokeKey(k)
     \/ \E c \in Lapsing : Lapse(c)
     \/ \E s \in Session : EndSession(s)
     \/ \E u \in User : SetBanned(u) \/ DeleteUser(u)
     \/ \E g \in Grantable : Assign(g)
  /\ UNCHANGED reqs
  /\ Witness(None, Nothing)

\* what the server does on its own once it has the request
Step(r) ==
  \/ LookUpKey(r) \/ FindUser(r) \/ AuthorizeSession(r)
  \/ Serve(r) \/ Logout(r) \/ AuthorizeAdmin(r) \/ Mutate(r)
  \/ Load(r) \/ Admit(r) \/ Decide(r) \/ Leave(r)

Next ==
  \/ \E r \in Req : Receive(r) \/ ReceiveBody(r) \/ Step(r) \/ Ask(r) \/ Fail(r)
  \/ Environment

\* The server goes on with a request it has read. Nothing makes a client send
\* the rest of a body: ReceiveBody is not fair.
Spec == Init /\ [][Next]_vars /\ \A r \in Req : WF_vars(Step(r))

-----------------------------------------------------------------------------
\* The store and the requests have their shape.
TypeOK ==
  /\ keys \in [Key -> {"absent", "live", "revoked"}]
  /\ sessions \in [Session -> {"live", "revoked"}]
  /\ lapsed \subseteq Lapsing /\ banned \subseteq User /\ deleted \subseteq User
  /\ grants \subseteq Grantable /\ changes \in 0..MaxChanges
  /\ reqs \in [Req -> {None} \cup Request]
  /\ seen \in [Req -> Seen]

\* A handler runs only on credentials that were good after the body of the
\* request had been read: the key and the access token, and at one moment the
\* session together with its owner; an administration call only for a scoped
\* secret key or for a user who was entitled after that session was found good.
AuthorityIsFresh ==
  \A r \in Req : Busy(r) =>
    LET q == reqs[r] IN
    /\ q.pc \in {"route", "mutate", "check", "app"} =>
         /\ seen[r].key
         /\ q.bearer # None => seen[r].fresh /\ seen[r].login
         /\ q.route \in {"user", "link", "app"} => q.bearer # None
    /\ q.pc = "mutate" =>
         \/ q.key \in Scoped
         \/ \E v \in seen[r].views : v[1] = Global /\ Administers(v[2])

\* All the checks an application makes in one context and one scope agree with
\* one set of permissions, under the ranks of permissionMatchRank: one that was
\* in force while the first of them waited for its read, or none if that failed.
ChecksAgree ==
  \A r \in Req : Busy(r) => \A sc \in Scopes :
    \E P \in {v[2] : v \in {w \in seen[r].views : w[1] = sc}} \cup {{}} :
      LET Cover(p) == \E g \in P : Matches(g, p)
          Holds(q) == /\ q.any = {} \/ \E p \in q.any : Cover(p)
                      /\ \A p \in q.all : Cover(p)
      IN  /\ \A q \in reqs[r].granted : q.scope = sc => Holds(q)
          /\ \A q \in reqs[r].denied : q.scope = sc => ~Holds(q)

\* A request whose body has arrived is answered, whatever changes under it.
EveryRequestAnswered ==
  \A r \in Req : (Busy(r) /\ ~At(r, "body")) ~> ~Busy(r)
=============================================================================
