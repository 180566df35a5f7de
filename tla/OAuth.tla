--------------------------------- MODULE OAuth ---------------------------------
(***************************************************************************)
(* Sign-in through a provider, and the identities it links to users        *)
(* (server/oauth.ts over postgres/repositories/users.ts).                  *)
(*                                                                         *)
(* A flow visits several machines: authorize writes a state, the browser   *)
(* carries it to the provider and back, callback consumes it, asks the     *)
(* provider for the profile and writes a code, and exchange consumes the   *)
(* code.  A handler is a chain of transactions and other awaits, each one  *)
(* step; one that only runs a transaction is that step and needs no slot.  *)
(* As in Accounts, every refusal, failure and crash is Stop, and expiry,   *)
(* the age of a linking session, and a wrong verifier or redirect are      *)
(* refusals.                                                               *)
(***************************************************************************)
EXTENDS Naturals, FiniteSets

CONSTANTS
  User, Session, Identity, State, Code,   \* row identifiers, which bound the tables
  Subject,                  \* a provider and an account there
  Address,                  \* normalized e-mail addresses
  Req,                      \* request slots: the number of concurrent handlers
  AutoLinkPolicies,         \* the values of allowVerifiedEmailAutoLink to consider
  MaxCalls,                 \* bound on new users and addresses, sign-ins and handlers
  None                      \* SQL NULL, a missing row, or no value

UserRow == [email : Address \cup {None}, banned : BOOLEAN, deleted : BOOLEAN]
\* A deleted identity keeps its row here, with present FALSE: ids are never reused.
IdentityRow == [user_id : User, subject : Subject, present : BOOLEAN]
\* linking_user_id and the encrypted linkingSessionId; both None in a sign-in flow.
StateRow == [user : User \cup {None}, session : Session \cup {None}, consumed : BOOLEAN]
\* metadata.target_id is identity; state records where the code came from.
CodeRow == [user_id : User, identity : Identity, consumed : BOOLEAN, state : State]
\* code records how the session was opened; no step reads it.
SessionRow == [user_id : User, revoked : BOOLEAN, code : Code \cup {None}]
Profile == {p \in [subject : Subject, email : Address \cup {None}, emailVerified : BOOLEAN] :
              p.email = None => ~p.emailVerified}
\* Linking does not look at the profile's address.
Bare == {p \in Profile : p.email = None}
Request == [pc : {"idle", "authorized", "consumed", "resolve"},
            op : {"authorize", "callback", "signInFromProfile", "linkIdentity",
                  "unlinkIdentity"},
            user : User \cup {None}, session : Session \cup {None},
            state : State \cup {None}, profile : Profile \cup {None},
            identity : Identity \cup {None}]

ASSUME MaxCallsAssumption == MaxCalls \in Nat
ASSUME PoliciesAssumption == AutoLinkPolicies \subseteq BOOLEAN
ASSUME NoneAssumption ==
  /\ None \notin User /\ None \notin Session /\ None \notin Identity
  /\ None \notin State /\ None \notin Code /\ None \notin Address
  /\ None \notin UserRow /\ None \notin IdentityRow /\ None \notin StateRow
  /\ None \notin CodeRow /\ None \notin SessionRow /\ None \notin Profile

VARIABLES
  allowVerifiedEmailAutoLink,  \* the project's policy, fixed
  users,                       \* auth.users
  passwords,                   \* the users with a row in auth.password_credentials
  identities,                  \* auth.identities
  states,                      \* auth.oauth_states
  codes,                       \* the oauth_callback rows of auth.one_time_tokens
  sessions,                    \* auth.sessions
  reqs,                        \* the handlers in flight
  calls                        \* how many of those there were

tables == <<users, passwords, identities, states, codes, sessions>>
vars == <<allowVerifiedEmailAutoLink, tables, reqs, calls>>

Idle == [pc |-> "idle", op |-> "authorize", user |-> None, session |-> None,
         state |-> None, profile |-> None, identity |-> None]

Init ==
  /\ allowVerifiedEmailAutoLink \in AutoLinkPolicies
  /\ users = [u \in User |-> None]
  /\ passwords = {}
  /\ identities = [i \in Identity |-> None]
  /\ states = [x \in State |-> None]
  /\ codes = [c \in Code |-> None]
  /\ sessions = [s \in Session |-> None]
  /\ reqs = [r \in Req |-> Idle]
  /\ calls = 0

--------------------------------------------------------------------------------
(* Rows.                                                                   *)

Exists(u) == users[u] # None /\ ~users[u].deleted
Active(u) == Exists(u) /\ ~users[u].banned

\* findByNormalizedEmailForUpdate sees deleted users too.
Holders(a) == {u \in User : a # None /\ users[u] # None /\ users[u].email = a}

Present(i) == identities[i] # None /\ identities[i].present

\* findByProviderSubject leaves out the identities of deleted users; the unique
\* index on provider and subject does not.
Found(subject) == {i \in Identity : /\ Present(i) /\ identities[i].subject = subject
                                    /\ Exists(identities[i].user_id)}
\* Mutant: the index leaves out the identities of deleted users.
Taken_Found(subject) == Found(subject)

Taken(subject) == {i \in Identity : Present(i) /\ identities[i].subject = subject}

listByUserId(u) == {i \in Identity : Present(i) /\ identities[i].user_id = u}
SessionLive(s) == sessions[s] # None /\ ~sessions[s].revoked
SessionsOf(u) == {s \in Session : sessions[s] # None /\ sessions[s].user_id = u}

revoke(S) == [s \in Session |-> IF s \in S THEN [sessions[s] EXCEPT !.revoked = TRUE]
                                           ELSE sessions[s]]

insertUser(u, a) ==
  /\ users[u] = None
  /\ Holders(a) = {}
  /\ users' = [users EXCEPT ![u] = [email |-> a, banned |-> FALSE, deleted |-> FALSE]]

\* ON CONFLICT DO NOTHING: a taken subject inserts nothing and refuses the handler.
insertIdentity(i, u, subject) ==
  /\ identities[i] = None
  /\ Taken(subject) = {}
  /\ identities' = [identities EXCEPT ![i] =
       [user_id |-> u, subject |-> subject, present |-> TRUE]]

insertState(x, u, s) ==
  /\ states[x] = None
  /\ states' = [states EXCEPT ![x] = [user |-> u, session |-> s, consumed |-> FALSE]]

\* Mutant: the code is not bound to its user.
insertCode_Anonymous(c, u, i, x) ==
  /\ codes[c] = None
  /\ codes' = [codes EXCEPT ![c] =
       [user_id |-> None, identity |-> i, consumed |-> FALSE, state |-> x]]

insertCode(c, u, i, x) ==
  /\ codes[c] = None
  /\ codes' = [codes EXCEPT ![c] =
       [user_id |-> u, identity |-> i, consumed |-> FALSE, state |-> x]]

insertSession(s, u, c) ==
  /\ sessions[s] = None
  /\ sessions' = [sessions EXCEPT ![s] = [user_id |-> u, revoked |-> FALSE, code |-> c]]

--------------------------------------------------------------------------------
(* Requests.                                                               *)

Unwritten == UNCHANGED <<allowVerifiedEmailAutoLink, tables>>

At(r, pc, ops) == reqs[r].pc = pc /\ reqs[r].op \in ops
Called == calls < MaxCalls /\ calls' = calls + 1
Begin(r, request) ==
  /\ reqs[r].pc = "idle"
  /\ reqs' = [reqs EXCEPT ![r] = request]
  /\ Called
Move(r, request) == reqs' = [reqs EXCEPT ![r] = request] /\ UNCHANGED calls
Finish(r) == Move(r, Idle)

\* authorizeSession, the first transaction of everything a signed-in user does.
AuthorizeSubject(r, s, op, profile, i) ==
  /\ SessionLive(s) /\ Active(sessions[s].user_id)
  /\ Begin(r, [Idle EXCEPT !.pc = "authorized", !.op = op, !.session = s,
                           !.user = sessions[s].user_id, !.profile = profile,
                           !.identity = i])
  /\ Unwritten

\* requireFreshLinkingSession, and the lock on the linking user it begins with.
LinkingSession(s, u) == SessionLive(s) /\ sessions[s].user_id = u /\ Active(u)

--------------------------------------------------------------------------------
(* The flow.                                                               *)

\* authorize, to sign in.
Authorize(x) ==
  /\ insertState(x, None, None)
  /\ UNCHANGED <<allowVerifiedEmailAutoLink, users, passwords, identities, codes, sessions,
                 reqs, calls>>

\* authorize, to link: the provider's URL was computed since the first check.
AuthorizeLink(r, x) ==
  /\ At(r, "authorized", {"authorize"})
  /\ LinkingSession(reqs[r].session, reqs[r].user)
  /\ insertState(x, reqs[r].user, reqs[r].session)
  /\ Finish(r)
  /\ UNCHANGED <<allowVerifiedEmailAutoLink, users, passwords, identities, codes, sessions>>

\* Mutant: a consumed state still matches.
Consume_Again(r, x) ==
  /\ states[x] # None
  /\ states[x].user # None => Exists(states[x].user)
  /\ Begin(r, [Idle EXCEPT !.pc = "consumed", !.op = "callback", !.state = x,
                           !.user = states[x].user, !.session = states[x].session])
  /\ states' = [states EXCEPT ![x].consumed = TRUE]
  /\ UNCHANGED <<allowVerifiedEmailAutoLink, users, passwords, identities, codes, sessions>>

\* Mutant: a flow whose linking session has ended goes on as a sign-in.
Consume_SignIn(r, x) ==
  LET linking == states[x].user # None /\ SessionLive(states[x].session) IN
  /\ states[x] # None /\ ~states[x].consumed
  /\ states[x].user # None => Exists(states[x].user)
  /\ Begin(r, [Idle EXCEPT !.pc = "consumed", !.op = "callback", !.state = x,
                           !.user = IF linking THEN states[x].user ELSE None,
                           !.session = IF linking THEN states[x].session ELSE None])
  /\ states' = [states EXCEPT ![x].consumed = TRUE]
  /\ UNCHANGED <<allowVerifiedEmailAutoLink, users, passwords, identities, codes, sessions>>

\* callback: the state is consumed in a transaction of its own.
Consume(r, x) ==
  /\ states[x] # None /\ ~states[x].consumed
  /\ states[x].user # None => Exists(states[x].user)
  /\ Begin(r, [Idle EXCEPT !.pc = "consumed", !.op = "callback", !.state = x,
                           !.user = states[x].user, !.session = states[x].session])
  /\ states' = [states EXCEPT ![x].consumed = TRUE]
  /\ UNCHANGED <<allowVerifiedEmailAutoLink, users, passwords, identities, codes, sessions>>

\* What findByProviderSubject returns for a profile.
Lookup(p) == {i \in Identity \cup {None} :
                i \in Found(p.subject) \/ (i = None /\ Found(p.subject) = {})}

\* The provider answers, and a sign-in looks the identity up, without a lock.
ProviderAnswers(r, p, i) ==
  /\ reqs[r].pc = "consumed"
  /\ IF reqs[r].user = None THEN i \in Lookup(p)
                            ELSE i = None /\ p \in Bare
  /\ Move(r, [reqs[r] EXCEPT !.pc = "resolve", !.profile = p, !.identity = i])
  /\ Unwritten

BeginSignInFromProfile(r, p, i) ==
  /\ i \in Lookup(p)
  /\ Begin(r, [Idle EXCEPT !.pc = "resolve", !.op = "signInFromProfile",
                           !.profile = p, !.identity = i])
  /\ Unwritten

\* The identity was found.  Its user is locked and checked, the identity is not
\* looked up again.
ResolveFound(r, u, i) ==
  /\ i = reqs[r].identity /\ i # None
  /\ u = identities[i].user_id /\ Active(u)
  /\ UNCHANGED <<users, identities>>

\* A user has the profile's address, and the policy links verified addresses.
ResolveByEmail(r, u, i) ==
  LET p == reqs[r].profile IN
  /\ reqs[r].identity = None
  /\ u \in Holders(p.email) /\ Active(u)
  /\ allowVerifiedEmailAutoLink /\ p.emailVerified
  /\ insertIdentity(i, u, p.subject)
  /\ UNCHANGED users

\* Nobody has the address, or the profile gives none.
ResolveNew(r, u, i) ==
  LET p == reqs[r].profile IN
  /\ reqs[r].identity = None
  /\ insertUser(u, p.email)
  /\ insertIdentity(i, u, p.subject)

\* resolveProfile in a sign-in flow: the user and the identity it settles on.
ResolveSignIn(r, u, i) ==
  ResolveFound(r, u, i) \/ ResolveByEmail(r, u, i) \/ ResolveNew(r, u, i)

\* Mutant: the linking session is not checked again.
ResolveLink_Trusting(r, u, i) ==
  /\ u = reqs[r].user /\ Active(u)
  /\ insertIdentity(i, u, reqs[r].profile.subject)
  /\ UNCHANGED users

\* resolveProfile in a linking flow, after the linking session was checked again.
ResolveLink(r, u, i) ==
  /\ u = reqs[r].user /\ LinkingSession(reqs[r].session, u)
  /\ insertIdentity(i, u, reqs[r].profile.subject)
  /\ UNCHANGED users

\* callback's second transaction.
Callback(r, u, i, c) ==
  /\ At(r, "resolve", {"callback"})
  /\ IF reqs[r].user = None THEN ResolveSignIn(r, u, i) ELSE ResolveLink(r, u, i)
  /\ insertCode(c, u, i, reqs[r].state)
  /\ Finish(r)
  /\ UNCHANGED <<allowVerifiedEmailAutoLink, passwords, states, sessions>>

SignInFromProfile(r, u, i, s) ==
  /\ At(r, "resolve", {"signInFromProfile"})
  /\ ResolveSignIn(r, u, i)
  /\ insertSession(s, u, None)
  /\ Finish(r)
  /\ UNCHANGED <<allowVerifiedEmailAutoLink, passwords, states, codes>>

\* linkIdentity with a profile in hand.
LinkIdentity(r, i) ==
  /\ At(r, "authorized", {"linkIdentity"})
  /\ ResolveLink(r, reqs[r].user, i)
  /\ Finish(r)
  /\ UNCHANGED <<allowVerifiedEmailAutoLink, passwords, states, codes, sessions>>

\* exchangeCode: one transaction, so a refused exchange leaves the code.
ExchangeCode(c, s) ==
  LET u == codes[c].user_id IN
  /\ codes[c] # None /\ ~codes[c].consumed
  /\ Active(u)
  /\ codes[c].identity \in listByUserId(u)
  /\ codes' = [codes EXCEPT ![c].consumed = TRUE]
  /\ insertSession(s, u, c)
  /\ UNCHANGED <<allowVerifiedEmailAutoLink, users, passwords, identities, states, reqs, calls>>

\* Mutant: the last identity may go.
Unlink_Last(r) ==
  LET u == reqs[r].user
      i == reqs[r].identity IN
  /\ At(r, "authorized", {"unlinkIdentity"})
  /\ Exists(u)
  /\ i \in listByUserId(u)
  /\ identities' = [identities EXCEPT ![i].present = FALSE]
  /\ Finish(r)
  /\ UNCHANGED <<allowVerifiedEmailAutoLink, users, passwords, states, codes, sessions>>

\* unlinkIdentity.  Its transaction looks neither at the session nor at a ban.
Unlink(r) ==
  LET u == reqs[r].user
      i == reqs[r].identity IN
  /\ At(r, "authorized", {"unlinkIdentity"})
  /\ Exists(u)
  /\ i \in listByUserId(u)
  /\ u \in passwords \/ Cardinality(listByUserId(u)) > 1
  /\ identities' = [identities EXCEPT ![i].present = FALSE]
  /\ Finish(r)
  /\ UNCHANGED <<allowVerifiedEmailAutoLink, users, passwords, states, codes, sessions>>

--------------------------------------------------------------------------------
(* The surroundings.                                                       *)

Stop(r) ==
  /\ reqs[r].pc # "idle"
  /\ Finish(r)
  /\ Unwritten

\* signUp (see Accounts): a user with an address and, if one was sent, a password.  An
\* administrator creates users without a password, and perhaps without an address.
CreateUser(u, a, password) ==
  /\ password => a # None
  /\ insertUser(u, a)
  /\ passwords' = IF password THEN passwords \cup {u} ELSE passwords
  /\ Called
  /\ UNCHANGED <<allowVerifiedEmailAutoLink, identities, states, codes, sessions, reqs>>

\* A sign-in with a password, or with a mailed proof of the address.
SignIn(u, s) ==
  /\ Active(u) /\ users[u].email # None
  /\ insertSession(s, u, None)
  /\ Called
  /\ UNCHANGED <<allowVerifiedEmailAutoLink, users, passwords, identities, states, codes,
                 reqs>>

\* resetPassword: a user without a password gets one.
ResetPassword(u) ==
  /\ Active(u) /\ users[u].email # None
  /\ passwords' = passwords \cup {u}
  /\ sessions' = revoke(SessionsOf(u))
  /\ UNCHANGED <<allowVerifiedEmailAutoLink, users, identities, states, codes, reqs, calls>>

SignOut(s) ==
  /\ SessionLive(s)
  /\ sessions' = revoke({s})
  /\ UNCHANGED <<allowVerifiedEmailAutoLink, users, passwords, identities, states, codes,
                 reqs, calls>>

\* updateUserById: an administrator replaces or removes the address, bans or unbans.
updateUserById(u, a, banned) ==
  /\ Exists(u)
  /\ Holders(a) \subseteq {u}
  /\ users' = [users EXCEPT ![u].email = a, ![u].banned = banned]
  /\ Called
  /\ UNCHANGED <<allowVerifiedEmailAutoLink, passwords, identities, states, codes, sessions,
                 reqs>>

DeleteUser(u) ==
  /\ Exists(u)
  /\ users' = [users EXCEPT ![u].deleted = TRUE]
  /\ sessions' = revoke(SessionsOf(u))
  /\ UNCHANGED <<allowVerifiedEmailAutoLink, passwords, identities, states, codes, reqs, calls>>

Arrive(r) ==
  \/ \E x \in State : Consume(r, x)
  \/ \E p \in Profile, i \in Identity \cup {None} : BeginSignInFromProfile(r, p, i)
  \/ \E s \in Session :
       \/ AuthorizeSubject(r, s, "authorize", None, None)
       \/ \E p \in Bare : AuthorizeSubject(r, s, "linkIdentity", p, None)
       \/ \E i \in Identity : AuthorizeSubject(r, s, "unlinkIdentity", None, i)

Serve(r) ==
  \/ \E x \in State : AuthorizeLink(r, x)
  \/ \E p \in Profile, i \in Identity \cup {None} : ProviderAnswers(r, p, i)
  \/ \E u \in User, i \in Identity :
       \/ \E c \in Code : Callback(r, u, i, c)
       \/ \E s \in Session : SignInFromProfile(r, u, i, s)
  \/ \E i \in Identity : LinkIdentity(r, i)
  \/ Unlink(r)

Others ==
  \/ \E u \in User, a \in Address \cup {None}, password \in BOOLEAN :
       CreateUser(u, a, password)
  \/ \E u \in User, s \in Session : SignIn(u, s)
  \/ \E u \in User : ResetPassword(u) \/ DeleteUser(u)
  \/ \E u \in User, a \in Address \cup {None}, banned \in BOOLEAN :
       updateUserById(u, a, banned)
  \/ \E s \in Session : SignOut(s)

Next ==
  \/ \E r \in Req : Arrive(r) \/ Serve(r) \/ Stop(r)
  \/ \E x \in State : Authorize(x)
  \/ \E c \in Code, s \in Session : ExchangeCode(c, s)
  \/ Others

Spec == Init /\ [][Next]_vars

--------------------------------------------------------------------------------
(* Properties.                                                             *)

\* Every variable has its type.
TypeOK ==
  /\ allowVerifiedEmailAutoLink \in AutoLinkPolicies
  /\ users \in [User -> UserRow \cup {None}]
  /\ passwords \subseteq User
  /\ identities \in [Identity -> IdentityRow \cup {None}]
  /\ states \in [State -> StateRow \cup {None}]
  /\ codes \in [Code -> CodeRow \cup {None}]
  /\ sessions \in [Session -> SessionRow \cup {None}]
  /\ reqs \in [Req -> Request]
  /\ calls \in 0..MaxCalls

\* A state, which several callbacks may present while the provider is asked, leads to
\* at most one code; a code is consumed exactly when one session was opened by it, so
\* a refused exchange does not spend it and two concurrent ones do not share it.
SingleUse ==
  /\ \A c, d \in Code : codes[c] # None /\ codes[d] # None /\ codes[c].state = codes[d].state
                          => c = d
  /\ \A c \in Code : codes[c] # None /\ codes[c].consumed
                       <=> \E s \in Session : sessions[s] # None /\ sessions[s].code = c
  /\ \A s, x \in Session : /\ sessions[s] # None /\ sessions[x] # None
                           /\ sessions[s].code # None /\ sessions[s].code = sessions[x].code
                           => s = x

\* Sign-ins and links look an account of the provider up before they insert it, and
\* the lookup does not see deleted users: still it is linked to one user at a time.
IdentitiesUnique ==
  \A i, j \in Identity : /\ Present(i) /\ Present(j)
                         /\ identities[i].subject = identities[j].subject
                         => i = j

\* A flow ends with the user it is about, across its three transactions on three
\* requests: the session an exchange opens is of the user of the identity the callback
\* settled on, and when the flow was begun to link an account, of the user who began it,
\* whoever signed out, was banned, unlinked or created meanwhile.
FlowsKeepTheirUser ==
  \A s \in Session : sessions[s] # None /\ sessions[s].code # None =>
    LET c == codes[sessions[s].code] IN
    /\ sessions[s].user_id = identities[c.identity].user_id
    /\ states[c.state].user \in {None, sessions[s].user_id}

LoginMethods(u) == listByUserId(u) \cup ({u} \cap passwords)

\* Unlinking, even two identities at once in two requests, never takes the last login
\* method of a user.
LastMethodStays ==
  [][\A u \in User : LoginMethods(u) # {} => LoginMethods(u)' # {}]_vars

\* A user who exists is linked to an account of a provider only while signed in and not
\* banned or deleted, or because the provider vouches for the user's address.
LinksAreAuthorized ==
  [][\A i \in Identity :
       /\ identities[i] = None /\ identities'[i] # None
       /\ users[identities'[i].user_id] # None
       => LET u == identities'[i].user_id IN
          /\ Active(u)
          /\ \/ \E s \in SessionsOf(u) : SessionLive(s)
             \/ /\ allowVerifiedEmailAutoLink
                /\ \E r \in Req : /\ reqs[r].profile # None
                                  /\ reqs[r].profile.emailVerified
                                  /\ reqs[r].profile.email = users[u].email]_vars
================================================================================
