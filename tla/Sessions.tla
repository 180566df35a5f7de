-------------------------------- MODULE Sessions -------------------------------
(***************************************************************************)
(* Server sessions and rotating refresh tokens (server/sessions.ts over    *)
(* postgres/repositories/sessions.ts).                                     *)
(*                                                                         *)
(* A request reads the clock, then waits for a transaction that locks the  *)
(* owning user row first: from that lock to the commit no other session    *)
(* transaction of the same user runs, so a transaction is one step, and    *)
(* the clock it uses is the one read BEFORE the wait.  A replayed token is *)
(* classified in one transaction and contained in a second one; anything   *)
(* may happen between the two, the loss of the request included.           *)
(***************************************************************************)
EXTENDS Naturals

CONSTANTS
  User, Session, Token,   \* row identifiers; the last two bound the tables
  Req,                    \* request slots: the number of concurrent requests
  Ttl,                    \* refreshTokenTtlSeconds
  MaxTime,                \* bound on the clock
  None                    \* SQL NULL for identifiers, and a missing row

\* Time stamps are positive; 0 is SQL NULL.
Never == 0

Scope == {"local", "others", "global"}
Op == {"create", "refresh"} \cup Scope
Answer == {"success", "invalid_request", "invalid_token", "session_expired",
           "refresh_token_reused", "signed_out", "internal_error"}

SessionRow == [user_id : User, expires_at : Nat, revoked_at : Nat]
TokenRow == [session_id : Session, family_id : Token,
             parent_id : Token \cup {None}, replacement_id : Token \cup {None},
             used_at : Nat, revoked_at : Nat, expires_at : Nat]
UserRow == [deleted : BOOLEAN, banned_until : Nat]
Request == [pc : {"idle", "waiting", "reused", "answered"}, op : Op, now : Nat,
            user : User \cup {None}, session : Session \cup {None},
            token : Token \cup {None}, seen : SUBSET Session,
            answer : Answer \cup {None}]

ASSUME TtlAssumption == Ttl \in Nat \ {0}
ASSUME MaxTimeAssumption == MaxTime \in Nat \ {0}
ASSUME NoneAssumption ==
  /\ None \notin User /\ None \notin Session /\ None \notin Token
  /\ None \notin Answer /\ None \notin SessionRow /\ None \notin TokenRow

VARIABLES
  clock,      \* the clock of the service
  users,      \* auth.users: the columns that sessions depend on
  sessions,   \* auth.sessions
  tokens,     \* auth.refresh_tokens
  reqs,       \* the requests in flight
  disclosed   \* the refresh tokens some client has received

vars == <<clock, users, sessions, tokens, reqs, disclosed>>

Idle == [pc |-> "idle", op |-> "create", now |-> Never, user |-> None,
         session |-> None, token |-> None, seen |-> {}, answer |-> None]

Init ==
  /\ clock = 1
  /\ users = [u \in User |-> [deleted |-> FALSE, banned_until |-> Never]]
  /\ sessions = [s \in Session |-> None]
  /\ tokens = [t \in Token |-> None]
  /\ reqs = [r \in Req |-> Idle]
  /\ disclosed = {}

--------------------------------------------------------------------------------
(* Rows.                                                                   *)

SessionsOf(u) == {s \in Session : sessions[s] # None /\ sessions[s].user_id = u}
TokensOf(S) == {t \in Token : tokens[t] # None /\ tokens[t].session_id \in S}
FamilyOf(f) == {t \in Token : tokens[t] # None /\ tokens[t].family_id = f}
OwnerOf(t) == sessions[tokens[t].session_id].user_id

userIsBanned(u, now) == users[u].banned_until > now
Active(u, now) == ~users[u].deleted /\ ~userIsBanned(u, now)

\* The lineage a locked token must have: its parent was used and replaced by it.
validateCurrentLineage(t) ==
  LET p == tokens[t].parent_id IN
  p # None => /\ tokens[p] # None
              /\ tokens[p].session_id = tokens[t].session_id
              /\ tokens[p].family_id = tokens[t].family_id
              /\ tokens[p].used_at # Never
              /\ tokens[p].replacement_id = t

Replayed(t) == tokens[t].used_at # Never \/ tokens[t].replacement_id # None

Expired(t, now) ==
  \/ tokens[t].expires_at <= now
  \/ sessions[tokens[t].session_id].expires_at <= now

\* Mutants of Rotatable: the used/replaced check, both revocation checks, or the
\* owner check is missing.
Rotatable_Replayed(t, now) ==
  tokens[t].revoked_at = Never /\ ~Expired(t, now) /\ Active(OwnerOf(t), now)
Rotatable_Revoked(t, now) ==
  ~Replayed(t) /\ ~Expired(t, now) /\ Active(OwnerOf(t), now)
Rotatable_AnyOwner(t, now) ==
  ~Replayed(t) /\ tokens[t].revoked_at = Never /\ ~Expired(t, now)

Rotatable(t, now) ==
  /\ ~Replayed(t)
  /\ tokens[t].revoked_at = Never
  /\ sessions[tokens[t].session_id].revoked_at = Never
  /\ ~Expired(t, now)
  /\ Active(OwnerOf(t), now)

\* Mutant: a replacement is given a whole lifetime of its own.
replacementExpiresAt_Uncapped(t, now) == now + Ttl

replacementExpiresAt(t, now) ==
  LET limit == sessions[tokens[t].session_id].expires_at IN
  IF now + Ttl < limit THEN now + Ttl ELSE limit

\* The refusal a token that is neither replayed nor rotatable is answered with.
Refusal(t, now) ==
  IF /\ validateCurrentLineage(t)
     /\ tokens[t].revoked_at = Never
     /\ Expired(t, now) \/ sessions[tokens[t].session_id].revoked_at # Never
  THEN "session_expired" ELSE "invalid_token"

--------------------------------------------------------------------------------
(* Writes.  Revocation stamps every row it selects, revoked before or not. *)

stampTokens(T, now) ==
  [t \in Token |-> IF t \in T THEN [tokens[t] EXCEPT !.revoked_at = now]
                              ELSE tokens[t]]
stampSessions(S, now) ==
  [s \in Session |-> IF s \in S THEN [sessions[s] EXCEPT !.revoked_at = now]
                                ELSE sessions[s]]

\* Mutant: the session's refresh tokens are not revoked.
revokeSession_KeepTokens(s, now) ==
  sessions' = stampSessions({s}, now) /\ tokens' = tokens

revokeSession(s, now) ==
  /\ sessions' = stampSessions({s}, now)
  /\ tokens' = stampTokens(TokensOf({s}), now)

revokeUserSessions(u, except, now) ==
  /\ sessions' = stampSessions(SessionsOf(u) \ except, now)
  /\ tokens' = stampTokens(TokensOf(SessionsOf(u) \ except), now)

\* Mutant: containment revokes the family and forgets the session.
containFamilyOnly(f, s, now) ==
  sessions' = sessions /\ tokens' = stampTokens(FamilyOf(f) \cup TokensOf({s}), now)

\* revokeFamily followed by revokeSession in one transaction.
revokeFamilyAndSession(f, s, now) ==
  /\ sessions' = stampSessions({s}, now)
  /\ tokens' = stampTokens(FamilyOf(f) \cup TokensOf({s}), now)

insertSession(s, t, u, now) ==
  /\ sessions' = [sessions EXCEPT ![s] =
       [user_id |-> u, expires_at |-> now + Ttl, revoked_at |-> Never]]
  /\ tokens' = [tokens EXCEPT ![t] =
       [session_id |-> s, family_id |-> t, parent_id |-> None,
        replacement_id |-> None, used_at |-> Never, revoked_at |-> Never,
        expires_at |-> now + Ttl]]

replacementRow(t, now) ==
  [session_id |-> tokens[t].session_id, family_id |-> tokens[t].family_id,
   parent_id |-> t, replacement_id |-> None, used_at |-> Never,
   revoked_at |-> Never, expires_at |-> replacementExpiresAt(t, now)]

\* Mutants: the replacement's id is not written back, or a column is left unset.
rotate_NoLink(t, n, now) ==
  tokens' = [tokens EXCEPT ![t].used_at = now, ![n] = replacementRow(t, now)]
rotate_Unset(t, n, now) ==
  tokens' = [tokens EXCEPT
    ![t] = [@ EXCEPT !.used_at = now, !.replacement_id = n],
    ![n] = [replacementRow(t, now) EXCEPT !.revoked_at = None]]

rotate(t, n, now) ==
  tokens' = [tokens EXCEPT
    ![t] = [@ EXCEPT !.used_at = now, !.replacement_id = n],
    ![n] = replacementRow(t, now)]

--------------------------------------------------------------------------------
(* Requests.                                                               *)

Begin(r, request) ==
  /\ reqs[r].pc = "idle"
  /\ reqs' = [reqs EXCEPT ![r] = request]
  /\ UNCHANGED <<clock, users, sessions, tokens, disclosed>>

Arrived == [Idle EXCEPT !.pc = "waiting", !.now = clock]

answer(r, code) ==
  reqs' = [reqs EXCEPT ![r] = [@ EXCEPT !.pc = "answered", !.answer = code]]

\* The successful answer carries a session and its refresh token.
grant(r, s, t) ==
  reqs' = [reqs EXCEPT ![r] = [@ EXCEPT !.pc = "answered", !.answer = "success",
                                        !.session = s, !.token = t]]

Waiting(r, ops) == reqs[r].pc = "waiting" /\ reqs[r].op \in ops

\* SessionService.create, called for a user some earlier step authenticated.
BeginCreate(r, u) ==
  Begin(r, [Arrived EXCEPT !.op = "create", !.user = u])

CreateRefused(r) ==
  /\ Waiting(r, {"create"})
  /\ ~Active(reqs[r].user, reqs[r].now)
  /\ answer(r, "invalid_request")
  /\ UNCHANGED <<clock, users, sessions, tokens, disclosed>>

\* Mutant: the user is not locked and checked again inside the transaction.
Create_Unchecked(r, s, t) ==
  /\ Waiting(r, {"create"})
  /\ sessions[s] = None /\ tokens[t] = None
  /\ insertSession(s, t, reqs[r].user, reqs[r].now)
  /\ grant(r, s, t)
  /\ UNCHANGED <<clock, users, disclosed>>

Create(r, s, t) ==
  /\ Waiting(r, {"create"})
  /\ Active(reqs[r].user, reqs[r].now)
  /\ sessions[s] = None /\ tokens[t] = None
  /\ insertSession(s, t, reqs[r].user, reqs[r].now)
  /\ grant(r, s, t)
  /\ UNCHANGED <<clock, users, disclosed>>

\* SessionService.refresh with a token some client holds, spent or not.
BeginRefresh(r, t) ==
  /\ t \in disclosed
  /\ Begin(r, [Arrived EXCEPT !.op = "refresh", !.token = t,
                              !.session = tokens[t].session_id])

Rotate(r, n) ==
  LET t == reqs[r].token IN
  /\ Waiting(r, {"refresh"})
  /\ validateCurrentLineage(t) /\ Rotatable(t, reqs[r].now)
  /\ tokens[n] = None
  /\ rotate(t, n, reqs[r].now)
  /\ grant(r, reqs[r].session, n)
  /\ UNCHANGED <<clock, users, sessions, disclosed>>

ClassifyReplay(r) ==
  LET t == reqs[r].token IN
  /\ Waiting(r, {"refresh"})
  /\ validateCurrentLineage(t) /\ Replayed(t)
  /\ reqs' = [reqs EXCEPT ![r].pc = "reused"]
  /\ UNCHANGED <<clock, users, sessions, tokens, disclosed>>

\* Mutant: the owner is checked before the token is classified.
RefreshRefused_OwnerFirst(r) ==
  LET t == reqs[r].token IN
  /\ Waiting(r, {"refresh"})
  /\ validateCurrentLineage(t) => ~Active(OwnerOf(t), reqs[r].now)
  /\ answer(r, "invalid_token")
  /\ UNCHANGED <<clock, users, sessions, tokens, disclosed>>

RefreshRefused(r) ==
  LET t == reqs[r].token IN
  /\ Waiting(r, {"refresh"})
  /\ validateCurrentLineage(t) => ~Replayed(t) /\ ~Rotatable(t, reqs[r].now)
  /\ answer(r, Refusal(t, reqs[r].now))
  /\ UNCHANGED <<clock, users, sessions, tokens, disclosed>>

\* The second transaction of a replay, with the clock of the first one.
containReuse(r) ==
  /\ reqs[r].pc = "reused"
  /\ revokeFamilyAndSession(tokens[reqs[r].token].family_id, reqs[r].session,
                            reqs[r].now)
  /\ answer(r, "refresh_token_reused")
  /\ UNCHANGED <<clock, users, disclosed>>

\* signOut (the session of an access token) and revokeRefreshToken (the session
\* of any stored refresh token).
BeginSignOut(r, s, scope) ==
  /\ sessions[s] # None
  /\ Begin(r, [Arrived EXCEPT !.op = scope, !.session = s,
                              !.user = sessions[s].user_id])

\* seen records the sessions the user has when this transaction lists them, those of
\* sign-ins that came after the request included; no step reads it.
SignOut(r) ==
  LET s == reqs[r].session
      u == reqs[r].user
      now == reqs[r].now IN
  /\ Waiting(r, Scope)
  /\ \/ reqs[r].op = "local" /\ revokeSession(s, now)
     \/ reqs[r].op = "others" /\ revokeUserSessions(u, {s}, now)
     \/ reqs[r].op = "global" /\ revokeUserSessions(u, {}, now)
  /\ reqs' = [reqs EXCEPT ![r] = [@ EXCEPT !.pc = "answered", !.answer = "signed_out",
                                           !.seen = SessionsOf(u)]]
  /\ UNCHANGED <<clock, users, disclosed>>

\* A transaction fails and is rolled back; the caller hears internal_error.
Fail(r) ==
  /\ reqs[r].pc \in {"waiting", "reused"}
  /\ answer(r, "internal_error")
  /\ UNCHANGED <<clock, users, sessions, tokens, disclosed>>

\* The client receives the answer, and with a success its refresh token.
Deliver(r) ==
  /\ reqs[r].pc = "answered"
  /\ disclosed' = disclosed \cup (IF reqs[r].answer = "success"
                                  THEN {reqs[r].token} ELSE {})
  /\ reqs' = [reqs EXCEPT ![r] = Idle]
  /\ UNCHANGED <<clock, users, sessions, tokens>>

\* The process dies with the request, or its response is lost on the way.
Lose(r) ==
  /\ reqs[r].pc # "idle"
  /\ reqs' = [reqs EXCEPT ![r] = Idle]
  /\ UNCHANGED <<clock, users, sessions, tokens, disclosed>>

--------------------------------------------------------------------------------
(* The administrator and the clock.                                        *)

\* updateUserById with banned_until: sessions are left alone.
BanUser(u, until) ==
  /\ ~users[u].deleted
  /\ users' = [users EXCEPT ![u].banned_until = until]
  /\ UNCHANGED <<clock, sessions, tokens, reqs, disclosed>>

\* deleteUser: soft delete and revocation in one transaction.
DeleteUser(u) ==
  /\ ~users[u].deleted
  /\ users' = [users EXCEPT ![u].deleted = TRUE]
  /\ revokeUserSessions(u, {}, clock)
  /\ UNCHANGED <<clock, reqs, disclosed>>

Tick ==
  /\ clock < MaxTime
  /\ clock' = clock + 1
  /\ UNCHANGED <<users, sessions, tokens, reqs, disclosed>>

Serve(r) ==
  \/ CreateRefused(r)
  \/ \E s \in Session, t \in Token : Create(r, s, t)
  \/ \E n \in Token : Rotate(r, n)
  \/ ClassifyReplay(r)
  \/ RefreshRefused(r)
  \/ containReuse(r)
  \/ SignOut(r)

Arrive(r) ==
  \/ \E u \in User : BeginCreate(r, u)
  \/ \E t \in Token : BeginRefresh(r, t)
  \/ \E s \in Session, scope \in Scope : BeginSignOut(r, s, scope)

Next ==
  \/ \E r \in Req : Arrive(r) \/ Serve(r) \/ Fail(r) \/ Deliver(r) \/ Lose(r)
  \/ \E u \in User : DeleteUser(u) \/ \E until \in 0..MaxTime : BanUser(u, until)
  \/ Tick

Spec == Init /\ [][Next]_vars

\* Without failures the database serves every transaction that waits for it: the
\* row locks are taken in one global order, so no two transactions block each
\* other for ever, and a handler awaits nothing else.
SteadyNext ==
  \/ \E r \in Req : Arrive(r) \/ Serve(r) \/ Deliver(r)
  \/ \E u \in User : DeleteUser(u) \/ \E until \in 0..MaxTime : BanUser(u, until)
  \/ Tick

SteadySpec == Init /\ [][SteadyNext]_vars /\ \A r \in Req : WF_vars(Serve(r))

--------------------------------------------------------------------------------
(* Properties.                                                             *)

\* Every variable keeps the shape the schema and the handlers give it.
TypeOK ==
  /\ clock \in Nat
  /\ users \in [User -> UserRow]
  /\ sessions \in [Session -> SessionRow \cup {None}]
  /\ tokens \in [Token -> TokenRow \cup {None}]
  /\ reqs \in [Req -> Request]
  /\ disclosed \subseteq Token

SessionRevoked(s) == sessions[s] # None /\ sessions[s].revoked_at # Never
Live(t) == tokens[t] # None /\ tokens[t].used_at = Never /\ tokens[t].revoked_at = Never

\* A stored token passes validateCurrentLineage for ever: its parent was used,
\* names it as the replacement, and shares its session and family.  Two refreshes
\* of one token can therefore never both have issued a replacement.
LineageIntact ==
  \A t \in Token : tokens[t] # None =>
    /\ validateCurrentLineage(t)
    /\ (tokens[t].used_at # Never) <=> (tokens[t].replacement_id # None)
    /\ tokens[t].replacement_id # None =>
         LET n == tokens[t].replacement_id IN
         tokens[n] # None /\ tokens[n].parent_id = t

\* Whatever requests race, a session is carried by at most one refresh token
\* that could still be rotated.
AtMostOneLiveToken ==
  \A t1, t2 \in Token :
    Live(t1) /\ Live(t2) /\ tokens[t1].session_id = tokens[t2].session_id => t1 = t2

\* Revocation is total: a session and each of its tokens are revoked together.
\* A rotation that commits after a sign-out it raced must not have left an
\* unrevoked token behind, and no family is revoked without its session.
RevocationTotal ==
  \A t \in Token : tokens[t] # None =>
    (SessionRevoked(tokens[t].session_id) <=> tokens[t].revoked_at # Never)

\* Deleting a user leaves no session behind, also not one whose sign-in was
\* authenticated before the deletion and committed after it.
DeletedUserHasNoSession ==
  \A s \in Session : sessions[s] # None /\ users[sessions[s].user_id].deleted
                      => SessionRevoked(s)

\* Whoever is told refresh_token_reused or signed out is told the truth: the
\* session is revoked until the answer is sent, and so are all (other) sessions the
\* user had when a global ("others") sign-out committed, those of sign-ins that raced
\* with it included, whatever rotates, fails or replays meanwhile.
AnswerTrue(r) ==
  LET s == reqs[r].session IN
  /\ reqs[r].answer = "refresh_token_reused" => SessionRevoked(s)
  /\ reqs[r].answer = "signed_out" =>
       /\ reqs[r].op = "local" => SessionRevoked(s)
       /\ reqs[r].op = "global" => \A x \in reqs[r].seen : SessionRevoked(x)
       /\ reqs[r].op = "others" => \A x \in reqs[r].seen \ {s} : SessionRevoked(x)

AnswersAreTrue == \A r \in Req : reqs[r].pc = "answered" => AnswerTrue(r)

\* No refresh token outlives its session, although a rotation computes its
\* expiry from a clock read before it waited for the lock.
NoTokenOutlivesSession ==
  \A t \in Token : tokens[t] # None =>
    tokens[t].expires_at <= sessions[tokens[t].session_id].expires_at

\* No step stores a token for a user who is deleted or banned at that moment
\* (by the real clock, not the one the request read), nor for a session that is
\* revoked before or after it.
NoTokenForInactive ==
  [][\A t \in Token : tokens[t] = None /\ tokens'[t] # None =>
       LET s == tokens'[t].session_id IN
       /\ ~SessionRevoked(s) /\ sessions'[s].revoked_at = Never
       /\ Active(sessions'[s].user_id, clock)]_vars

\* A refresh that presents a spent token is never answered like any other bad
\* token: unless the request failed, its session is revoked by then, even for a
\* banned or deleted owner.
NoReplayBrushedOff ==
  [][\A r \in Req :
       /\ reqs[r].pc # "answered" /\ reqs'[r].pc = "answered"
       /\ reqs[r].op = "refresh" /\ reqs'[r].answer # "internal_error"
       /\ Replayed(reqs[r].token)
       => SessionRevoked(reqs[r].session)']_vars

\* The store implements the promise of SessionFamily.
Family == INSTANCE SessionFamily WITH
  opened <- {s \in Session : sessions[s] # None},
  revoked <- {s \in Session : SessionRevoked(s)},
  current <- [s \in Session |-> {t \in TokensOf({s}) : Live(t)}],
  spent <- {t \in Token : tokens[t] # None /\ ~Live(t)}

\* Every rotation, sign-in and revocation is a step of the abstract family.
ImplementsFamily == Family!Spec

\* When no transaction fails and no process dies, a replay that was classified
\* is contained: its session ends up revoked.
ReplayIsContained ==
  \A r \in Req, s \in Session :
    (reqs[r].pc = "reused" /\ reqs[r].session = s) ~> SessionRevoked(s)
================================================================================
