-------------------------------- MODULE Accounts -------------------------------
(***************************************************************************)
(* Users, passwords and one-time tokens (server/users.ts and               *)
(* server/one-time-tokens.ts over postgres/repositories/users.ts).         *)
(*                                                                         *)
(* A handler is a chain of database transactions and other awaits; each is *)
(* one step, and other handlers run between any two.  A transaction that   *)
(* writes about a user holds that user's row lock until it commits.        *)
(*                                                                         *)
(* A refusal, an adapter's failure, a rollback and a lost process all end  *)
(* a handler with nothing written: Stop stands for them, at any step.      *)
(* Tokens do not expire here; one that expires is a refusal.               *)
(***************************************************************************)
EXTENDS Naturals

CONSTANTS
  User, Session, Token,     \* row identifiers, which bound the tables
  Address,                  \* normalized e-mail addresses
  Password,
  Ops,                      \* the operations the project offers
  Req,                      \* request slots: the number of concurrent handlers
  ConfirmationPolicies,     \* the values of requireEmailConfirmation to consider
  MaxCalls,                 \* bound on the number of requests
  MaxAttempts,              \* failures after which a code is consumed (5 in SQL)
  None                      \* SQL NULL, a missing row, or no value

LinkPurpose == {"signup", "magic_link", "email_otp"}   \* open a session
Purpose == LinkPurpose \cup {"recovery", "email_change"}
Op == {"signUp", "signIn", "ask", "verify", "resetPassword", "updateUser",
       "confirmEmailChange", "changePassword"}

\* An administrator or a provider may leave a user without an address.
UserRow == [email : Address \cup {None}, confirmed : BOOLEAN, banned : BOOLEAN,
            deleted : BOOLEAN]
\* password and proof record how a session was opened; no step reads them.
SessionRow == [user_id : User, revoked : BOOLEAN,
               password : Password \cup {None}, proof : Token \cup {None}]
TokenRow == [user_id : User, purpose : Purpose, target : Address,
             consumed : BOOLEAN, attempt_count : 0..MaxAttempts]
Request == [pc : {"idle", "lookup", "create", "verified", "issue", "mail",
                  "consume", "failed", "consumed", "checked", "confirmed",
                  "authorize", "authorized"},
            op : Op, address : Address \cup {None},
            password : Password \cup {None}, current : Password \cup {None},
            purpose : Purpose \cup {None}, token : Token \cup {None},
            bound : BOOLEAN, keep : {"none", "own", "all"},
            user : User \cup {None}, session : Session \cup {None}]

ASSUME MaxCallsAssumption == MaxCalls \in Nat
ASSUME MaxAttemptsAssumption == MaxAttempts \in Nat \ {0}
ASSUME OpsAssumption == Ops \subseteq Op
ASSUME PoliciesAssumption == ConfirmationPolicies \subseteq BOOLEAN
ASSUME NoneAssumption ==
  /\ None \notin User /\ None \notin Session /\ None \notin Token
  /\ None \notin Address /\ None \notin Password /\ None \notin Purpose
  /\ None \notin UserRow /\ None \notin SessionRow /\ None \notin TokenRow

VARIABLES
  requireEmailConfirmation,  \* the project's policy, fixed
  users,                     \* auth.users
  passwords,                 \* auth.password_credentials
  tokens,                    \* auth.one_time_tokens
  sessions,                  \* auth.sessions
  mailed,                    \* the tokens whose mail has arrived
  reqs,                      \* the handlers in flight
  calls,                     \* how many requests have arrived
  proven,                    \* history: addresses whose mail a user answered
  vouched,                   \* history: addresses others gave a user or confirmed
  applied                    \* history: tokens whose effect has happened

tables == <<users, passwords, tokens, sessions>>
history == <<proven, vouched, applied>>
vars == <<requireEmailConfirmation, tables, mailed, reqs, calls, history>>

Idle == [pc |-> "idle", op |-> "signUp", address |-> None,
         password |-> None, current |-> None, purpose |-> None, token |-> None,
         bound |-> FALSE, keep |-> "none", user |-> None, session |-> None]

\* A project without users.
Empty ==
  /\ users = [u \in User |-> None]
  /\ passwords = [u \in User |-> None]
  /\ tokens = [t \in Token |-> None]
  /\ sessions = [s \in Session |-> None]
  /\ mailed = {}
  /\ proven = {}

\* One user, who signed up, confirmed the address, is signed in and has a code to sign
\* in with in the mailbox.
Inhabited(u, a, p, s, t) ==
  /\ users = [v \in User |-> IF v = u
       THEN [email |-> a, confirmed |-> TRUE, banned |-> FALSE, deleted |-> FALSE]
       ELSE None]
  /\ passwords = [v \in User |-> IF v = u THEN p ELSE None]
  /\ tokens = [x \in Token |-> IF x = t
       THEN [user_id |-> u, purpose |-> "email_otp", target |-> a, consumed |-> FALSE,
             attempt_count |-> 0]
       ELSE None]
  /\ sessions = [x \in Session |-> IF x = s
       THEN [user_id |-> u, revoked |-> FALSE, password |-> p, proof |-> None]
       ELSE None]
  /\ mailed = {t}
  /\ proven = {<<u, a>>}

Init ==
  /\ requireEmailConfirmation \in ConfirmationPolicies
  /\ \/ Empty
     \/ \E u \in User, a \in Address, p \in Password, s \in Session, t \in Token :
          Inhabited(u, a, p, s, t)
  /\ reqs = [r \in Req |-> Idle]
  /\ calls = 0
  /\ vouched = {}
  /\ applied = {}

--------------------------------------------------------------------------------
(* Rows.                                                                   *)

Exists(u) == users[u] # None /\ ~users[u].deleted
Active(u) == Exists(u) /\ ~users[u].banned

\* The lookup by address sees users that are not deleted; the unique index on
\* the address sees them all.
Found(a) == {u \in User : Exists(u) /\ users[u].email = a}
\* Mutant: the index leaves deleted users out.
Holders_Active(a) == Found(a)

Holders(a) == {u \in User : a # None /\ users[u] # None /\ users[u].email = a}

SessionLive(s) == sessions[s] # None /\ ~sessions[s].revoked
SessionsOf(u) == {s \in Session : sessions[s] # None /\ sessions[s].user_id = u}

revoke(S) == [s \in Session |-> IF s \in S THEN [sessions[s] EXCEPT !.revoked = TRUE]
                                           ELSE sessions[s]]

insertSession(s, u, password, proof) ==
  /\ sessions[s] = None
  /\ sessions' = [sessions EXCEPT ![s] =
       [user_id |-> u, revoked |-> FALSE, password |-> password, proof |-> proof]]

\* Mutant: a consumed token still matches.
Matches_Consumed(r, purpose) ==
  LET t == reqs[r].token IN
  /\ t # None /\ tokens[t] # None
  /\ tokens[t].purpose = purpose
  /\ tokens[t].target = reqs[r].address
  /\ tokens[t].attempt_count < MaxAttempts
  /\ Exists(tokens[t].user_id)

\* The row that the presented code (None: a code never issued), purpose and address
\* select, if it is good.
Matches(r, purpose) ==
  LET t == reqs[r].token IN
  /\ t # None /\ tokens[t] # None
  /\ tokens[t].purpose = purpose
  /\ tokens[t].target = reqs[r].address
  /\ ~tokens[t].consumed
  /\ tokens[t].attempt_count < MaxAttempts
  /\ Exists(tokens[t].user_id)

\* Consumption also wants the redirect the token was issued for.
Consumable(r, purpose) == Matches(r, purpose) /\ reqs[r].bound

consume(t) == [tokens EXCEPT ![t].consumed = TRUE]

recordFailure(t) ==
  [tokens EXCEPT ![t].attempt_count = @ + 1,
                 ![t].consumed = tokens[t].attempt_count + 1 >= MaxAttempts]

--------------------------------------------------------------------------------
(* Requests.                                                               *)

OnlyRequests ==
  UNCHANGED <<requireEmailConfirmation, calls, tables, mailed, history>>

Called == calls < MaxCalls /\ calls' = calls + 1

Begin(r, request) ==
  /\ reqs[r].pc = "idle" /\ request.op \in Ops
  /\ Called
  /\ reqs' = [reqs EXCEPT ![r] = request]
  /\ UNCHANGED <<requireEmailConfirmation, tables, mailed, history>>

At(r, pc, ops) == reqs[r].pc = pc /\ reqs[r].op \in ops
Goto(r, pc) == reqs' = [reqs EXCEPT ![r].pc = pc]
Finish(r) == reqs' = [reqs EXCEPT ![r] = Idle]

BeginSignUp(r, a, p) ==
  Begin(r, [Idle EXCEPT !.pc = "lookup", !.address = a, !.password = p])

BeginSignIn(r, a, p) ==
  Begin(r, [Idle EXCEPT !.pc = "lookup", !.op = "signIn", !.address = a,
                        !.password = p])

\* signInWithOtp, resetPasswordForEmail and resend.
BeginAsk(r, a, purpose) ==
  Begin(r, [Idle EXCEPT !.pc = "lookup", !.op = "ask", !.address = a,
                        !.purpose = purpose])

\* verifyOtp and confirmEmail.
BeginVerify(r, a, t, purpose, bound) ==
  Begin(r, [Idle EXCEPT !.pc = "consume", !.op = "verify", !.address = a,
                        !.token = t, !.purpose = purpose, !.bound = bound])

BeginResetPassword(r, a, t, p, bound) ==
  Begin(r, [Idle EXCEPT !.pc = "consume", !.op = "resetPassword", !.address = a,
                        !.token = t, !.password = p, !.bound = bound])

BeginConfirmEmailChange(r, a, t, bound) ==
  Begin(r, [Idle EXCEPT !.pc = "consume", !.op = "confirmEmailChange", !.address = a,
                        !.token = t, !.bound = bound])

BeginUpdateUser(r, s, a) ==
  /\ sessions[s] # None
  /\ Begin(r, [Idle EXCEPT !.pc = "authorize", !.op = "updateUser", !.session = s,
                           !.user = sessions[s].user_id, !.address = a])

BeginChangePassword(r, s, current, p, keep) ==
  /\ sessions[s] # None
  /\ Begin(r, [Idle EXCEPT !.pc = "authorize", !.op = "changePassword",
                           !.session = s, !.user = sessions[s].user_id,
                           !.current = current, !.password = p, !.keep = keep])

--------------------------------------------------------------------------------
(* signUp, signIn and the requests for mail.                               *)

\* passwordHash is computed, slowly, between the lookup and the insertion.
SignUpLookup(r) ==
  /\ At(r, "lookup", {"signUp"})
  /\ Found(reqs[r].address) = {}
  /\ Goto(r, "create")
  /\ OnlyRequests

\* The user, the password and the default roles, in one transaction, which the
\* unique index on the address may refuse.
CreateUser(r, u) ==
  LET a == reqs[r].address IN
  /\ At(r, "create", {"signUp"})
  /\ Holders(a) = {} /\ users[u] = None
  /\ users' = [users EXCEPT ![u] =
       [email |-> a, confirmed |-> FALSE, banned |-> FALSE, deleted |-> FALSE]]
  /\ passwords' = [passwords EXCEPT ![u] = reqs[r].password]
  /\ reqs' = [reqs EXCEPT ![r] = [@ EXCEPT
       !.user = u, !.password = None, !.purpose = "signup",
       !.pc = IF requireEmailConfirmation THEN "issue" ELSE "checked"]]
  /\ UNCHANGED <<requireEmailConfirmation, calls, tokens, sessions, mailed, history>>

SignInLookup(r, u) ==
  /\ At(r, "lookup", {"signIn"})
  /\ u \in Found(reqs[r].address)
  /\ passwords[u] = reqs[r].password
  /\ reqs' = [reqs EXCEPT ![r] = [@ EXCEPT !.pc = "verified", !.user = u,
                                           !.address = None]]
  /\ OnlyRequests

\* Mutant: the password is not verified again.
SignIn_Trusting(r, s) ==
  LET u == reqs[r].user IN
  /\ At(r, "verified", {"signIn"})
  /\ Active(u)
  /\ requireEmailConfirmation => users[u].confirmed
  /\ insertSession(s, u, reqs[r].password, None)
  /\ Finish(r)
  /\ UNCHANGED <<requireEmailConfirmation, calls, users, passwords, tokens, mailed,
                 history>>

\* The sign-in transaction checks everything again under the user's row lock.
SignIn(r, s) ==
  LET u == reqs[r].user IN
  /\ At(r, "verified", {"signIn"})
  /\ Active(u)
  /\ passwords[u] = reqs[r].password
  /\ requireEmailConfirmation => users[u].confirmed
  /\ insertSession(s, u, reqs[r].password, None)
  /\ Finish(r)
  /\ UNCHANGED <<requireEmailConfirmation, calls, users, passwords, tokens, mailed,
                 history>>

AskLookup(r, u) ==
  /\ At(r, "lookup", {"ask"})
  /\ u \in Found(reqs[r].address)
  /\ ~users[u].banned
  /\ reqs' = [reqs EXCEPT ![r] = [@ EXCEPT !.pc = "issue", !.user = u]]
  /\ OnlyRequests

\* Mutant: the token is not bound to its user.
Issue_Anonymous(r, t) ==
  /\ reqs[r].pc = "issue"
  /\ tokens[t] = None
  /\ tokens' = [tokens EXCEPT ![t] =
       [user_id |-> None, purpose |-> reqs[r].purpose,
        target |-> reqs[r].address, consumed |-> FALSE, attempt_count |-> 0]]
  /\ reqs' = [reqs EXCEPT ![r] = [Idle EXCEPT !.pc = "mail", !.token = t]]
  /\ UNCHANGED <<requireEmailConfirmation, calls, users, passwords, sessions, mailed,
                 history>>

Issue(r, t) ==
  /\ reqs[r].pc = "issue"
  /\ Exists(reqs[r].user)
  /\ tokens[t] = None
  /\ tokens' = [tokens EXCEPT ![t] =
       [user_id |-> reqs[r].user, purpose |-> reqs[r].purpose,
        target |-> reqs[r].address, consumed |-> FALSE, attempt_count |-> 0]]
  /\ reqs' = [reqs EXCEPT ![r] = [Idle EXCEPT !.pc = "mail", !.token = t]]
  /\ UNCHANGED <<requireEmailConfirmation, calls, users, passwords, sessions, mailed,
                 history>>

Mail(r) ==
  /\ reqs[r].pc = "mail"
  /\ mailed' = mailed \cup {reqs[r].token}
  /\ Finish(r)
  /\ UNCHANGED <<requireEmailConfirmation, calls, tables, history>>

--------------------------------------------------------------------------------
(* Proofs: a token alone opens a session in several transactions, or changes *)
(* a password or an address in one.                                        *)

Verify(r) ==
  LET t == reqs[r].token IN
  /\ At(r, "consume", {"verify"})
  /\ Consumable(r, reqs[r].purpose)
  /\ tokens' = consume(t)
  /\ proven' = proven \cup {<<tokens[t].user_id, tokens[t].target>>}
  /\ reqs' = [reqs EXCEPT ![r] = [Idle EXCEPT !.pc = "consumed", !.op = "verify",
                                  !.token = t, !.user = tokens[t].user_id]]
  /\ UNCHANGED <<requireEmailConfirmation, calls, users, passwords, sessions, mailed,
                 vouched, applied>>

VerifyRefused(r) ==
  /\ At(r, "consume", {"verify"})
  /\ reqs[r].purpose = "email_otp"
  /\ ~Consumable(r, "email_otp")
  /\ Goto(r, "failed")
  /\ OnlyRequests

\* The failure counts against the presented code, if it is one.
RecordFailure(r) ==
  LET t == reqs[r].token IN
  /\ reqs[r].pc = "failed"
  /\ tokens' = IF Matches(r, "email_otp") THEN recordFailure(t) ELSE tokens
  /\ Finish(r)
  /\ UNCHANGED <<requireEmailConfirmation, calls, users, passwords, sessions, mailed,
                 history>>

CheckUser(r) ==
  /\ reqs[r].pc = "consumed"
  /\ Active(reqs[r].user)
  /\ Goto(r, "checked")
  /\ OnlyRequests

\* users.update, for a verification and for a sign-up without confirmation.
Confirm(r) ==
  LET u == reqs[r].user IN
  /\ reqs[r].pc = "checked"
  /\ Exists(u)
  /\ users' = [users EXCEPT ![u].confirmed = TRUE]
  /\ Goto(r, "confirmed")
  /\ UNCHANGED <<requireEmailConfirmation, calls, passwords, tokens, sessions,
                 mailed, history>>

\* Mutant: the user is not locked and checked again.
OpenSession_Trusting(r, s) ==
  /\ reqs[r].pc = "confirmed"
  /\ insertSession(s, reqs[r].user, None, reqs[r].token)
  /\ applied' = applied \cup ({reqs[r].token} \ {None})
  /\ Finish(r)
  /\ UNCHANGED <<requireEmailConfirmation, calls, users, passwords, tokens, mailed,
                 proven, vouched>>

OpenSession(r, s) ==
  /\ reqs[r].pc = "confirmed"
  /\ Active(reqs[r].user)
  /\ insertSession(s, reqs[r].user, None, reqs[r].token)
  /\ applied' = applied \cup ({reqs[r].token} \ {None})
  /\ Finish(r)
  /\ UNCHANGED <<requireEmailConfirmation, calls, users, passwords, tokens, mailed,
                 proven, vouched>>

ResetPassword(r) ==
  LET t == reqs[r].token
      u == tokens[t].user_id IN
  /\ At(r, "consume", {"resetPassword"})
  /\ Consumable(r, "recovery")
  /\ Active(u)
  /\ tokens' = consume(t)
  /\ passwords' = [passwords EXCEPT ![u] = reqs[r].password]
  /\ sessions' = revoke(SessionsOf(u))
  /\ applied' = applied \cup {t}
  /\ Finish(r)
  /\ UNCHANGED <<requireEmailConfirmation, calls, users, mailed, proven, vouched>>

ConfirmEmailChange(r) ==
  LET t == reqs[r].token
      u == tokens[t].user_id
      a == tokens[t].target IN
  /\ At(r, "consume", {"confirmEmailChange"})
  /\ Consumable(r, "email_change")
  /\ Active(u)
  /\ Holders(a) \subseteq {u}
  /\ tokens' = consume(t)
  /\ users' = [users EXCEPT ![u] = [@ EXCEPT !.email = a, !.confirmed = TRUE]]
  /\ sessions' = revoke(SessionsOf(u))
  /\ proven' = proven \cup {<<u, a>>}
  /\ applied' = applied \cup {t}
  /\ Finish(r)
  /\ UNCHANGED <<requireEmailConfirmation, calls, passwords, mailed, vouched>>

--------------------------------------------------------------------------------
(* A signed-in user: the session is checked, and checked again in the      *)
(* transaction that writes.                                                *)

\* Mutant: the writing transaction trusts the first check.
Authorized_Once(r) ==
  reqs[r].pc = "authorized" \/ (SessionLive(reqs[r].session) /\ Active(reqs[r].user))

Authorized(r) == SessionLive(reqs[r].session) /\ Active(reqs[r].user)

Authorize(r) ==
  /\ reqs[r].pc = "authorize"
  /\ Authorized(r)
  /\ Goto(r, "authorized")
  /\ OnlyRequests

\* Mutant: the address is replaced at once, unconfirmed until a mail to it is answered.
UpdateUser_AtOnce(r) ==
  LET u == reqs[r].user
      a == reqs[r].address IN
  /\ At(r, "authorized", {"updateUser"})
  /\ Authorized(r)
  /\ Holders(a) = {}
  /\ users' = [users EXCEPT ![u] = [@ EXCEPT !.email = a, !.confirmed = FALSE]]
  /\ Finish(r)
  /\ UNCHANGED <<requireEmailConfirmation, calls, passwords, tokens, sessions,
                 mailed, history>>

\* An address change only begins here: the new address is mailed a token.
UpdateUser(r) ==
  /\ At(r, "authorized", {"updateUser"})
  /\ Authorized(r)
  /\ reqs' = [reqs EXCEPT ![r] = [@ EXCEPT !.pc = "issue", !.purpose = "email_change",
                                           !.session = None]]
  /\ OnlyRequests

\* revokeOtherSessions and preserveSessionId: which sessions survive.  Those were
\* opened with the old password and stay by their owner's wish.
Spared(r) ==
  CASE reqs[r].keep = "none" -> {}
    [] reqs[r].keep = "own" -> {reqs[r].session}
    [] reqs[r].keep = "all" -> SessionsOf(reqs[r].user)

ChangePassword(r) ==
  LET u == reqs[r].user IN
  /\ At(r, "authorized", {"changePassword"})
  /\ Authorized(r)
  /\ passwords[u] = reqs[r].current
  /\ passwords' = [passwords EXCEPT ![u] = reqs[r].password]
  /\ sessions' = [s \in Session |->
       IF s \in Spared(r) THEN [sessions[s] EXCEPT !.password = None]
                          ELSE revoke(SessionsOf(u))[s]]
  /\ Finish(r)
  /\ UNCHANGED <<requireEmailConfirmation, calls, users, tokens, mailed, history>>

--------------------------------------------------------------------------------
(* The surroundings.                                                       *)

\* Mutant: the consumption of a proof is committed on its own.
Stop_Consumed(r) ==
  /\ At(r, "consume", {"resetPassword", "confirmEmailChange"})
  /\ \E purpose \in {"recovery", "email_change"} : Consumable(r, purpose)
  /\ tokens' = consume(reqs[r].token)
  /\ Finish(r)
  /\ UNCHANGED <<requireEmailConfirmation, calls, users, passwords, sessions, mailed,
                 history>>

Stop(r) ==
  /\ reqs[r].pc # "idle"
  /\ Finish(r)
  /\ OnlyRequests

\* Signing out, by its owner (see Sessions).
SignOut(s) ==
  /\ SessionLive(s)
  /\ sessions' = revoke({s})
  /\ UNCHANGED <<requireEmailConfirmation, calls, users, passwords, tokens, mailed,
                 reqs, history>>

\* A user without a password: createUser of the administration, and a sign-in through
\* a provider that finds no user (see OAuth).
AddUser(u, a, confirmed) ==
  /\ Holders(a) = {} /\ users[u] = None
  /\ users' = [users EXCEPT ![u] =
       [email |-> a, confirmed |-> confirmed, banned |-> FALSE, deleted |-> FALSE]]
  /\ vouched' = vouched \cup ({<<u, a>>} \cap (User \X Address))
  /\ Called
  /\ UNCHANGED <<requireEmailConfirmation, passwords, tokens, sessions, mailed, reqs,
                 proven, applied>>

\* What an administrator answers for who gives a user an address or confirms the one
\* the user has.
Vouches(u, a, confirmed) ==
  /\ a # None
  /\ a # users[u].email \/ (confirmed /\ ~users[u].confirmed)

\* updateUserById.  The patch may replace or remove the address, confirm it or not, ban
\* and unban.  It asks for no proof and no session, and leaves sessions and tokens.
updateUserById(u, a, confirmed, banned) ==
  /\ Exists(u)
  /\ Holders(a) \subseteq {u}
  /\ users' = [users EXCEPT ![u] =
       [@ EXCEPT !.email = a, !.confirmed = confirmed, !.banned = banned]]
  /\ vouched' = IF Vouches(u, a, confirmed) THEN vouched \cup {<<u, a>>} ELSE vouched
  /\ Called
  /\ UNCHANGED <<requireEmailConfirmation, passwords, tokens, sessions, mailed, reqs,
                 proven, applied>>

\* deleteUser: soft deletion and revocation in one transaction.
DeleteUser(u) ==
  /\ Exists(u)
  /\ users' = [users EXCEPT ![u].deleted = TRUE]
  /\ sessions' = revoke(SessionsOf(u))
  /\ UNCHANGED <<requireEmailConfirmation, calls, passwords, tokens, mailed, reqs,
                 history>>

Arrive(r) ==
  \/ \E a \in Address, p \in Password : BeginSignUp(r, a, p) \/ BeginSignIn(r, a, p)
  \/ \E a \in Address, purpose \in Purpose \ {"email_change"} : BeginAsk(r, a, purpose)
  \/ \E a \in Address, t \in mailed \cup {None}, bound \in BOOLEAN :
       \/ \E purpose \in LinkPurpose : BeginVerify(r, a, t, purpose, bound)
       \/ \E p \in Password : BeginResetPassword(r, a, t, p, bound)
       \/ BeginConfirmEmailChange(r, a, t, bound)
  \/ \E s \in Session :
       \/ \E a \in Address : BeginUpdateUser(r, s, a)
       \/ \E current \in Password, p \in Password, keep \in {"none", "own", "all"} :
            BeginChangePassword(r, s, current, p, keep)

Serve(r) ==
  \/ SignUpLookup(r) \/ Mail(r)
  \/ \E u \in User : CreateUser(r, u) \/ SignInLookup(r, u) \/ AskLookup(r, u)
  \/ \E s \in Session : SignIn(r, s) \/ OpenSession(r, s)
  \/ \E t \in Token : Issue(r, t)
  \/ Verify(r) \/ VerifyRefused(r) \/ CheckUser(r) \/ Confirm(r)
  \/ ResetPassword(r) \/ ConfirmEmailChange(r)
  \/ Authorize(r) \/ UpdateUser(r) \/ ChangePassword(r)

Admin(u) ==
  \/ DeleteUser(u)
  \/ \E a \in Address \cup {None}, confirmed \in BOOLEAN :
       \/ AddUser(u, a, confirmed)
       \/ \E banned \in BOOLEAN : updateUserById(u, a, confirmed, banned)

Next ==
  \/ \E r \in Req : Arrive(r) \/ Serve(r) \/ RecordFailure(r) \/ Stop(r)
  \/ \E s \in Session : SignOut(s)
  \/ \E u \in User : Admin(u)

Spec == Init /\ [][Next]_vars

--------------------------------------------------------------------------------
(* Properties.                                                             *)

\* Every variable has its type.
TypeOK ==
  /\ requireEmailConfirmation \in ConfirmationPolicies
  /\ users \in [User -> UserRow \cup {None}]
  /\ passwords \in [User -> Password \cup {None}]
  /\ tokens \in [Token -> TokenRow \cup {None}]
  /\ sessions \in [Session -> SessionRow \cup {None}]
  /\ mailed \subseteq Token
  /\ reqs \in [Req -> Request]
  /\ calls \in 0..MaxCalls
  /\ proven \subseteq User \X Address
  /\ vouched \subseteq User \X Address
  /\ applied \subseteq Token

\* Sign-ups look an address up long before they insert the row, an address change
\* checks for a holder, an administrator checks nothing: still no two users ever hold
\* one address.
AddressesUnique ==
  \A u, v \in User : /\ users[u] # None /\ users[v] # None /\ users[u].email # None
                      /\ users[u].email = users[v].email
                      => u = v

\* Under the confirmation policy a confirmed address is one whose mailbox answered
\* for this very user, or one that an administrator or a provider answers for: also
\* when the address was replaced while a verification of the former one was under way.
ConfirmedIsProven ==
  requireEmailConfirmation =>
    \A u \in User : users[u] # None /\ users[u].confirmed /\ users[u].email # None
                     => <<u, users[u].email>> \in proven \cup vouched

\* A live session that a password sign-in opened was opened with the password the
\* user has now: a sign-in verified before a reset or a change does not survive it,
\* nor open a session after it.
NoStalePassword ==
  \A s \in Session : SessionLive(s) /\ sessions[s].password # None
                       => sessions[s].password = passwords[sessions[s].user_id]

\* A recovery or address-change proof is consumed together with its effect or not
\* at all: a refusal, a failure or a crash leaves it usable.
NoProofWasted ==
  \A t \in Token : /\ tokens[t] # None /\ tokens[t].consumed
                     /\ tokens[t].purpose \in {"recovery", "email_change"}
                     => t \in applied

\* A step of a handler changes reqs; an administrator's leaves it.
Handled == reqs' # reqs

\* This step applies a proof of the user that was mailed.
Proves(u, purpose, target) ==
  \E t \in (applied' \ applied) \cap mailed :
    /\ tokens[t].user_id = u /\ tokens[t].purpose = purpose
    /\ tokens[t].target = target

\* This is the last step of a changePassword whose own session is live at this moment
\* and whose current password is still the user's.
Changes(u) ==
  \E r \in Req :
    /\ At(r, "authorized", {"changePassword"}) /\ reqs'[r] # reqs[r]
    /\ SessionLive(reqs[r].session) /\ sessions[reqs[r].session].user_id = u
    /\ reqs[r].current = passwords[u]

\* A handler changes the address of a user only to one that the user's own proof, mailed
\* there, names; only an administrator changes it without.  The password changes only by
\* a recovery proof mailed to an address of the user, or by a handler whose very session
\* is still live when it commits: one revoked after the first check changes nothing.
ChangesAreProven ==
  [][\A u \in User : users[u] # None =>
       /\ users[u].email # users'[u].email /\ Handled
            => Proves(u, "email_change", users'[u].email)
       /\ passwords[u] # passwords'[u]
            => Changes(u) \/ \E a \in Address : Proves(u, "recovery", a)]_vars

\* A session is opened, and a password changed, only for a user who is neither banned
\* nor deleted at that moment, whatever an earlier step had seen, and so is an address
\* except by an administrator, who may change that of a banned user too.
InactiveStayOut ==
  [][\A u \in User :
       \/ \E s \in Session : sessions[s] = None /\ sessions'[s] # None
                             /\ sessions'[s].user_id = u
       \/ users[u] # None /\ passwords[u] # passwords'[u]
       \/ users[u] # None /\ users[u].email # users'[u].email
       => IF Handled THEN Active(u) ELSE Exists(u)]_vars

\* One-time tokens keep the promise of ProofTokens: each is applied at most once,
\* by one of all the handlers that present it, and never after it was burnt.
ProofState(t) ==
  CASE tokens[t] = None -> "unissued"
    [] tokens[t] # None /\ ~tokens[t].consumed -> "issued"
    [] tokens[t] # None /\ tokens[t].consumed /\ t \in applied -> "applied"
    [] tokens[t] # None /\ tokens[t].consumed /\ t \notin applied ->
         IF tokens[t].attempt_count >= MaxAttempts THEN "burnt" ELSE "taken"

Proofs == INSTANCE ProofTokens WITH state <- [t \in Token |-> ProofState(t)]
ImplementsProofTokens == Proofs!Spec

\* No two sessions were opened by one proof.
OneSessionPerProof ==
  \A s, x \in Session : /\ sessions[s] # None /\ sessions[x] # None
                          /\ sessions[s].proof # None
                          /\ sessions[s].proof = sessions[x].proof
                          => s = x
================================================================================
