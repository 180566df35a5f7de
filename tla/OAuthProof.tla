------------------------------ MODULE OAuthProof ------------------------------
(***************************************************************************)
(* Proofs about OAuth for every set of users, rows, accounts, addresses    *)
(* and handlers, every policy and every bound.                             *)
(*                                                                         *)
(* IInv is inductive.  RowOK says what a handler still knows at its next   *)
(* step, Exclusive that a consumed state is in one pair of hands, StatesOK *)
(* how the rows of the flow refer to each other.                           *)
(***************************************************************************)
EXTENDS OAuth, FiniteSetTheorems, TLAPS

\* A callback that has consumed its state and not yet written its code.
Holding(q) == q.op = "callback" /\ q.pc \in {"consumed", "resolve"}

\* What a handler may rely on: a subject was signed in, the profile it is to link or to
\* sign in with is there, and the state it consumed has led to no code yet.
RowOK(q) ==
  /\ q.user # None <=> q.session # None
  /\ q.pc = "authorized" => q.user # None
  /\ q.pc = "authorized" /\ q.op = "linkIdentity" => q.profile # None
  /\ q.pc = "consumed" => q.op = "callback"
  /\ q.pc = "resolve" => q.profile # None
  /\ Holding(q) =>
       /\ q.state # None /\ states[q.state] # None /\ states[q.state].consumed
       /\ \A c \in Code : codes[c] # None => codes[c].state # q.state

Exclusive ==
  \A r, s \in Req : Holding(reqs[r]) /\ Holding(reqs[s]) /\ reqs[r].state = reqs[s].state
                      => r = s

StatesOK ==
  /\ \A x \in State : states[x] # None => (states[x].user # None <=> states[x].session # None)
  /\ \A c \in Code : codes[c] # None =>
       states[codes[c].state] # None /\ states[codes[c].state].consumed

IInv ==
  /\ TypeOK
  /\ SingleUse
  /\ IdentitiesUnique
  /\ StatesOK
  /\ Exclusive
  /\ \A r \in Req : RowOK(reqs[r])

LEMMA InitInv == Init => IInv
BY PoliciesAssumption, MaxCallsAssumption
   DEF Init, Idle, IInv, TypeOK, Request, SingleUse, IdentitiesUnique, Present, StatesOK,
       Exclusive, RowOK, Holding

--------------------------------------------------------------------------------
(* How the tables change.                                                  *)

\* Revocation changes nothing of a session but its revoked column.
LEMMA Revocation ==
  ASSUME TypeOK, NEW S, \A s \in S : s \in Session /\ sessions[s] # None,
         sessions' = revoke(S)
  PROVE  /\ sessions' \in [Session -> SessionRow \cup {None}]
         /\ \A s \in Session :
              /\ sessions'[s] = None <=> sessions[s] = None
              /\ sessions[s] # None => /\ sessions'[s].code = sessions[s].code
                                       /\ sessions'[s].user_id = sessions[s].user_id
<1> SUFFICES ASSUME NEW s \in Session
             PROVE  /\ sessions'[s] \in SessionRow \cup {None}
                    /\ sessions'[s] = None <=> sessions[s] = None
                    /\ sessions[s] # None => /\ sessions'[s].code = sessions[s].code
                                             /\ sessions'[s].user_id = sessions[s].user_id
  BY DEF revoke
<1>1. CASE s \in S
  <2>1. sessions[s] \in SessionRow /\ sessions'[s] = [sessions[s] EXCEPT !.revoked = TRUE]
    BY <1>1 DEF TypeOK, revoke
  <2>2. /\ sessions'[s] \in SessionRow /\ sessions'[s].code = sessions[s].code
        /\ sessions'[s].user_id = sessions[s].user_id
    BY <2>1 DEF SessionRow
  <2> QED BY <1>1, <2>2, NoneAssumption
<1>2. CASE s \notin S
  BY <1>2 DEF TypeOK, revoke
<1> QED BY <1>1, <1>2

\* A new session takes a free row.
LEMMA Insertion ==
  ASSUME TypeOK, NEW s \in Session, NEW u \in User, NEW c \in Code \cup {None},
         insertSession(s, u, c)
  PROVE  /\ sessions' \in [Session -> SessionRow \cup {None}]
         /\ sessions[s] = None /\ sessions'[s] # None
         /\ sessions'[s].code = c /\ sessions'[s].user_id = u
         /\ \A x \in Session : x # s => sessions'[x] = sessions[x]
<1>1. /\ sessions'[s] = [user_id |-> u, revoked |-> FALSE, code |-> c]
      /\ sessions'[s] \in SessionRow
  BY DEF insertSession, TypeOK, SessionRow
<1> QED BY <1>1, NoneAssumption DEF insertSession, TypeOK

\* A step writes at most one row of auth.identities: a new one for an account nobody has,
\* or the end of one.
IdentityAdded(i, u, subject) ==
  /\ identities[i] = None /\ Taken(subject) = {}
  /\ identities' \in [Identity -> IdentityRow \cup {None}]
  /\ identities'[i] = [user_id |-> u, subject |-> subject, present |-> TRUE]
  /\ identities'[i] # None
  /\ \A j \in Identity : j # i => identities'[j] = identities[j]

LEMMA Linking ==
  ASSUME TypeOK, NEW i \in Identity, NEW u \in User, NEW p \in Profile,
         insertIdentity(i, u, p.subject)
  PROVE  IdentityAdded(i, u, p.subject)
<1>1. /\ identities'[i] = [user_id |-> u, subject |-> p.subject, present |-> TRUE]
      /\ identities'[i] \in IdentityRow
  BY DEF insertIdentity, TypeOK, IdentityRow, Profile
<1> QED BY <1>1, NoneAssumption DEF insertIdentity, TypeOK, IdentityAdded

\* The outcomes of resolveProfile.
Resolved(r, u, i) ==
  /\ users' \in [User -> UserRow \cup {None}]
  /\ \/ UNCHANGED identities
     \/ IdentityAdded(i, u, reqs[r].profile.subject)

LEMMA Resolution ==
  ASSUME TypeOK, NEW r \in Req, reqs[r].profile # None, NEW u \in User, NEW i \in Identity,
         ResolveSignIn(r, u, i) \/ ResolveLink(r, u, i)
  PROVE  Resolved(r, u, i)
<1> DEFINE p == reqs[r].profile
<1>1. p \in Profile /\ p.email \in Address \cup {None}
  BY DEF TypeOK, Request, Profile
<1>2. CASE ResolveFound(r, u, i)
  BY <1>2 DEF ResolveFound, Resolved, TypeOK
<1>3. CASE ResolveByEmail(r, u, i) \/ ResolveLink(r, u, i)
  BY <1>1, <1>3, Linking DEF ResolveByEmail, ResolveLink, Resolved, TypeOK
<1>4. CASE ResolveNew(r, u, i)
  <2>1. [email |-> p.email, banned |-> FALSE, deleted |-> FALSE] \in UserRow
    BY <1>1 DEF UserRow
  <2>2. users' \in [User -> UserRow \cup {None}]
    BY <1>4, <2>1 DEF ResolveNew, insertUser, TypeOK
  <2> QED BY <1>1, <1>4, <2>2, Linking DEF ResolveNew, Resolved
<1> QED BY <1>2, <1>3, <1>4 DEF ResolveSignIn

\* Neither outcome gives an account to two identities.
LEMMA UniqueStep ==
  ASSUME IdentitiesUnique, NEW i \in Identity, NEW u, NEW subject,
         UNCHANGED identities \/ IdentityAdded(i, u, subject)
  PROVE  IdentitiesUnique'
<1>1. CASE UNCHANGED identities
  BY <1>1 DEF IdentitiesUnique, Present
<1>2. CASE IdentityAdded(i, u, subject)
  BY <1>2 DEF IdentityAdded, IdentitiesUnique, Present, Taken
<1> QED BY <1>1, <1>2

--------------------------------------------------------------------------------
(* How the handlers move.                                                  *)

LEMMA IdleOK == Idle \in Request /\ RowOK(Idle) /\ RowOK(Idle)' /\ ~Holding(Idle)
BY DEF Idle, Request, RowOK, Holding

\* A handler moves on, while states and codes stay, without taking up a state.
LEMMA MoveStep ==
  ASSUME IInv, NEW r \in Req, NEW q \in Request, RowOK(q),
         Holding(q) => Holding(reqs[r]) /\ q.state = reqs[r].state,
         reqs' = [reqs EXCEPT ![r] = q], UNCHANGED <<states, codes>>
  PROVE  /\ reqs' \in [Req -> Request]
         /\ StatesOK' /\ Exclusive' /\ \A x \in Req : RowOK(reqs[x])'
<1>1. /\ reqs' \in [Req -> Request] /\ reqs'[r] = q
      /\ \A x \in Req : x # r => reqs'[x] = reqs[x]
  BY DEF IInv, TypeOK
<1>2. \A x \in Req : RowOK(reqs[x])'
  BY <1>1 DEF IInv, RowOK
<1>3. Exclusive'
  BY <1>1 DEF IInv, Exclusive
<1>4. StatesOK'
  BY DEF IInv, StatesOK
<1> QED BY <1>1, <1>2, <1>3, <1>4

\* What happens to users, identities and passwords alone disturbs no handler.
LEMMA StayStep ==
  ASSUME IInv, UNCHANGED <<states, codes, reqs>>
  PROVE  /\ reqs' \in [Req -> Request]
         /\ StatesOK' /\ Exclusive' /\ \A x \in Req : RowOK(reqs[x])'
BY DEF IInv, TypeOK, StatesOK, Exclusive, RowOK

\* Sessions that come by no code and rows that keep theirs leave SingleUse alone.
LEMMA SameUse ==
  ASSUME SingleUse, UNCHANGED codes,
         \A s \in Session : sessions'[s] # None =>
           \/ sessions'[s].code = None
           \/ sessions[s] # None /\ sessions'[s].code = sessions[s].code,
         \A s \in Session : sessions[s] # None /\ sessions[s].code # None =>
           sessions'[s] # None /\ sessions'[s].code = sessions[s].code
  PROVE  SingleUse'
<1>1. \A c \in Code : c # None
  BY NoneAssumption
<1> QED BY <1>1 DEF SingleUse

--------------------------------------------------------------------------------
(* One lemma per group of actions.                                         *)

LEMMA CallsStep == TypeOK /\ (Called \/ UNCHANGED calls) => calls' \in 0..MaxCalls
BY MaxCallsAssumption DEF TypeOK, Called

\* A handler starts, goes on or ends, and writes nothing.
LEMMA QuietStep ==
  ASSUME IInv, NEW r \in Req, NEW q \in Request, RowOK(q),
         Holding(q) => Holding(reqs[r]) /\ q.state = reqs[r].state,
         reqs' = [reqs EXCEPT ![r] = q], Called \/ UNCHANGED calls, Unwritten
  PROVE  IInv'
<1>1. calls' \in 0..MaxCalls
  BY CallsStep DEF IInv
<1>2. UNCHANGED <<states, codes>>
  BY DEF Unwritten, tables
<1>3. /\ reqs' \in [Req -> Request]
      /\ StatesOK' /\ Exclusive' /\ \A x \in Req : RowOK(reqs[x])'
  BY <1>2, MoveStep
<1>4. SingleUse' /\ IdentitiesUnique'
  BY DEF IInv, Unwritten, tables, SingleUse, IdentitiesUnique, Present
<1> QED BY <1>1, <1>3, <1>4 DEF IInv, TypeOK, Unwritten, tables

LEMMA ArriveStep ==
  ASSUME IInv, NEW r \in Req,
         \/ \E p \in Profile, i \in Identity \cup {None} : BeginSignInFromProfile(r, p, i)
         \/ \E s \in Session :
              \/ AuthorizeSubject(r, s, "authorize", None, None)
              \/ \E p \in Bare : AuthorizeSubject(r, s, "linkIdentity", p, None)
              \/ \E i \in Identity : AuthorizeSubject(r, s, "unlinkIdentity", None, i)
  PROVE  IInv'
<1>1. ASSUME NEW p \in Profile, NEW i \in Identity \cup {None}, BeginSignInFromProfile(r, p, i)
      PROVE  IInv'
  <2> DEFINE q == [Idle EXCEPT !.pc = "resolve", !.op = "signInFromProfile", !.profile = p,
                               !.identity = i]
  <2>1. q \in Request /\ RowOK(q) /\ ~Holding(q)
    BY NoneAssumption DEF Idle, Request, RowOK, Holding
  <2>2. reqs' = [reqs EXCEPT ![r] = q] /\ Called /\ Unwritten
    BY <1>1 DEF BeginSignInFromProfile, Begin
  <2> HIDE DEF q
  <2> QED BY <2>1, <2>2, QuietStep
<1>2. ASSUME NEW s \in Session, NEW op, NEW p \in Profile \cup {None},
             NEW i \in Identity \cup {None}, AuthorizeSubject(r, s, op, p, i),
             op \in {"authorize", "linkIdentity", "unlinkIdentity"},
             op = "linkIdentity" => p # None
      PROVE  IInv'
  <2> DEFINE u == sessions[s].user_id
             q == [Idle EXCEPT !.pc = "authorized", !.op = op, !.session = s, !.user = u,
                               !.profile = p, !.identity = i]
  <2>1. u \in User /\ u # None /\ s # None
    BY <1>2, NoneAssumption DEF AuthorizeSubject, SessionLive, IInv, TypeOK, SessionRow
  <2>2. q \in Request /\ RowOK(q) /\ ~Holding(q)
    BY <1>2, <2>1 DEF Idle, Request, RowOK, Holding
  <2>3. reqs' = [reqs EXCEPT ![r] = q] /\ Called /\ Unwritten
    BY <1>2 DEF AuthorizeSubject, Begin
  <2> HIDE DEF q
  <2> QED BY <2>2, <2>3, QuietStep
<1>3. \A p \in Bare : p \in Profile /\ p # None
  BY NoneAssumption DEF Bare
<1> QED BY <1>1, <1>2, <1>3

LEMMA AnswerStep ==
  ASSUME IInv, NEW r \in Req, NEW p \in Profile, NEW i \in Identity \cup {None},
         ProviderAnswers(r, p, i)
  PROVE  IInv'
<1> DEFINE q == [reqs[r] EXCEPT !.pc = "resolve", !.profile = p, !.identity = i]
<1>1. /\ reqs[r] \in Request /\ RowOK(reqs[r]) /\ reqs[r].pc = "consumed"
  BY DEF IInv, TypeOK, ProviderAnswers
<1>2. /\ q.pc = "resolve" /\ q.profile = p /\ q.op = reqs[r].op /\ q.user = reqs[r].user
      /\ q.session = reqs[r].session /\ q.state = reqs[r].state /\ q \in Request
  BY <1>1 DEF Request
<1>3. reqs' = [reqs EXCEPT ![r] = q] /\ UNCHANGED calls /\ Unwritten
  BY DEF ProviderAnswers, Move
<1> HIDE DEF q
<1>4. RowOK(q) /\ (Holding(q) => Holding(reqs[r]) /\ q.state = reqs[r].state)
  BY <1>1, <1>2, NoneAssumption DEF RowOK, Holding
<1> QED BY <1>2, <1>3, <1>4, QuietStep

LEMMA StopStep == ASSUME IInv, NEW r \in Req, Stop(r) PROVE IInv'
BY IdleOK, QuietStep DEF Stop, Finish, Move

\* A state is written; to link, for a session and its user.
LEMMA StateStep ==
  ASSUME IInv, NEW x \in State, NEW u \in User \cup {None}, NEW s \in Session \cup {None},
         u # None <=> s # None, insertState(x, u, s),
         UNCHANGED <<allowVerifiedEmailAutoLink, users, passwords, identities, codes, sessions,
                     calls>>,
         UNCHANGED reqs \/ \E r \in Req : reqs' = [reqs EXCEPT ![r] = Idle]
  PROVE  IInv'
<1>1. /\ states[x] = None /\ states'[x] # None
      /\ states'[x].user = u /\ states'[x].session = s
      /\ states' \in [State -> StateRow \cup {None}]
      /\ \A y \in State : y # x => states'[y] = states[y]
  <2>1. /\ states'[x] = [user |-> u, session |-> s, consumed |-> FALSE]
        /\ states'[x] \in StateRow
    BY DEF insertState, IInv, TypeOK, StateRow
  <2> QED BY <2>1, NoneAssumption DEF insertState, IInv, TypeOK
<1>2. /\ reqs' \in [Req -> Request]
      /\ \A r \in Req : reqs'[r] = reqs[r] \/ reqs'[r] = Idle
  BY IdleOK DEF IInv, TypeOK
<1>3. \A c \in Code : codes[c] # None => codes[c].state \in State
  BY DEF IInv, TypeOK, CodeRow
<1>4. StatesOK'
  BY <1>1, <1>3 DEF IInv, StatesOK
<1>5. ASSUME NEW r \in Req PROVE RowOK(reqs[r])'
  <2>1. reqs[r] \in Request /\ RowOK(reqs[r])
    BY DEF IInv, TypeOK
  <2>2. RowOK(reqs[r]) => RowOK(reqs'[r]) \/ reqs'[r] = Idle
    BY <1>2
  <2>3. CASE reqs'[r] = reqs[r]
    BY <1>1, <2>1, <2>3 DEF RowOK, Request
  <2>4. CASE reqs'[r] = Idle
    BY <2>4 DEF Idle, RowOK, Holding
  <2> QED BY <1>2, <2>3, <2>4
<1>6. Exclusive'
  BY <1>2, IdleOK DEF IInv, Exclusive
<1>7. SingleUse' /\ IdentitiesUnique'
  BY DEF IInv, SingleUse, IdentitiesUnique, Present
<1> QED BY <1>1, <1>2, <1>4, <1>5, <1>6, <1>7 DEF IInv, TypeOK

\* The state that is consumed was in nobody's hands and had led to no code.
LEMMA ConsumeStep ==
  ASSUME IInv, NEW r \in Req, NEW x \in State, Consume(r, x)
  PROVE  IInv'
<1> DEFINE q == [Idle EXCEPT !.pc = "consumed", !.op = "callback", !.state = x,
                             !.user = states[x].user, !.session = states[x].session]
<1>1. /\ states[x] \in StateRow /\ states[x] # None /\ ~states[x].consumed
      /\ states' = [states EXCEPT ![x] = [states[x] EXCEPT !.consumed = TRUE]]
      /\ reqs' = [reqs EXCEPT ![r] = q] /\ Called
      /\ UNCHANGED <<allowVerifiedEmailAutoLink, users, passwords, identities, codes, sessions>>
  BY DEF Consume, Begin, IInv, TypeOK
<1>2. /\ q \in Request /\ q.pc = "consumed" /\ q.op = "callback" /\ q.state = x
      /\ q.user = states[x].user /\ q.session = states[x].session
  BY <1>1 DEF Idle, Request, StateRow
<1> HIDE DEF q
<1>3. /\ states' \in [State -> StateRow \cup {None}] /\ states'[x] # None
      /\ states'[x].consumed /\ states'[x].user = states[x].user
      /\ states'[x].session = states[x].session
      /\ \A y \in State : y # x => states'[y] = states[y]
  <2>1. /\ [states[x] EXCEPT !.consumed = TRUE] \in StateRow
        /\ [states[x] EXCEPT !.consumed = TRUE].consumed
        /\ [states[x] EXCEPT !.consumed = TRUE].user = states[x].user
        /\ [states[x] EXCEPT !.consumed = TRUE].session = states[x].session
    BY <1>1 DEF StateRow
  <2> QED BY <1>1, <2>1, NoneAssumption DEF IInv, TypeOK
<1>4. /\ reqs' \in [Req -> Request] /\ reqs'[r] = q
      /\ \A y \in Req : y # r => reqs'[y] = reqs[y]
  BY <1>1, <1>2 DEF IInv, TypeOK
<1>5. /\ \A y \in Req : Holding(reqs[y]) => reqs[y].state # x
      /\ \A c \in Code : codes[c] # None => codes[c].state # x /\ codes[c].state \in State
  BY <1>1 DEF IInv, TypeOK, RowOK, StatesOK, CodeRow
<1>6. StatesOK'
  BY <1>1, <1>3, <1>5 DEF IInv, StatesOK
<1>7. ASSUME NEW y \in Req PROVE RowOK(reqs[y])'
  <2>1. CASE y = r
    BY <2>1, <1>1, <1>2, <1>3, <1>4, <1>5, NoneAssumption DEF IInv, StatesOK, RowOK, Holding
  <2>2. CASE y # r
    BY <2>2, <1>1, <1>3, <1>4, <1>5 DEF IInv, TypeOK, RowOK, Request
  <2> QED BY <2>1, <2>2
<1>8. Exclusive'
  BY <1>2, <1>4, <1>5 DEF IInv, Exclusive
<1>9. SingleUse' /\ IdentitiesUnique'
  BY <1>1 DEF IInv, SingleUse, IdentitiesUnique, Present
<1>10. calls' \in 0..MaxCalls
  BY <1>1, CallsStep DEF IInv
<1> QED BY <1>1, <1>3, <1>4, <1>6, <1>7, <1>8, <1>9, <1>10 DEF IInv, TypeOK

\* The code a callback writes is the first and last of its state: nobody else holds the
\* state, and the handler that did is done.
LEMMA CallbackStep ==
  ASSUME IInv, NEW r \in Req, NEW u \in User, NEW i \in Identity, NEW c \in Code,
         Callback(r, u, i, c)
  PROVE  IInv'
<1> DEFINE x == reqs[r].state
<1>1. /\ reqs[r] \in Request /\ RowOK(reqs[r]) /\ Holding(reqs[r])
      /\ reqs[r].profile # None
  BY DEF IInv, TypeOK, Callback, At, RowOK, Holding
<1>2. /\ x \in State /\ states[x] # None /\ states[x].consumed
      /\ \A d \in Code : codes[d] # None => codes[d].state # x
  BY <1>1 DEF RowOK, Request
<1>3. /\ Resolved(r, u, i)
  BY <1>1, Resolution DEF IInv, Callback
<1>4. /\ codes[c] = None /\ codes' \in [Code -> CodeRow \cup {None}] /\ codes'[c] # None
      /\ codes'[c].state = x /\ ~codes'[c].consumed
      /\ \A d \in Code : d # c => codes'[d] = codes[d]
  <2>1. /\ codes'[c] = [user_id |-> u, identity |-> i, consumed |-> FALSE, state |-> x]
        /\ codes'[c] \in CodeRow
    BY <1>2 DEF Callback, insertCode, IInv, TypeOK, CodeRow
  <2> QED BY <2>1, NoneAssumption DEF Callback, insertCode, IInv, TypeOK
<1>5. /\ reqs' \in [Req -> Request] /\ reqs'[r] = Idle
      /\ \A y \in Req : y # r => reqs'[y] = reqs[y]
  BY IdleOK DEF Callback, Finish, Move, IInv, TypeOK
<1>6. UNCHANGED <<allowVerifiedEmailAutoLink, passwords, states, sessions, calls>>
  BY DEF Callback, Finish, Move
<1>7. \A y \in Req : y # r => (Holding(reqs[y]) => reqs[y].state # x)
  BY <1>1 DEF IInv, Exclusive
<1>8. ASSUME NEW y \in Req PROVE RowOK(reqs[y])'
  <2>1. CASE y = r
    BY <2>1, <1>5, IdleOK DEF RowOK, Holding, Idle
  <2>2. CASE y # r
    BY <2>2, <1>4, <1>5, <1>6, <1>7 DEF IInv, RowOK, Holding
  <2> QED BY <2>1, <2>2
<1>9. Exclusive'
  BY <1>5, IdleOK DEF IInv, Exclusive
<1>10. StatesOK'
  BY <1>2, <1>4, <1>6 DEF IInv, StatesOK
<1>11. SingleUse'
  <2>1. \A d, e \in Code : codes'[d] # None /\ codes'[e] # None /\ codes'[d].state = codes'[e].state
                             => d = e
    BY <1>2, <1>4 DEF IInv, SingleUse
  <2>2. \A s \in Session : sessions[s] # None => sessions[s].code # c
    BY <1>4 DEF IInv, SingleUse
  <2>3. \A d \in Code : codes'[d] # None /\ codes'[d].consumed
                          <=> \E s \in Session : sessions'[s] # None /\ sessions'[s].code = d
    BY <2>2, <1>4, <1>6 DEF IInv, SingleUse
  <2> QED BY <2>1, <2>3, <1>6 DEF IInv, SingleUse
<1>12. IdentitiesUnique'
  BY <1>3, UniqueStep DEF Resolved, IInv
<1> QED BY <1>3, <1>4, <1>5, <1>6, <1>8, <1>9, <1>10, <1>11, <1>12
        DEF IInv, TypeOK, Resolved, IdentityAdded

\* Signing in or linking with a profile in hand.
LEMMA ProfileStep ==
  ASSUME IInv, NEW r \in Req, NEW i \in Identity,
         \/ \E u \in User, s \in Session : SignInFromProfile(r, u, i, s)
         \/ LinkIdentity(r, i)
  PROVE  IInv'
<1>1. reqs[r] \in Request /\ RowOK(reqs[r]) /\ reqs[r].profile # None
  BY DEF IInv, TypeOK, RowOK, SignInFromProfile, LinkIdentity, At
<1>2. reqs' = [reqs EXCEPT ![r] = Idle]
      /\ UNCHANGED <<allowVerifiedEmailAutoLink, passwords, states, codes, calls>>
  BY DEF SignInFromProfile, LinkIdentity, Finish, Move
<1>3. /\ reqs' \in [Req -> Request]
      /\ StatesOK' /\ Exclusive' /\ \A x \in Req : RowOK(reqs[x])'
  BY <1>2, MoveStep, IdleOK
<1>4. ASSUME NEW u \in User, NEW s \in Session, SignInFromProfile(r, u, i, s) PROVE IInv'
  <2>1. Resolved(r, u, i)
    BY <1>1, <1>4, Resolution DEF IInv, SignInFromProfile
  <2>2. /\ sessions' \in [Session -> SessionRow \cup {None}]
        /\ sessions[s] = None /\ sessions'[s] # None /\ sessions'[s].code = None
        /\ \A x \in Session : x # s => sessions'[x] = sessions[x]
    BY <1>4, Insertion DEF IInv, SignInFromProfile
  <2>3. SingleUse'
    BY <1>2, <2>2, SameUse DEF IInv
  <2>4. IdentitiesUnique'
    BY <2>1, UniqueStep DEF Resolved, IInv
  <2> QED BY <1>2, <1>3, <2>1, <2>2, <2>3, <2>4 DEF IInv, TypeOK, Resolved, IdentityAdded
<1>5. ASSUME LinkIdentity(r, i) PROVE IInv'
  <2>1. reqs[r].user \in User
    BY <1>1, <1>5 DEF LinkIdentity, At, RowOK, Request
  <2>2. Resolved(r, reqs[r].user, i)
    BY <1>1, <1>5, <2>1, Resolution DEF IInv, LinkIdentity
  <2>3. UNCHANGED sessions
    BY <1>5 DEF LinkIdentity
  <2>4. SingleUse'
    BY <1>2, <2>3, SameUse DEF IInv
  <2>5. IdentitiesUnique'
    BY <2>2, UniqueStep DEF Resolved, IInv
  <2> QED BY <1>2, <1>3, <2>2, <2>3, <2>4, <2>5 DEF IInv, TypeOK, Resolved, IdentityAdded
<1> QED BY <1>4, <1>5

\* The end of one identity.
IdentityEnded(i) ==
  /\ Present(i) /\ identities'[i].user_id = identities[i].user_id
  /\ identities' \in [Identity -> IdentityRow \cup {None}]
  /\ ~identities'[i].present
  /\ \A j \in Identity : j # i => identities'[j] = identities[j]

LEMMA Unlinking ==
  ASSUME TypeOK, NEW r \in Req, Unlink(r)
  PROVE  reqs[r].identity \in Identity /\ IdentityEnded(reqs[r].identity)
<1> DEFINE i == reqs[r].identity
<1>1. i \in Identity /\ Present(i) /\ identities[i] \in IdentityRow
  BY DEF Unlink, listByUserId, Present, TypeOK
<1>2. identities'[i] = [identities[i] EXCEPT !.present = FALSE]
  BY <1>1 DEF Unlink, TypeOK
<1>3. /\ identities'[i] \in IdentityRow /\ ~identities'[i].present
      /\ identities'[i].user_id = identities[i].user_id
  BY <1>1, <1>2 DEF IdentityRow
<1> QED BY <1>1, <1>3 DEF Unlink, TypeOK, IdentityEnded, Present

LEMMA UnlinkStep ==
  ASSUME IInv, NEW r \in Req, Unlink(r)
  PROVE  IInv'
<1>1. reqs[r].identity \in Identity /\ IdentityEnded(reqs[r].identity)
  BY Unlinking DEF IInv
<1>2. /\ reqs' = [reqs EXCEPT ![r] = Idle]
      /\ UNCHANGED <<allowVerifiedEmailAutoLink, users, passwords, states, codes, sessions, calls>>
  BY DEF Unlink, Finish, Move
<1>3. /\ reqs' \in [Req -> Request]
      /\ StatesOK' /\ Exclusive' /\ \A x \in Req : RowOK(reqs[x])'
  BY <1>2, MoveStep, IdleOK
<1>4. SingleUse'
  BY <1>2, SameUse DEF IInv
<1>5. IdentitiesUnique'
  BY <1>1 DEF IdentityEnded, IInv, IdentitiesUnique, Present
<1> QED BY <1>1, <1>2, <1>3, <1>4, <1>5 DEF IInv, TypeOK, IdentityEnded

\* An exchange spends a code that no session came from.
LEMMA ExchangeStep ==
  ASSUME IInv, NEW c \in Code, NEW s \in Session, ExchangeCode(c, s)
  PROVE  IInv'
<1>1. /\ codes[c] \in CodeRow /\ codes[c] # None /\ ~codes[c].consumed
      /\ codes' = [codes EXCEPT ![c] = [codes[c] EXCEPT !.consumed = TRUE]]
      /\ UNCHANGED <<allowVerifiedEmailAutoLink, users, passwords, identities, states, reqs, calls>>
  BY DEF ExchangeCode, IInv, TypeOK
<1>2. /\ codes' \in [Code -> CodeRow \cup {None}] /\ codes'[c] # None
      /\ codes'[c].consumed /\ codes'[c].state = codes[c].state
      /\ \A d \in Code : d # c => codes'[d] = codes[d]
  <2>1. /\ [codes[c] EXCEPT !.consumed = TRUE] \in CodeRow
        /\ [codes[c] EXCEPT !.consumed = TRUE].consumed
        /\ [codes[c] EXCEPT !.consumed = TRUE].state = codes[c].state
    BY <1>1 DEF CodeRow
  <2> QED BY <1>1, <2>1, NoneAssumption DEF IInv, TypeOK
<1>3. /\ sessions' \in [Session -> SessionRow \cup {None}]
      /\ sessions[s] = None /\ sessions'[s] # None /\ sessions'[s].code = c
      /\ \A x \in Session : x # s => sessions'[x] = sessions[x]
  BY <1>1, Insertion DEF ExchangeCode, IInv, CodeRow
<1>4. \A x \in Session : sessions[x] # None => sessions[x].code # c
  BY <1>1 DEF IInv, SingleUse
<1>5. SingleUse'
  <2>1. \A d, e \in Code : codes'[d] # None /\ codes'[e] # None /\ codes'[d].state = codes'[e].state
                             => d = e
    BY <1>1, <1>2 DEF IInv, SingleUse
  <2>2. ASSUME NEW d \in Code
        PROVE  codes'[d] # None /\ codes'[d].consumed
                 <=> \E x \in Session : sessions'[x] # None /\ sessions'[x].code = d
    BY <1>2, <1>3 DEF IInv, SingleUse
  <2>3. \A x, y \in Session : /\ sessions'[x] # None /\ sessions'[y] # None
                              /\ sessions'[x].code # None /\ sessions'[x].code = sessions'[y].code
                              => x = y
    BY <1>3, <1>4 DEF IInv, SingleUse
  <2> QED BY <2>1, <2>2, <2>3 DEF SingleUse
<1>6. StatesOK'
  BY <1>1, <1>2 DEF IInv, StatesOK
<1>7. Exclusive' /\ \A x \in Req : RowOK(reqs[x])'
  BY <1>1, <1>2 DEF IInv, Exclusive, RowOK, Holding
<1>8. IdentitiesUnique'
  BY <1>1 DEF IInv, IdentitiesUnique, Present
<1> QED BY <1>1, <1>2, <1>3, <1>5, <1>6, <1>7, <1>8 DEF IInv, TypeOK

\* What others do: new users, sign-ins, resets, administrators, deletions.
LEMMA OthersStep == ASSUME IInv, Others PROVE IInv'
<1>1. UNCHANGED <<allowVerifiedEmailAutoLink, identities, states, codes, reqs>>
      /\ (Called \/ UNCHANGED calls)
  BY DEF Others, CreateUser, SignIn, ResetPassword, DeleteUser, updateUserById, SignOut
<1>2. calls' \in 0..MaxCalls
  BY <1>1, CallsStep DEF IInv
<1>3. /\ reqs' \in [Req -> Request]
      /\ StatesOK' /\ Exclusive' /\ \A x \in Req : RowOK(reqs[x])'
  BY <1>1, StayStep
<1>4. IdentitiesUnique'
  BY <1>1 DEF IInv, IdentitiesUnique, Present
<1>5. passwords' \subseteq User
  BY DEF Others, CreateUser, SignIn, ResetPassword, DeleteUser, updateUserById, SignOut, IInv, TypeOK
<1>6. users' \in [User -> UserRow \cup {None}]
  <2>1. ASSUME NEW u \in User, NEW a \in Address \cup {None}, NEW password \in BOOLEAN,
               CreateUser(u, a, password)
        PROVE  users' \in [User -> UserRow \cup {None}]
    <3>1. [email |-> a, banned |-> FALSE, deleted |-> FALSE] \in UserRow
      BY DEF UserRow
    <3> QED BY <2>1, <3>1 DEF CreateUser, insertUser, IInv, TypeOK
  <2>2. ASSUME NEW u \in User, NEW a \in Address \cup {None}, NEW banned \in BOOLEAN,
               updateUserById(u, a, banned)
        PROVE  users' \in [User -> UserRow \cup {None}]
    <3> DEFINE row == [users[u] EXCEPT !.email = a, !.banned = banned]
    <3>1. users[u] \in UserRow
      BY <2>2 DEF updateUserById, Exists, IInv, TypeOK
    <3>2. row \in UserRow
      BY <3>1 DEF UserRow
    <3>3. users' = [users EXCEPT ![u] = row]
      BY <2>2, <3>1 DEF updateUserById, IInv, TypeOK
    <3> QED BY <3>2, <3>3 DEF IInv, TypeOK
  <2>3. ASSUME NEW u \in User, DeleteUser(u) PROVE users' \in [User -> UserRow \cup {None}]
    <3>1. users[u] \in UserRow
      BY <2>3 DEF DeleteUser, Exists, IInv, TypeOK
    <3>2. [users[u] EXCEPT !.deleted = TRUE] \in UserRow
      BY <3>1 DEF UserRow
    <3> QED BY <2>3, <3>2 DEF DeleteUser, IInv, TypeOK
  <2>4. UNCHANGED users => users' \in [User -> UserRow \cup {None}]
    BY DEF IInv, TypeOK
  <2> QED BY <2>1, <2>2, <2>3, <2>4 DEF Others, SignIn, ResetPassword, SignOut
<1>7. sessions' \in [Session -> SessionRow \cup {None}] /\ SingleUse'
  <2>1. CASE UNCHANGED sessions
    BY <2>1, <1>1, SameUse DEF IInv, TypeOK
  <2>2. ASSUME NEW u \in User, NEW s \in Session, SignIn(u, s)
        PROVE  sessions' \in [Session -> SessionRow \cup {None}] /\ SingleUse'
    <3>1. /\ sessions' \in [Session -> SessionRow \cup {None}]
          /\ sessions[s] = None /\ sessions'[s] # None /\ sessions'[s].code = None
          /\ \A x \in Session : x # s => sessions'[x] = sessions[x]
      BY <2>2, Insertion DEF IInv, SignIn
    <3> QED BY <1>1, <3>1, SameUse DEF IInv
  <2>3. ASSUME NEW S, \A s \in S : s \in Session /\ sessions[s] # None, sessions' = revoke(S)
        PROVE  sessions' \in [Session -> SessionRow \cup {None}] /\ SingleUse'
    <3>1. /\ sessions' \in [Session -> SessionRow \cup {None}]
          /\ \A s \in Session :
               /\ sessions'[s] = None <=> sessions[s] = None
               /\ sessions[s] # None => sessions'[s].code = sessions[s].code
      BY <2>3, Revocation DEF IInv
    <3> QED BY <1>1, <3>1, SameUse DEF IInv
  <2>4. \A u : \A s \in SessionsOf(u) : s \in Session /\ sessions[s] # None
    BY DEF SessionsOf
  <2>5. ASSUME NEW s \in Session, SignOut(s)
        PROVE  sessions' \in [Session -> SessionRow \cup {None}] /\ SingleUse'
    BY <2>3, <2>5 DEF SignOut, SessionLive
  <2>6. ASSUME NEW u \in User, ResetPassword(u) \/ DeleteUser(u)
        PROVE  sessions' \in [Session -> SessionRow \cup {None}] /\ SingleUse'
    BY <2>3, <2>4, <2>6 DEF ResetPassword, DeleteUser
  <2> QED BY <2>1, <2>2, <2>5, <2>6 DEF Others, CreateUser, updateUserById
<1> QED BY <1>1, <1>2, <1>3, <1>4, <1>5, <1>6, <1>7 DEF IInv, TypeOK

--------------------------------------------------------------------------------

\* Every step keeps the invariant.
LEMMA StepInv == IInv /\ [Next]_vars => IInv'
<1> SUFFICES ASSUME IInv, [Next]_vars PROVE IInv'
  OBVIOUS
<1>1. ASSUME NEW r \in Req, Arrive(r) \/ Serve(r) \/ Stop(r) PROVE IInv'
  <2>1. ASSUME Arrive(r) PROVE IInv'
    BY <2>1, ArriveStep, ConsumeStep DEF Arrive
  <2>2. ASSUME NEW x \in State, AuthorizeLink(r, x) PROVE IInv'
    <3>1. /\ reqs[r].user \in User \cup {None} /\ reqs[r].session \in Session \cup {None}
          /\ reqs[r].user # None <=> reqs[r].session # None
      BY DEF IInv, TypeOK, Request, RowOK
    <3> QED BY <2>2, <3>1, StateStep DEF AuthorizeLink, Finish, Move
  <2>3. ASSUME Serve(r) PROVE IInv'
    BY <2>2, <2>3, AnswerStep, CallbackStep, ProfileStep, UnlinkStep DEF Serve
  <2> QED BY <1>1, <2>1, <2>3, StopStep
<1>2. ASSUME NEW x \in State, Authorize(x) PROVE IInv'
  BY <1>2, StateStep DEF Authorize
<1>3. CASE UNCHANGED vars
  BY <1>3 DEF vars, tables, IInv, TypeOK, SingleUse, IdentitiesUnique, Present, StatesOK,
              Exclusive, RowOK, Holding
<1> QED BY <1>1, <1>2, <1>3, ExchangeStep, OthersStep DEF Next

\* Type correctness of every reachable state.
THEOREM TypeCorrect == Spec => []TypeOK
<1>1. IInv => TypeOK
  BY DEF IInv
<1> QED BY <1>1, InitInv, StepInv, PTL DEF Spec

\* A state leads to one code and a code to one session, however many callbacks and
\* exchanges race, and a refused exchange leaves its code.
THEOREM UsedOnce == Spec => []SingleUse
<1>1. IInv => SingleUse
  BY DEF IInv
<1> QED BY <1>1, InitInv, StepInv, PTL DEF Spec

\* An account of a provider is linked to one user at a time.
THEOREM AccountsUnique == Spec => []IdentitiesUnique
<1>1. IInv => IdentitiesUnique
  BY DEF IInv
<1> QED BY <1>1, InitInv, StepInv, PTL DEF Spec

--------------------------------------------------------------------------------
(* What a step may never do.                                               *)

\* Every change of an identity: by a handler that resolves a profile, or by unlinking.
LEMMA IdentityWriters ==
  ASSUME IInv, [Next]_vars
  PROVE  \/ UNCHANGED identities
         \/ \E r \in Req : Unlink(r)
         \/ \E r \in Req, u \in User, i \in Identity :
              /\ reqs[r].profile # None
              /\ ResolveSignIn(r, u, i) \/ ResolveLink(r, u, i)
<1>1. ASSUME NEW r \in Req, Arrive(r) \/ Stop(r) PROVE UNCHANGED identities
  BY <1>1 DEF Arrive, Consume, BeginSignInFromProfile, AuthorizeSubject, Stop, Unwritten, tables
<1>2. ASSUME NEW r \in Req, Serve(r)
      PROVE  \/ UNCHANGED identities
             \/ Unlink(r)
             \/ \E u \in User, i \in Identity :
                  /\ reqs[r].profile # None
                  /\ ResolveSignIn(r, u, i) \/ ResolveLink(r, u, i)
  <2>1. reqs[r] \in Request /\ RowOK(reqs[r])
    BY DEF IInv, TypeOK
  <2>2. ASSUME NEW i \in Identity, LinkIdentity(r, i)
        PROVE  reqs[r].user \in User /\ reqs[r].profile # None /\ ResolveLink(r, reqs[r].user, i)
    BY <2>1, <2>2 DEF LinkIdentity, At, RowOK, Request
  <2>3. ASSUME NEW u \in User, NEW i \in Identity,
               \/ \E c \in Code : Callback(r, u, i, c)
               \/ \E s \in Session : SignInFromProfile(r, u, i, s)
        PROVE  reqs[r].profile # None /\ (ResolveSignIn(r, u, i) \/ ResolveLink(r, u, i))
    BY <2>1, <2>3 DEF Callback, SignInFromProfile, At, RowOK
  <2> QED BY <1>2, <2>2, <2>3
          DEF Serve, AuthorizeLink, ProviderAnswers, Unwritten, tables
<1>3. Others => UNCHANGED identities
  BY DEF Others, CreateUser, SignIn, ResetPassword, DeleteUser, updateUserById, SignOut
<1> QED BY <1>1, <1>2, <1>3 DEF Next, Authorize, ExchangeCode, vars, tables

\* The last login method of a user stays, however many identities are unlinked at once.
THEOREM LastMethodKept == Spec => LastMethodStays
<1>1. ASSUME IInv, [Next]_vars, NEW u \in User, LoginMethods(u) # {}
      PROVE  LoginMethods(u)' # {}
  <2>1. passwords \subseteq passwords'
    BY <1>1
       DEF Next, Arrive, Consume, BeginSignInFromProfile, AuthorizeSubject, Serve, AuthorizeLink,
           ProviderAnswers, Callback, SignInFromProfile, LinkIdentity, Unlink, Stop, Unwritten,
           Authorize, ExchangeCode, Others, CreateUser, SignIn, ResetPassword, DeleteUser, updateUserById,
           SignOut, vars, tables
  <2>2. CASE u \in passwords
    BY <2>1, <2>2 DEF LoginMethods
  <2>3. CASE u \notin passwords
    <3>1. PICK j \in Identity : Present(j) /\ identities[j].user_id = u
      BY <1>1, <2>3 DEF LoginMethods, listByUserId
    <3>2. SUFFICES \E k \in Identity : Present(k)' /\ identities'[k].user_id = u
      BY DEF LoginMethods, listByUserId
    <3>3. CASE UNCHANGED identities
      BY <3>1, <3>3 DEF Present
    <3>4. ASSUME NEW r \in Req, NEW v \in User, NEW i \in Identity, reqs[r].profile # None,
                 ResolveSignIn(r, v, i) \/ ResolveLink(r, v, i)
          PROVE  Present(j)' /\ identities'[j].user_id = u
      <4>1. Resolved(r, v, i)
        BY <1>1, <3>4, Resolution DEF IInv
      <4> QED BY <3>1, <4>1 DEF Resolved, IdentityAdded, Present
    <3>5. ASSUME NEW r \in Req, Unlink(r)
          PROVE  \E k \in Identity : Present(k)' /\ identities'[k].user_id = u
      <4> DEFINE i == reqs[r].identity
      <4>1. /\ i \in Identity /\ IdentityEnded(i) /\ i \in listByUserId(reqs[r].user)
            /\ reqs[r].user \in passwords \/ Cardinality(listByUserId(reqs[r].user)) > 1
        BY <1>1, <3>5, Unlinking DEF IInv, Unlink
      <4>2. CASE reqs[r].user # u
        BY <3>1, <4>1, <4>2 DEF IdentityEnded, Present, listByUserId
      <4>3. CASE reqs[r].user = u
        <5>1. PICK k \in listByUserId(u) : k # i
          <6>1. Cardinality({i}) = 1
            BY FS_Singleton
          <6>2. listByUserId(u) # {i}
            BY <2>3, <4>1, <4>3, <6>1
          <6> QED BY <4>1, <4>3, <6>2
        <5> QED BY <4>1, <5>1 DEF IdentityEnded, Present, listByUserId
      <4> QED BY <4>2, <4>3
    <3> QED BY <1>1, <3>1, <3>3, <3>4, <3>5, IdentityWriters
  <2> QED BY <2>2, <2>3
<1>2. IInv /\ [Next]_vars =>
        [\A u \in User : LoginMethods(u) # {} => LoginMethods(u)' # {}]_vars
  BY <1>1
<1> QED BY <1>2, InitInv, StepInv, PTL DEF Spec, LastMethodStays

\* Who is there already is linked to an account only by a session of theirs, or because
\* the provider vouches for their address and the policy lets it.
THEOREM LinksAuthorized == Spec => LinksAreAuthorized
<1>1. ASSUME IInv, [Next]_vars, NEW i \in Identity,
             identities[i] = None, identities'[i] # None,
             users[identities'[i].user_id] # None
      PROVE  LET u == identities'[i].user_id IN
             /\ Active(u)
             /\ \/ \E s \in SessionsOf(u) : SessionLive(s)
                \/ /\ allowVerifiedEmailAutoLink
                   /\ \E r \in Req : /\ reqs[r].profile # None
                                     /\ reqs[r].profile.emailVerified
                                     /\ reqs[r].profile.email = users[u].email
  <2>1. ASSUME NEW r \in Req, Unlink(r) PROVE FALSE
    BY <1>1, <2>1, Unlinking DEF IInv, IdentityEnded, Present
  <2>2. PICK r \in Req, u \in User, j \in Identity :
               /\ reqs[r].profile # None
               /\ ResolveSignIn(r, u, j) \/ ResolveLink(r, u, j)
    BY <1>1, <2>1, IdentityWriters
  <2>3. IdentityAdded(j, u, reqs[r].profile.subject)
    BY <1>1, <2>2, Resolution DEF IInv, Resolved
  <2>4. i = j /\ identities'[i].user_id = u
    BY <1>1, <2>3 DEF IdentityAdded
  <2>5. CASE ResolveByEmail(r, u, j)
    BY <2>2, <2>4, <2>5 DEF ResolveByEmail, Holders
  <2>6. CASE ResolveLink(r, u, j)
    <3>1. reqs[r].session \in Session
      BY <1>1, <2>6, NoneAssumption DEF ResolveLink, IInv, TypeOK, RowOK, Request
    <3> QED BY <2>4, <2>6, <3>1 DEF ResolveLink, LinkingSession, SessionLive, SessionsOf
  <2>7. ~ResolveFound(r, u, j) /\ ~ResolveNew(r, u, j)
    BY <1>1, <2>4 DEF ResolveFound, ResolveNew, insertUser
  <2> QED BY <2>2, <2>5, <2>6, <2>7 DEF ResolveSignIn
<1>2. IInv /\ [Next]_vars =>
        [\A i \in Identity :
           /\ identities[i] = None /\ identities'[i] # None
           /\ users[identities'[i].user_id] # None
           => LET u == identities'[i].user_id IN
              /\ Active(u)
              /\ \/ \E s \in SessionsOf(u) : SessionLive(s)
                 \/ /\ allowVerifiedEmailAutoLink
                    /\ \E r \in Req : /\ reqs[r].profile # None
                                      /\ reqs[r].profile.emailVerified
                                      /\ reqs[r].profile.email = users[u].email]_vars
  BY <1>1
<1> QED BY <1>2, InitInv, StepInv, PTL DEF Spec, LinksAreAuthorized
--------------------------------------------------------------------------------
(* Whom a flow is about.                                                   *)

\* A code is of the user of its identity and, if its flow was to link, of who began it.
CodeOK(c) ==
  /\ identities[codes[c].identity] # None
  /\ codes[c].user_id = identities[codes[c].identity].user_id
  /\ states[codes[c].state] # None
  /\ states[codes[c].state].user \in {None, codes[c].user_id}

\* A session that a code opened is of the user of the code.
SessionOK(s) == sessions[s].code # None =>
  codes[sessions[s].code] # None /\ codes[sessions[s].code].user_id = sessions[s].user_id

\* A callback acts for the user of the state it consumed; an identity that was looked up
\* keeps its row.
HandlerOK(r) ==
  /\ Holding(reqs[r]) => reqs[r].user = states[reqs[r].state].user
  /\ reqs[r].pc = "resolve" /\ reqs[r].identity # None
       => identities[reqs[r].identity] # None

Flows ==
  /\ \A c \in Code : codes[c] # None => CodeOK(c)
  /\ \A s \in Session : sessions[s] # None => SessionOK(s)
  /\ \A r \in Req : HandlerOK(r)

\* The rows that refer to users keep what they say of them.
RowsStay ==
  /\ \A i \in Identity : identities[i] # None =>
       identities'[i] # None /\ identities'[i].user_id = identities[i].user_id
  /\ \A x \in State : states[x] # None =>
       states'[x] # None /\ states'[x].user = states[x].user
  /\ \A c \in Code : codes[c] # None =>
       /\ codes'[c] # None /\ codes'[c].user_id = codes[c].user_id
       /\ codes'[c].identity = codes[c].identity /\ codes'[c].state = codes[c].state

CodesFollow == \A c \in Code : codes[c] = None /\ codes'[c] # None => CodeOK(c)'
SessionsFollow == \A s \in Session : sessions'[s] # None =>
  \/ SessionOK(s)'
  \/ /\ sessions[s] # None
     /\ sessions'[s].code = sessions[s].code /\ sessions'[s].user_id = sessions[s].user_id
HandlersFollow == \A r \in Req : HandlerOK(r)' \/ reqs'[r] = reqs[r]

\* What a step leaves alone keeps to its flow.
LEMMA FlowsKept ==
  ASSUME IInv, Flows, RowsStay, CodesFollow, SessionsFollow, HandlersFollow
  PROVE  Flows'
<1>1. \A c \in Code : codes[c] # None =>
        /\ codes[c].identity \in Identity /\ codes[c].state \in State
        /\ CodeOK(c)
  BY DEF IInv, TypeOK, CodeRow, Flows
<1>2. ASSUME NEW c \in Code, codes'[c] # None PROVE CodeOK(c)'
  BY <1>1, <1>2 DEF CodeOK, RowsStay, CodesFollow
<1>3. ASSUME NEW s \in Session, sessions'[s] # None PROVE SessionOK(s)'
  <2>1. sessions[s] # None => sessions[s].code \in Code \cup {None} /\ SessionOK(s)
    BY DEF IInv, TypeOK, SessionRow, Flows
  <2> QED BY <1>3, <2>1 DEF SessionOK, RowsStay, SessionsFollow
<1>4. ASSUME NEW r \in Req PROVE HandlerOK(r)'
  <2>1. /\ reqs[r].identity \in Identity \cup {None} /\ HandlerOK(r)
        /\ Holding(reqs[r]) => reqs[r].state \in State /\ states[reqs[r].state] # None
    BY DEF IInv, TypeOK, Request, RowOK, Flows
  <2>2. CASE reqs'[r] = reqs[r]
    BY <2>1, <2>2 DEF HandlerOK, RowsStay
  <2> QED BY <2>2 DEF HandlersFollow
<1> QED BY <1>2, <1>3, <1>4 DEF Flows
\* Handlers that start, go on or end without touching the tables.
LEMMA QuietFlows ==
  ASSUME IInv, Flows, NEW r \in Req, NEW q \in Request,
         reqs' = [reqs EXCEPT ![r] = q], Unwritten,
         q.pc = "resolve" /\ q.identity # None => identities[q.identity] # None,
         Holding(q) => /\ Holding(reqs[r])
                       /\ q.state = reqs[r].state /\ q.user = reqs[r].user
  PROVE  Flows'
<1>1. UNCHANGED <<identities, states, codes, sessions>>
  BY DEF Unwritten, tables
<1>2. RowsStay /\ CodesFollow /\ SessionsFollow
  BY <1>1 DEF RowsStay, CodesFollow, SessionsFollow
<1>3. reqs'[r] = q /\ \A x \in Req : x # r => reqs'[x] = reqs[x]
  BY DEF IInv, TypeOK
<1>4. HandlerOK(r)'
  BY <1>1, <1>3 DEF Flows, HandlerOK
<1> QED BY <1>2, <1>3, <1>4, FlowsKept DEF HandlersFollow

LEMMA ArriveFlows ==
  ASSUME IInv, Flows, NEW r \in Req, Arrive(r)
  PROVE  Flows'
<1>1. ASSUME NEW p \in Profile, NEW i \in Identity \cup {None}, BeginSignInFromProfile(r, p, i)
      PROVE  Flows'
  <2> DEFINE q == [Idle EXCEPT !.pc = "resolve", !.op = "signInFromProfile", !.profile = p,
                               !.identity = i]
  <2>1. q \in Request /\ ~Holding(q) /\ q.identity = i
    BY NoneAssumption DEF Idle, Request, Holding
  <2>2. reqs' = [reqs EXCEPT ![r] = q] /\ Unwritten
    BY <1>1 DEF BeginSignInFromProfile, Begin
  <2>3. i # None => identities[i] # None
    BY <1>1 DEF BeginSignInFromProfile, Lookup, Found, Present
  <2> HIDE DEF q
  <2> QED BY <2>1, <2>2, <2>3, QuietFlows
<1>2. ASSUME NEW s \in Session, NEW op, NEW p \in Profile \cup {None},
             NEW i \in Identity \cup {None}, AuthorizeSubject(r, s, op, p, i),
             op \in {"authorize", "linkIdentity", "unlinkIdentity"}
      PROVE  Flows'
  <2> DEFINE u == sessions[s].user_id
             q == [Idle EXCEPT !.pc = "authorized", !.op = op, !.session = s, !.user = u,
                               !.profile = p, !.identity = i]
  <2>1. u \in User
    BY <1>2, NoneAssumption DEF AuthorizeSubject, SessionLive, IInv, TypeOK, SessionRow
  <2>2. q \in Request /\ q.pc = "authorized" /\ ~Holding(q)
    BY <1>2, <2>1 DEF Idle, Request, Holding
  <2>3. reqs' = [reqs EXCEPT ![r] = q] /\ Unwritten
    BY <1>2 DEF AuthorizeSubject, Begin
  <2> HIDE DEF q
  <2> QED BY <2>2, <2>3, QuietFlows
<1>3. ASSUME NEW x \in State, Consume(r, x) PROVE Flows'
  <2> DEFINE q == [Idle EXCEPT !.pc = "consumed", !.op = "callback", !.state = x,
                               !.user = states[x].user, !.session = states[x].session]
             row == [states[x] EXCEPT !.consumed = TRUE]
  <2>1. /\ states[x] \in StateRow /\ states' = [states EXCEPT ![x] = row]
        /\ reqs' = [reqs EXCEPT ![r] = q]
        /\ UNCHANGED <<identities, codes, sessions>>
    BY <1>3 DEF Consume, Begin, IInv, TypeOK
  <2>2. q.pc = "consumed" /\ q.state = x /\ q.user = states[x].user
    BY DEF Idle
  <2>3. row \in StateRow /\ row # None /\ row.user = states[x].user
    BY <2>1, NoneAssumption DEF StateRow
  <2> HIDE DEF q, row
  <2>4. RowsStay /\ CodesFollow /\ SessionsFollow
    BY <2>1, <2>3 DEF RowsStay, CodesFollow, SessionsFollow, IInv, TypeOK
  <2>5. /\ reqs'[r] = q /\ states'[x] = row
        /\ \A y \in Req : y # r => reqs'[y] = reqs[y]
    BY <2>1 DEF IInv, TypeOK
  <2>6. HandlerOK(r)'
    BY <2>2, <2>3, <2>5 DEF HandlerOK
  <2> QED BY <2>4, <2>5, <2>6, FlowsKept DEF HandlersFollow
<1>4. \A p \in Bare : p \in Profile
  BY DEF Bare
<1> QED BY <1>1, <1>2, <1>3, <1>4 DEF Arrive

\* A handler that resolved a profile is done; the new rows are about one user.
LEMMA ResolvingFlows ==
  ASSUME IInv, Flows, NEW r \in Req, NEW u \in User, NEW i \in Identity,
         reqs[r].profile # None, reqs' = [reqs EXCEPT ![r] = Idle], UNCHANGED states,
         Resolved(r, u, i),
         \/ UNCHANGED codes
         \/ \E c \in Code : CodeOK(c)' /\ codes[c] = None
              /\ \A d \in Code : d # c => codes'[d] = codes[d],
         \/ UNCHANGED sessions
         \/ \E s \in Session : sessions'[s].code = None
              /\ \A x \in Session : x # s => sessions'[x] = sessions[x]
  PROVE  Flows'
<1>1. \A j \in Identity : identities[j] # None => identities'[j] = identities[j]
  BY DEF Resolved, IdentityAdded
<1>2. RowsStay
  BY <1>1 DEF RowsStay
<1>3. CodesFollow
  BY DEF CodesFollow
<1>4. SessionsFollow
  BY DEF SessionsFollow, SessionOK
<1>5. HandlersFollow
  <2>1. reqs'[r] = Idle /\ \A x \in Req : x # r => reqs'[x] = reqs[x]
    BY DEF IInv, TypeOK
  <2>2. HandlerOK(r)'
    BY <2>1 DEF HandlerOK, Holding, Idle
  <2> QED BY <2>1, <2>2 DEF HandlersFollow
<1> QED BY <1>2, <1>3, <1>4, <1>5, FlowsKept
\* The code of a callback is for the user its handler has kept since the state.
LEMMA CallbackFlows ==
  ASSUME IInv, Flows, NEW r \in Req, NEW u \in User, NEW i \in Identity, NEW c \in Code,
         Callback(r, u, i, c)
  PROVE  Flows'
<1> DEFINE x == reqs[r].state
<1>1. /\ reqs[r] \in Request /\ RowOK(reqs[r]) /\ Holding(reqs[r]) /\ HandlerOK(r)
      /\ reqs[r].pc = "resolve" /\ reqs[r].profile # None
  BY DEF IInv, TypeOK, Callback, At, RowOK, Holding, Flows
<1>2. /\ x \in State /\ states[x] # None /\ reqs[r].user = states[x].user
      /\ reqs[r].identity # None => identities[reqs[r].identity] # None
  BY <1>1 DEF RowOK, HandlerOK, Request
<1>3. Resolved(r, u, i)
  BY <1>1, Resolution DEF IInv, Callback
<1>4. identities'[i] # None /\ identities'[i].user_id = u
  <2>1. CASE ResolveFound(r, u, i)
    BY <1>2, <2>1 DEF ResolveFound
  <2>2. ASSUME NEW p \in Profile, insertIdentity(i, u, p.subject)
        PROVE  identities'[i] # None /\ identities'[i].user_id = u
    <3>1. IdentityAdded(i, u, p.subject)
      BY <2>2, Linking DEF IInv
    <3> QED BY <3>1 DEF IdentityAdded
  <2>3. reqs[r].profile \in Profile
    BY <1>1 DEF Request
  <2>4. CASE ResolveByEmail(r, u, i) \/ ResolveNew(r, u, i) \/ ResolveLink(r, u, i)
    <3>1. insertIdentity(i, u, reqs[r].profile.subject)
      BY <2>4 DEF ResolveByEmail, ResolveNew, ResolveLink
    <3> QED BY <2>2, <2>3, <3>1
  <2>5. ResolveSignIn(r, u, i) \/ ResolveLink(r, u, i)
    BY DEF Callback
  <2> QED BY <2>1, <2>4, <2>5 DEF ResolveSignIn
<1>5. states[x].user \in {None, u}
  BY <1>2 DEF Callback, ResolveLink
<1>6. /\ codes[c] = None /\ \A d \in Code : d # c => codes'[d] = codes[d]
      /\ codes'[c] = [user_id |-> u, identity |-> i, consumed |-> FALSE, state |-> x]
  BY DEF Callback, insertCode, IInv, TypeOK
<1>7. UNCHANGED <<states, sessions>> /\ reqs' = [reqs EXCEPT ![r] = Idle]
  BY DEF Callback, Finish, Move
<1>8. CodeOK(c)'
  BY <1>2, <1>4, <1>5, <1>6, <1>7 DEF CodeOK
<1> QED BY <1>1, <1>3, <1>6, <1>7, <1>8, ResolvingFlows

LEMMA ServeFlows ==
  ASSUME IInv, Flows, NEW r \in Req, Serve(r)
  PROVE  Flows'
<1>1. reqs[r] \in Request /\ RowOK(reqs[r]) /\ HandlerOK(r)
  BY DEF IInv, TypeOK, Flows
<1>2. ASSUME NEW x \in State, AuthorizeLink(r, x) PROVE Flows'
  <2>1. /\ states[x] = None /\ \A y \in State : y # x => states'[y] = states[y]
        /\ reqs' = [reqs EXCEPT ![r] = Idle]
        /\ UNCHANGED <<identities, codes, sessions>>
    BY <1>2 DEF AuthorizeLink, insertState, Finish, Move, IInv, TypeOK
  <2>2. RowsStay /\ CodesFollow /\ SessionsFollow
    BY <2>1 DEF RowsStay, CodesFollow, SessionsFollow
  <2>3. reqs'[r] = Idle /\ \A y \in Req : y # r => reqs'[y] = reqs[y]
    BY <2>1 DEF IInv, TypeOK
  <2>4. HandlerOK(r)'
    BY <2>3 DEF HandlerOK, Holding, Idle
  <2> QED BY <2>2, <2>3, <2>4, FlowsKept DEF HandlersFollow
<1>3. ASSUME NEW p \in Profile, NEW i \in Identity \cup {None}, ProviderAnswers(r, p, i)
      PROVE  Flows'
  <2> DEFINE q == [reqs[r] EXCEPT !.pc = "resolve", !.profile = p, !.identity = i]
  <2>1. /\ q \in Request /\ q.identity = i /\ q.op = reqs[r].op
        /\ q.state = reqs[r].state /\ q.user = reqs[r].user
    BY <1>1 DEF Request
  <2>2. reqs' = [reqs EXCEPT ![r] = q] /\ Unwritten /\ Holding(reqs[r])
    BY <1>1, <1>3 DEF ProviderAnswers, Move, RowOK, Holding
  <2>3. i # None => identities[i] # None
    BY <1>3 DEF ProviderAnswers, Lookup, Found, Present
  <2> HIDE DEF q
  <2> QED BY <2>1, <2>2, <2>3, QuietFlows
<1>4. ASSUME NEW u \in User, NEW i \in Identity, NEW s \in Session,
             SignInFromProfile(r, u, i, s)
      PROVE  Flows'
  <2>1. reqs[r].profile # None
    BY <1>1, <1>4 DEF SignInFromProfile, At, RowOK
  <2>2. Resolved(r, u, i)
    BY <1>4, <2>1, Resolution DEF IInv, SignInFromProfile
  <2>3. sessions'[s].code = None /\ \A x \in Session : x # s => sessions'[x] = sessions[x]
    BY <1>4, Insertion DEF IInv, SignInFromProfile
  <2>4. UNCHANGED <<states, codes>> /\ reqs' = [reqs EXCEPT ![r] = Idle]
    BY <1>4 DEF SignInFromProfile, Finish, Move
  <2> QED BY <2>1, <2>2, <2>3, <2>4, ResolvingFlows
<1>5. ASSUME NEW i \in Identity, LinkIdentity(r, i) PROVE Flows'
  <2>1. reqs[r].profile # None /\ reqs[r].user \in User
    BY <1>1, <1>5 DEF LinkIdentity, At, RowOK, Request
  <2>2. Resolved(r, reqs[r].user, i)
    BY <1>5, <2>1, Resolution DEF IInv, LinkIdentity
  <2>3. UNCHANGED <<states, codes, sessions>> /\ reqs' = [reqs EXCEPT ![r] = Idle]
    BY <1>5 DEF LinkIdentity, Finish, Move
  <2> QED BY <2>1, <2>2, <2>3, ResolvingFlows
<1>6. ASSUME Unlink(r) PROVE Flows'
  <2>1. reqs[r].identity \in Identity /\ IdentityEnded(reqs[r].identity)
    BY <1>6, Unlinking DEF IInv
  <2>2. \A i \in Identity : identities[i] # None =>
          identities'[i] # None /\ identities'[i].user_id = identities[i].user_id
    <3>1. identities'[reqs[r].identity] # None
      BY <1>6, <2>1, NoneAssumption
         DEF Unlink, listByUserId, Present, IInv, TypeOK, IdentityRow
    <3> QED BY <2>1, <3>1 DEF IdentityEnded
  <2>3. /\ UNCHANGED <<states, codes, sessions>> /\ reqs' = [reqs EXCEPT ![r] = Idle]
    BY <1>6 DEF Unlink, Finish, Move
  <2>4. RowsStay /\ CodesFollow /\ SessionsFollow
    BY <2>2, <2>3 DEF RowsStay, CodesFollow, SessionsFollow
  <2>5. reqs'[r] = Idle /\ \A y \in Req : y # r => reqs'[y] = reqs[y]
    BY <2>3 DEF IInv, TypeOK
  <2>6. HandlerOK(r)'
    BY <2>5 DEF HandlerOK, Holding, Idle
  <2> QED BY <2>4, <2>5, <2>6, FlowsKept DEF HandlersFollow
<1> QED BY <1>2, <1>3, <1>4, <1>5, <1>6, CallbackFlows DEF Serve

\* An exchange opens its session for the user of the code; nobody else opens one by a code.
LEMMA ExchangeFlows ==
  ASSUME IInv, Flows, NEW c \in Code, NEW s \in Session, ExchangeCode(c, s)
  PROVE  Flows'
<1> DEFINE row == [codes[c] EXCEPT !.consumed = TRUE]
<1>1. /\ codes[c] \in CodeRow /\ codes[c] # None /\ codes' = [codes EXCEPT ![c] = row]
      /\ UNCHANGED <<identities, states, reqs>>
  BY DEF ExchangeCode, IInv, TypeOK
<1>2. /\ row # None /\ row.user_id = codes[c].user_id
      /\ row.identity = codes[c].identity /\ row.state = codes[c].state
  BY <1>1, NoneAssumption DEF CodeRow
<1> HIDE DEF row
<1>3. codes'[c] = row /\ \A d \in Code : d # c => codes'[d] = codes[d]
  BY <1>1 DEF IInv, TypeOK
<1>4. /\ sessions'[s].code = c /\ sessions'[s].user_id = codes[c].user_id
      /\ \A x \in Session : x # s => sessions'[x] = sessions[x]
  BY <1>1, Insertion DEF ExchangeCode, IInv, CodeRow
<1>5. SessionOK(s)'
  BY <1>2, <1>3, <1>4 DEF SessionOK
<1>6. RowsStay /\ CodesFollow /\ SessionsFollow /\ HandlersFollow
  BY <1>1, <1>2, <1>3, <1>4, <1>5 DEF RowsStay, CodesFollow, SessionsFollow, HandlersFollow
<1> QED BY <1>6, FlowsKept

LEMMA OthersFlows == ASSUME IInv, Flows, Others PROVE Flows'
<1>1. UNCHANGED <<identities, states, codes, reqs>>
  BY DEF Others, CreateUser, SignIn, ResetPassword, DeleteUser, updateUserById, SignOut
<1>2. SessionsFollow
  <2>1. ASSUME NEW u \in User, NEW s \in Session, SignIn(u, s) PROVE SessionsFollow
    <3>1. /\ sessions'[s].code = None
          /\ \A x \in Session : x # s => sessions'[x] = sessions[x]
      BY <2>1, Insertion DEF IInv, SignIn
    <3> QED BY <3>1 DEF SessionsFollow, SessionOK
  <2>2. ASSUME NEW S, \A s \in S : s \in Session /\ sessions[s] # None, sessions' = revoke(S)
        PROVE  SessionsFollow
    BY <2>2, Revocation DEF IInv, SessionsFollow
  <2>3. \A u : \A s \in SessionsOf(u) : s \in Session /\ sessions[s] # None
    BY DEF SessionsOf
  <2>4. ASSUME NEW s \in Session, SignOut(s) PROVE SessionsFollow
    BY <2>2, <2>4 DEF SignOut, SessionLive
  <2>5. ASSUME NEW u \in User, ResetPassword(u) \/ DeleteUser(u) PROVE SessionsFollow
    BY <2>2, <2>3, <2>5 DEF ResetPassword, DeleteUser
  <2>6. UNCHANGED sessions => SessionsFollow
    BY DEF SessionsFollow
  <2> QED BY <2>1, <2>4, <2>5, <2>6 DEF Others, CreateUser, updateUserById
<1>3. RowsStay /\ CodesFollow /\ HandlersFollow
  BY <1>1 DEF RowsStay, CodesFollow, HandlersFollow
<1> QED BY <1>2, <1>3, FlowsKept

LEMMA FlowsInit == Init => Flows
BY DEF Init, Idle, Flows, HandlerOK, Holding

LEMMA FlowsStep == IInv /\ Flows /\ [Next]_vars => Flows'
<1> SUFFICES ASSUME IInv, Flows, [Next]_vars PROVE Flows'
  OBVIOUS
<1>1. ASSUME NEW r \in Req, Stop(r) PROVE Flows'
  BY <1>1, IdleOK, QuietFlows DEF Stop, Finish, Move, Idle
<1>2. ASSUME NEW x \in State, Authorize(x) PROVE Flows'
  <2>1. /\ states[x] = None /\ \A y \in State : y # x => states'[y] = states[y]
        /\ UNCHANGED <<identities, codes, sessions, reqs>>
    BY <1>2 DEF Authorize, insertState, IInv, TypeOK
  <2>2. RowsStay /\ CodesFollow /\ SessionsFollow /\ HandlersFollow
    BY <2>1 DEF RowsStay, CodesFollow, SessionsFollow, HandlersFollow
  <2> QED BY <2>2, FlowsKept
<1>3. CASE UNCHANGED vars
  <2>1. RowsStay /\ CodesFollow /\ SessionsFollow /\ HandlersFollow
    BY <1>3 DEF vars, tables, RowsStay, CodesFollow, SessionsFollow, HandlersFollow
  <2> QED BY <2>1, FlowsKept
<1> QED BY <1>1, <1>2, <1>3, ArriveFlows, ServeFlows, ExchangeFlows, OthersFlows DEF Next

\* Whoever signs out, is banned, unlinks or appears between the three transactions of a
\* flow, the session it ends with is of the user of the identity it settled on, and of
\* the user who began it if it was to link.
THEOREM FlowsCorrect == Spec => []FlowsKeepTheirUser
<1>1. IInv /\ Flows => FlowsKeepTheirUser
  <2> SUFFICES ASSUME IInv, Flows, NEW s \in Session,
                      sessions[s] # None, sessions[s].code # None
               PROVE  LET c == codes[sessions[s].code] IN
                      /\ sessions[s].user_id = identities[c.identity].user_id
                      /\ states[c.state].user \in {None, sessions[s].user_id}
    BY DEF FlowsKeepTheirUser
  <2>1. sessions[s].code \in Code /\ SessionOK(s)
    BY DEF IInv, TypeOK, SessionRow, Flows
  <2>2. CodeOK(sessions[s].code)
    BY <2>1 DEF SessionOK, Flows
  <2> QED BY <2>1, <2>2 DEF SessionOK, CodeOK
<1>2. IInv /\ Flows /\ [Next]_vars => (IInv /\ Flows)'
  BY StepInv, FlowsStep
<1>3. Init => IInv /\ Flows
  BY InitInv, FlowsInit
<1> QED BY <1>1, <1>2, <1>3, PTL DEF Spec
================================================================================
