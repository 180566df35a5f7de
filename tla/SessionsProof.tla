----------------------------- MODULE SessionsProof -----------------------------
(***************************************************************************)
(* Proofs about Sessions for every set of users, sessions, tokens and      *)
(* requests, every token lifetime and every clock bound.                   *)
(*                                                                         *)
(* IInv is inductive: StoreInv speaks of the two tables alone, RequestInv  *)
(* ties the requests in flight to rows that exist.                         *)
(***************************************************************************)
EXTENDS Sessions, TLAPS

Exists(s) == s \in Session /\ sessions[s] # None
Stored(t) == t \in Token /\ tokens[t] # None

\* Foreign keys: a token belongs to a session that exists, and a family is named
\* by a token of the same session.
References ==
  \A t \in Token : tokens[t] # None =>
    /\ Exists(tokens[t].session_id)
    /\ Stored(tokens[t].family_id)
    /\ tokens[tokens[t].family_id].session_id = tokens[t].session_id

StoreInv ==
  /\ References
  /\ LineageIntact
  /\ AtMostOneLiveToken
  /\ RevocationTotal

\* What a request in flight may rely on when its transaction starts, and that its
\* clock was read earlier.
RequestOK(r) ==
  /\ reqs[r].pc # "idle" => reqs[r].now > 0 /\ reqs[r].now <= clock
  /\ reqs[r].pc = "waiting" /\ reqs[r].op = "create" => reqs[r].user \in User
  /\ reqs[r].pc \in {"waiting", "reused"} /\ reqs[r].op = "refresh" =>
       /\ Stored(reqs[r].token)
       /\ reqs[r].session = tokens[reqs[r].token].session_id
  /\ reqs[r].pc = "reused" => reqs[r].op = "refresh"
  /\ reqs[r].pc = "waiting" /\ reqs[r].op \in Scope =>
       /\ Exists(reqs[r].session)
       /\ reqs[r].user = sessions[reqs[r].session].user_id
  /\ reqs[r].pc = "answered" /\ reqs[r].answer = "success" => Stored(reqs[r].token)
  /\ reqs[r].pc = "answered" /\ reqs[r].answer \in {"refresh_token_reused", "signed_out"}
       => Exists(reqs[r].session)

RequestInv ==
  /\ clock > 0
  /\ \A t \in disclosed : Stored(t)
  /\ \A r \in Req : RequestOK(r)

IInv ==
  /\ TypeOK
  /\ StoreInv
  /\ RequestInv
  /\ DeletedUserHasNoSession
  /\ AnswersAreTrue

StoreTypeOK ==
  /\ sessions \in [Session -> SessionRow \cup {None}]
  /\ tokens \in [Token -> TokenRow \cup {None}]

\* What every step keeps of the rows it finds.
Kept ==
  /\ \A s \in Session : sessions[s] # None =>
       /\ sessions'[s] # None
       /\ sessions'[s].user_id = sessions[s].user_id
       /\ sessions[s].revoked_at # Never => sessions'[s].revoked_at # Never
  /\ \A t \in Token : tokens[t] # None =>
       /\ tokens'[t] # None
       /\ tokens'[t].session_id = tokens[t].session_id

--------------------------------------------------------------------------------
(* The three ways the tables change.                                       *)

\* Stamping a set of sessions together with all of their tokens keeps the tables
\* consistent, revokes the set, and forgets nothing.
LEMMA RevokeStore ==
  ASSUME StoreTypeOK, StoreInv,
         NEW S \in SUBSET Session, \A s \in S : sessions[s] # None,
         NEW now \in Nat, now > 0,
         sessions' = stampSessions(S, now),
         tokens' = stampTokens(TokensOf(S), now)
  PROVE  /\ StoreTypeOK' /\ StoreInv' /\ Kept
         /\ \A s \in S : SessionRevoked(s)'
         /\ \A s \in Session : sessions[s] = None => sessions'[s] = None
<1>1. \A s \in Session :
        /\ s \in S => sessions'[s] = [sessions[s] EXCEPT !.revoked_at = now]
        /\ s \notin S => sessions'[s] = sessions[s]
        /\ sessions[s] # None => sessions[s] \in SessionRow
  BY DEF StoreTypeOK, stampSessions
<1>2. \A t \in Token :
        /\ t \in TokensOf(S) => tokens'[t] = [tokens[t] EXCEPT !.revoked_at = now]
        /\ t \notin TokensOf(S) => tokens'[t] = tokens[t]
        /\ tokens[t] # None => tokens[t] \in TokenRow
  BY DEF StoreTypeOK, stampTokens
<1>3. \A s \in Session :
        /\ sessions[s] = None => sessions'[s] = None
        /\ sessions[s] # None =>
             /\ sessions'[s] \in SessionRow /\ sessions'[s] # None
             /\ sessions'[s].user_id = sessions[s].user_id
             /\ sessions'[s].expires_at = sessions[s].expires_at
             /\ sessions'[s].revoked_at = IF s \in S THEN now ELSE sessions[s].revoked_at
  <2> TAKE s \in Session
  <2>1. CASE s \notin S
    BY <2>1, <1>1
  <2>2. CASE s \in S
    <3>1. /\ sessions[s] \in SessionRow
          /\ sessions'[s] = [sessions[s] EXCEPT !.revoked_at = now]
      BY <2>2, <1>1
    <3>2. sessions'[s] \in SessionRow
      BY <3>1 DEF SessionRow
    <3> QED BY <2>2, <3>1, <3>2, NoneAssumption DEF SessionRow
  <2> QED BY <2>1, <2>2
<1>4. \A t \in Token :
        /\ tokens[t] = None => tokens'[t] = None
        /\ tokens[t] # None =>
             /\ tokens'[t] \in TokenRow /\ tokens'[t] # None
             /\ tokens'[t].session_id = tokens[t].session_id
             /\ tokens'[t].family_id = tokens[t].family_id
             /\ tokens'[t].parent_id = tokens[t].parent_id
             /\ tokens'[t].replacement_id = tokens[t].replacement_id
             /\ tokens'[t].used_at = tokens[t].used_at
             /\ tokens'[t].revoked_at = IF tokens[t].session_id \in S THEN now
                                        ELSE tokens[t].revoked_at
  <2> TAKE t \in Token
  <2>1. CASE tokens[t] = None
    BY <2>1, <1>2 DEF TokensOf
  <2>2. CASE tokens[t] # None /\ tokens[t].session_id \in S
    <3>1. /\ tokens[t] \in TokenRow
          /\ tokens'[t] = [tokens[t] EXCEPT !.revoked_at = now]
      BY <2>2, <1>2 DEF TokensOf
    <3>2. tokens'[t] \in TokenRow
      BY <3>1 DEF TokenRow
    <3>3. tokens'[t] # None
      BY <3>2, NoneAssumption
    <3> QED BY <2>2, <3>1, <3>2, <3>3 DEF TokenRow
  <2>3. CASE tokens[t] # None /\ tokens[t].session_id \notin S
    BY <2>3, <1>2, NoneAssumption DEF TokensOf, TokenRow
  <2> QED BY <2>1, <2>2, <2>3
<1>5. StoreTypeOK'
  BY <1>3, <1>4 DEF StoreTypeOK, stampSessions, stampTokens
<1>6. Kept
  BY <1>3, <1>4 DEF Kept, Never
<1>7. \A s \in S : SessionRevoked(s)'
  BY <1>3 DEF SessionRevoked, Never
<1>8. References'
  BY <1>3, <1>4, <1>2 DEF StoreInv, References, Exists, Stored, TokenRow
<1>9. LineageIntact'
  BY <1>4, <1>2 DEF StoreInv, LineageIntact, validateCurrentLineage, TokenRow
<1>10. AtMostOneLiveToken'
  BY <1>4 DEF StoreInv, AtMostOneLiveToken, Live, Never
<1>11. RevocationTotal'
  BY <1>3, <1>4, <1>2 DEF StoreInv, References, RevocationTotal, SessionRevoked, Exists, Never, TokenRow
<1> QED BY <1>3, <1>5, <1>6, <1>7, <1>8, <1>9, <1>10, <1>11 DEF StoreInv

\* A sign-in stores a session and its first token in free rows.
LEMMA InsertStore ==
  ASSUME StoreTypeOK, StoreInv,
         NEW s \in Session, sessions[s] = None,
         NEW t \in Token, tokens[t] = None,
         NEW u \in User, NEW now \in Nat,
         insertSession(s, t, u, now)
  PROVE  /\ StoreTypeOK' /\ StoreInv' /\ Kept
         /\ tokens'[t] # None /\ sessions'[s].user_id = u
         /\ \A x \in Session : x # s => sessions'[x] = sessions[x]
<1> USE TtlAssumption
<1>0. now + Ttl \in Nat
  OBVIOUS
<1>1. /\ sessions'[s] \in SessionRow /\ sessions'[s] # None
      /\ sessions'[s].user_id = u /\ sessions'[s].revoked_at = Never
      /\ \A x \in Session : x # s => sessions'[x] = sessions[x]
  BY <1>0, NoneAssumption DEF insertSession, StoreTypeOK, SessionRow, Never
<1>2. /\ tokens'[t] \in TokenRow /\ tokens'[t] # None
      /\ tokens'[t].session_id = s /\ tokens'[t].family_id = t
      /\ tokens'[t].parent_id = None /\ tokens'[t].replacement_id = None
      /\ tokens'[t].used_at = Never /\ tokens'[t].revoked_at = Never
      /\ \A x \in Token : x # t => tokens'[x] = tokens[x]
  BY <1>0, NoneAssumption DEF insertSession, StoreTypeOK, TokenRow, Never
<1>3. StoreTypeOK'
  BY <1>1, <1>2 DEF StoreTypeOK, insertSession
<1>4. Kept
  BY <1>1, <1>2 DEF Kept
<1>5. \A x \in Token : tokens[x] # None =>
        /\ x # t /\ tokens[x].session_id # s /\ tokens[x].session_id \in Session
        /\ tokens[x].family_id # t /\ tokens[x].family_id \in Token
        /\ tokens[x].parent_id # t /\ tokens[x].replacement_id # t
        /\ tokens[x].parent_id # None => tokens[x].parent_id \in Token
        /\ tokens[x].replacement_id # None => tokens[x].replacement_id \in Token
  BY NoneAssumption
     DEF StoreInv, StoreTypeOK, References, LineageIntact, validateCurrentLineage,
         Exists, Stored, TokenRow
<1>6. References'
  BY <1>1, <1>2, <1>5 DEF StoreInv, References, Exists, Stored
<1>7. LineageIntact'
  BY <1>2, <1>5 DEF StoreInv, LineageIntact, validateCurrentLineage, Never
<1>8. AtMostOneLiveToken'
  BY <1>2, <1>5 DEF StoreInv, AtMostOneLiveToken, Live
<1>9. RevocationTotal'
  BY <1>1, <1>2, <1>5 DEF StoreInv, RevocationTotal, SessionRevoked
<1> QED BY <1>1, <1>2, <1>3, <1>4, <1>6, <1>7, <1>8, <1>9 DEF StoreInv

\* A rotation spends a rotatable token and stores its replacement in a free row.
LEMMA RotateStore ==
  ASSUME StoreTypeOK, StoreInv,
         NEW t \in Token, tokens[t] # None,
         NEW n \in Token, tokens[n] = None,
         NEW now \in Nat, now > 0,
         Rotatable(t, now),
         rotate(t, n, now), sessions' = sessions
  PROVE  /\ StoreTypeOK' /\ StoreInv' /\ Kept
         /\ tokens'[n] # None
<1>1. /\ tokens[t] \in TokenRow /\ t # n
      /\ sessions[tokens[t].session_id] \in SessionRow
      /\ tokens[t].session_id \in Session
      /\ sessions[tokens[t].session_id] # None
      /\ tokens[t].family_id # n
  BY DEF StoreTypeOK, StoreInv, References, Exists, Stored, TokenRow
<1>2. replacementExpiresAt(t, now) \in Nat
  BY <1>1, TtlAssumption DEF replacementExpiresAt, SessionRow
<1>3. /\ tokens[t].used_at = Never /\ tokens[t].replacement_id = None
      /\ tokens[t].revoked_at = Never
      /\ sessions[tokens[t].session_id].revoked_at = Never
  BY DEF Rotatable, Replayed
<1>a. /\ tokens'[t] = [tokens[t] EXCEPT !.used_at = now, !.replacement_id = n]
      /\ tokens'[n] = replacementRow(t, now)
  BY <1>1 DEF rotate, StoreTypeOK
<1>4. \A x \in Token : x # t /\ x # n => tokens'[x] = tokens[x]
  BY DEF rotate, StoreTypeOK
<1>5. /\ tokens'[t] \in TokenRow /\ tokens'[t] # None
      /\ tokens'[t].session_id = tokens[t].session_id
      /\ tokens'[t].family_id = tokens[t].family_id
      /\ tokens'[t].parent_id = tokens[t].parent_id
      /\ tokens'[t].replacement_id = n /\ tokens'[t].used_at = now
      /\ tokens'[t].revoked_at = Never
  <2>1. tokens'[t] \in TokenRow
    BY <1>1, <1>a DEF TokenRow
  <2> QED BY <2>1, <1>1, <1>3, <1>a, NoneAssumption DEF TokenRow
<1>6. /\ tokens'[n] \in TokenRow /\ tokens'[n] # None
      /\ tokens'[n].session_id = tokens[t].session_id
      /\ tokens'[n].family_id = tokens[t].family_id
      /\ tokens'[n].parent_id = t /\ tokens'[n].replacement_id = None
      /\ tokens'[n].used_at = Never /\ tokens'[n].revoked_at = Never
  BY <1>1, <1>2, <1>a, NoneAssumption DEF replacementRow, TokenRow, Never
<1>7. StoreTypeOK'
  <2>1. tokens' = [x \in Token |-> tokens'[x]]
    BY DEF rotate, StoreTypeOK
  <2>2. \A x \in Token : tokens'[x] \in TokenRow \cup {None}
    BY <1>4, <1>5, <1>6 DEF StoreTypeOK
  <2> QED BY <2>1, <2>2 DEF StoreTypeOK
<1>8. Kept
  BY <1>4, <1>5, <1>6 DEF Kept
<1>9. \A x \in Token : tokens[x] # None =>
        /\ x # n /\ tokens[x].session_id \in Session
        /\ tokens[x].family_id # n /\ tokens[x].family_id \in Token
        /\ tokens[x].parent_id # n /\ tokens[x].replacement_id # n
        /\ tokens[x].parent_id # None => tokens[x].parent_id \in Token
        /\ tokens[x].replacement_id # None => tokens[x].replacement_id \in Token
  BY NoneAssumption
     DEF StoreInv, StoreTypeOK, References, LineageIntact, validateCurrentLineage,
         Exists, Stored, TokenRow
<1>10. References'
  <2> SUFFICES ASSUME NEW x \in Token, tokens'[x] # None
               PROVE  /\ Exists(tokens'[x].session_id)
                      /\ tokens'[x].family_id \in Token
                      /\ tokens'[tokens'[x].family_id] # None
                      /\ tokens'[tokens'[x].family_id].session_id = tokens'[x].session_id
    BY DEF References, Exists, Stored
  <2>1. \A y \in Token : tokens[y] # None =>
          /\ Exists(tokens[y].session_id)
          /\ tokens[y].family_id \in Token /\ tokens[tokens[y].family_id] # None
          /\ tokens[tokens[y].family_id].session_id = tokens[y].session_id
    BY DEF StoreInv, References, Stored
  <2>2. CASE x = n
    BY <2>1, <2>2, <1>1, <1>4, <1>5, <1>6 DEF Exists
  <2>3. CASE x # n
    <3>1. tokens[x] # None
      BY <2>3, <1>4
    <3>2. /\ tokens'[x].session_id = tokens[x].session_id
          /\ tokens'[x].family_id = tokens[x].family_id
      BY <2>3, <1>4, <1>5
    <3> QED BY <3>1, <3>2, <2>1, <1>4, <1>5, <1>9 DEF Exists
  <2> QED BY <2>2, <2>3
<1>11. LineageIntact'
  <2> SUFFICES ASSUME NEW x \in Token, tokens'[x] # None
               PROVE  /\ validateCurrentLineage(x)'
                      /\ tokens'[x].used_at # Never <=> tokens'[x].replacement_id # None
                      /\ tokens'[x].replacement_id # None =>
                           LET m == tokens'[x].replacement_id IN
                           tokens'[m] # None /\ tokens'[m].parent_id = x
    BY DEF LineageIntact
  \* Nobody has t as a parent yet: the parent of a stored token was used.
  <2>1. \A y \in Token : tokens[y] # None => tokens[y].parent_id # t
    BY <1>3, NoneAssumption DEF StoreInv, LineageIntact, validateCurrentLineage
  <2>2. CASE x = n
    BY <2>2, <1>1, <1>5, <1>6, NoneAssumption DEF validateCurrentLineage, Never
  <2>3. CASE x = t
    BY <2>3, <1>3, <1>4, <1>5, <1>6, <1>9, NoneAssumption
       DEF StoreInv, LineageIntact, validateCurrentLineage, Never
  <2>4. CASE x # n /\ x # t
    <3>1. tokens[x] # None /\ tokens'[x] = tokens[x]
      BY <2>4, <1>4
    <3>2. tokens[x].parent_id # t /\ tokens[x].parent_id # n
      BY <3>1, <2>1, <1>9
    <3>3. tokens[x].parent_id # None => tokens'[tokens[x].parent_id] = tokens[tokens[x].parent_id]
      BY <3>1, <3>2, <1>4, <1>9
    <3>4. validateCurrentLineage(x)'
      BY <3>1, <3>3 DEF StoreInv, LineageIntact, validateCurrentLineage
    <3>5. tokens[x].replacement_id # None =>
            /\ tokens'[tokens[x].replacement_id] # None
            /\ tokens'[tokens[x].replacement_id].parent_id = x
      BY <3>1, <1>4, <1>5, <1>9 DEF StoreInv, LineageIntact
    <3> QED BY <3>1, <3>4, <3>5 DEF StoreInv, LineageIntact
  <2> QED BY <2>2, <2>3, <2>4
<1>12. AtMostOneLiveToken'
  <2>1. \A x \in Token : Live(x)' => x # t /\ (x # n => Live(x) /\ tokens'[x] = tokens[x])
    BY <1>4, <1>5 DEF Live, Never
  <2>2. Live(t)
    BY <1>3 DEF Live
  <2>3. \A x \in Token : Live(x)' /\ x # n => tokens'[x].session_id # tokens[t].session_id
    BY <2>1, <2>2 DEF StoreInv, AtMostOneLiveToken
  <2> QED BY <2>1, <2>3, <1>6 DEF StoreInv, AtMostOneLiveToken
<1>13. RevocationTotal'
  <2>1. \A s \in Session : SessionRevoked(s)' <=> SessionRevoked(s)
    BY DEF SessionRevoked
  <2> SUFFICES ASSUME NEW x \in Token, tokens'[x] # None
               PROVE  SessionRevoked(tokens'[x].session_id) <=> tokens'[x].revoked_at # Never
    BY DEF RevocationTotal, SessionRevoked
  <2>2. CASE x = n \/ x = t
    BY <2>2, <1>1, <1>3, <1>5, <1>6 DEF SessionRevoked
  <2>3. CASE x # n /\ x # t
    BY <2>3, <1>4 DEF StoreInv, RevocationTotal
  <2> QED BY <2>2, <2>3
<1> QED BY <1>6, <1>7, <1>8, <1>10, <1>11, <1>12, <1>13 DEF StoreInv

LEMMA StoreUnchanged ==
  ASSUME StoreInv, UNCHANGED <<sessions, tokens>>
  PROVE  StoreInv' /\ Kept
<1>1. Kept
  BY DEF Kept
<1>2. References'
  BY DEF StoreInv, References, Exists, Stored
<1>3. LineageIntact'
  BY DEF StoreInv, LineageIntact, validateCurrentLineage
<1>4. AtMostOneLiveToken'
  BY DEF StoreInv, AtMostOneLiveToken, Live
<1>5. RevocationTotal'
  BY DEF StoreInv, RevocationTotal, SessionRevoked
<1> QED BY <1>1, <1>2, <1>3, <1>4, <1>5 DEF StoreInv

--------------------------------------------------------------------------------
(* Requests.                                                               *)

\* A request that a step does not touch keeps its invariant and its answer stays
\* true, because rows and revocations are kept.
LEMMA Undisturbed ==
  ASSUME IInv, Kept, clock' \in Nat, clock' >= clock,
         NEW q \in Req, reqs'[q] = reqs[q]
  PROVE  RequestOK(q)' /\ (reqs'[q].pc = "answered" => AnswerTrue(q)')
<1>1. /\ reqs[q] \in Request /\ RequestOK(q) /\ clock \in Nat
      /\ reqs[q].pc = "answered" => AnswerTrue(q)
  BY DEF IInv, TypeOK, RequestInv, AnswersAreTrue
<1>2. \A s \in Session : SessionRevoked(s) => SessionRevoked(s)'
  BY DEF Kept, SessionRevoked
<1>3. \A s \in Session, u \in User : s \in SessionsOf(u) => s \in SessionsOf(u)'
  BY DEF Kept, SessionsOf
<1>4. reqs[q].pc = "answered" => AnswerTrue(q)'
  BY <1>1, <1>2 DEF AnswerTrue, RequestOK, Exists, Request
<1>5. /\ reqs[q].pc # "idle" => reqs[q].now > 0 /\ reqs[q].now <= clock'
      /\ \A t : Stored(t) => Stored(t)' /\ tokens'[t].session_id = tokens[t].session_id
      /\ \A s : Exists(s) => Exists(s)' /\ sessions'[s].user_id = sessions[s].user_id
  BY <1>1 DEF RequestOK, Kept, Stored, Exists, Request
<1>6. RequestOK(q)'
  BY <1>1, <1>5 DEF RequestOK
<1> QED BY <1>4, <1>6

\* A step on behalf of one request need only be checked for that request.
LEMMA OneRequest ==
  ASSUME IInv, Kept, clock' \in Nat, clock' >= clock,
         NEW r \in Req, \A q \in Req : q # r => reqs'[q] = reqs[q],
         \A t \in disclosed' : t \in disclosed \/ Stored(t),
         RequestOK(r)', reqs'[r].pc = "answered" => AnswerTrue(r)'
  PROVE  RequestInv' /\ AnswersAreTrue'
<1>1. \A q \in Req : RequestOK(q)' /\ (reqs'[q].pc = "answered" => AnswerTrue(q)')
  BY Undisturbed
<1>2. \A t \in disclosed' : Stored(t)'
  BY DEF IInv, RequestInv, Stored, Kept
<1>3. clock' > 0
  BY DEF IInv, RequestInv, TypeOK
<1> QED BY <1>1, <1>2, <1>3 DEF RequestInv, AnswersAreTrue

\* An answer leaves the rest of its request alone.
LEMMA AnswerFrame ==
  ASSUME TypeOK, NEW r \in Req, NEW code \in Answer, answer(r, code)
  PROVE  /\ reqs' \in [Req -> Request]
         /\ \A q \in Req : q # r => reqs'[q] = reqs[q]
         /\ reqs'[r].pc = "answered" /\ reqs'[r].answer = code
         /\ reqs'[r].op = reqs[r].op /\ reqs'[r].now = reqs[r].now
         /\ reqs'[r].session = reqs[r].session /\ reqs'[r].seen = reqs[r].seen
<1>1. reqs[r] \in Request /\ reqs' = [reqs EXCEPT ![r] = [reqs[r] EXCEPT !.pc = "answered", !.answer = code]]
  BY DEF TypeOK, answer
<1>2. [reqs[r] EXCEPT !.pc = "answered", !.answer = code] \in Request
  BY <1>1 DEF Request
<1> QED BY <1>1, <1>2 DEF TypeOK, Request

\* The same for an answer that carries a session.
LEMMA GrantFrame ==
  ASSUME TypeOK, NEW r \in Req, NEW s \in Session, NEW t \in Token, grant(r, s, t)
  PROVE  /\ reqs' \in [Req -> Request]
         /\ \A q \in Req : q # r => reqs'[q] = reqs[q]
         /\ reqs'[r].pc = "answered" /\ reqs'[r].answer = "success"
         /\ reqs'[r].token = t /\ reqs'[r].session = s /\ reqs'[r].now = reqs[r].now
<1>1. /\ reqs[r] \in Request
      /\ reqs' = [reqs EXCEPT ![r] = [reqs[r] EXCEPT !.pc = "answered", !.answer = "success",
                                                   !.session = s, !.token = t]]
  BY DEF TypeOK, grant
<1>2. [reqs[r] EXCEPT !.pc = "answered", !.answer = "success",
                      !.session = s, !.token = t] \in Request
  BY <1>1 DEF Request, Answer
<1> QED BY <1>1, <1>2 DEF TypeOK, Request

--------------------------------------------------------------------------------
(* The invariant.                                                          *)

\* Nothing is stored and nothing is asked at the start.
LEMMA InitInv == Init => IInv
<1> SUFFICES ASSUME Init PROVE IInv
  OBVIOUS
<1>1. \A r \in Req : reqs[r] = Idle
  BY DEF Init
<1>2. Idle \in Request
  BY DEF Idle, Request, Op, Answer, Scope, Never
<1>3. TypeOK
  BY <1>2 DEF Init, TypeOK, UserRow, Never
<1>4. StoreInv
  BY DEF Init, StoreInv, References, LineageIntact, AtMostOneLiveToken, RevocationTotal, Live
<1>5. RequestInv /\ AnswersAreTrue
  BY <1>1 DEF Init, Idle, RequestInv, RequestOK, AnswersAreTrue
<1>6. DeletedUserHasNoSession
  BY DEF Init, DeletedUserHasNoSession
<1> QED BY <1>3, <1>4, <1>5, <1>6 DEF IInv

\* A request arrives: only its slot changes.
LEMMA ArriveStep ==
  ASSUME IInv, NEW r \in Req, NEW request \in Request, Begin(r, request),
         request.pc = "waiting", request.now = clock,
         request.op = "create" => request.user \in User,
         request.op = "refresh" => /\ Stored(request.token)
                                   /\ request.session = tokens[request.token].session_id,
         request.op \in Scope =>
           /\ Exists(request.session)
           /\ request.user = sessions[request.session].user_id
  PROVE  IInv'
<1>1. /\ StoreInv' /\ Kept /\ DeletedUserHasNoSession'
  BY StoreUnchanged DEF IInv, Begin, DeletedUserHasNoSession, SessionRevoked
<1>2. /\ reqs'[r] = request /\ \A q \in Req : q # r => reqs'[q] = reqs[q]
      /\ TypeOK'
  BY DEF IInv, TypeOK, Begin
<1>3. RequestOK(r)'
  BY <1>2 DEF IInv, RequestInv, RequestOK, Begin, Stored, Exists, SessionsOf, TypeOK
<1>4. reqs'[r].pc # "answered" /\ clock' = clock /\ disclosed' = disclosed
  BY <1>2 DEF Begin
<1>5. RequestInv' /\ AnswersAreTrue'
  BY <1>1, <1>2, <1>3, <1>4, OneRequest DEF IInv, TypeOK
<1> QED BY <1>1, <1>2, <1>5 DEF IInv

\* A request is answered without touching the tables.
LEMMA RefuseStep ==
  ASSUME IInv, NEW r \in Req, reqs[r].pc # "idle",
         NEW code \in Answer \ {"success", "refresh_token_reused", "signed_out"},
         answer(r, code), UNCHANGED <<clock, users, sessions, tokens, disclosed>>
  PROVE  IInv'
<1>1. /\ StoreInv' /\ Kept /\ DeletedUserHasNoSession'
  BY StoreUnchanged DEF IInv, DeletedUserHasNoSession, SessionRevoked
<1>2. /\ reqs' \in [Req -> Request]
      /\ \A q \in Req : q # r => reqs'[q] = reqs[q]
      /\ reqs'[r].pc = "answered" /\ reqs'[r].answer = code
      /\ reqs'[r].now = reqs[r].now
  BY AnswerFrame DEF IInv
<1>3. RequestOK(r)' /\ AnswerTrue(r)'
  BY <1>2 DEF IInv, RequestInv, RequestOK, AnswerTrue
<1>4. RequestInv' /\ AnswersAreTrue'
  BY <1>1, <1>2, <1>3, OneRequest DEF IInv, TypeOK
<1>5. TypeOK'
  BY <1>2 DEF IInv, TypeOK
<1> QED BY <1>1, <1>4, <1>5 DEF IInv

\* A request slot is emptied, by a delivered answer or by a crash.
LEMMA IdleStep ==
  ASSUME IInv, NEW r \in Req, reqs' = [reqs EXCEPT ![r] = Idle],
         disclosed' \subseteq Token, \A t \in disclosed' : t \in disclosed \/ Stored(t),
         UNCHANGED <<clock, users, sessions, tokens>>
  PROVE  IInv'
<1>1. /\ StoreInv' /\ Kept /\ DeletedUserHasNoSession'
  BY StoreUnchanged DEF IInv, DeletedUserHasNoSession, SessionRevoked
<1>2. Idle \in Request
  BY DEF Idle, Request, Op, Answer, Scope, Never
<1>3. /\ TypeOK' /\ reqs'[r] = Idle
      /\ \A q \in Req : q # r => reqs'[q] = reqs[q]
  BY <1>2 DEF IInv, TypeOK
<1>4. RequestOK(r)' /\ reqs'[r].pc # "answered"
  BY <1>3 DEF RequestOK, Idle
<1>5. RequestInv' /\ AnswersAreTrue'
  BY <1>1, <1>3, <1>4, OneRequest DEF IInv, TypeOK
<1> QED BY <1>1, <1>3, <1>5 DEF IInv

\* No revocation and no new session disturbs what deletion promised.
LEMMA DeletionKept ==
  ASSUME IInv, Kept, UNCHANGED users,
         \A s \in Session : sessions[s] = None => sessions'[s] = None
  PROVE  DeletedUserHasNoSession'
BY DEF IInv, DeletedUserHasNoSession, SessionRevoked, Kept

LEMMA CreateStep ==
  ASSUME IInv, NEW r \in Req, NEW s \in Session, NEW t \in Token, Create(r, s, t)
  PROVE  IInv'
<1>1. /\ reqs[r] \in Request /\ RequestOK(r)
      /\ reqs[r].user \in User /\ reqs[r].now \in Nat
      /\ StoreTypeOK /\ StoreInv
  BY DEF IInv, TypeOK, StoreTypeOK, RequestInv, RequestOK, Create, Waiting, Request
<1>2. /\ StoreTypeOK' /\ StoreInv' /\ Kept /\ tokens'[t] # None
      /\ sessions'[s].user_id = reqs[r].user
      /\ \A x \in Session : x # s => sessions'[x] = sessions[x]
  BY <1>1, InsertStore DEF Create
<1>3. /\ reqs' \in [Req -> Request]
      /\ \A q \in Req : q # r => reqs'[q] = reqs[q]
      /\ reqs'[r].pc = "answered" /\ reqs'[r].answer = "success"
      /\ reqs'[r].token = t /\ reqs'[r].now = reqs[r].now
  BY GrantFrame DEF IInv, Create
<1>4. UNCHANGED <<clock, users, disclosed>> /\ reqs[r].pc = "waiting"
  BY DEF Create, Waiting
<1>5. RequestOK(r)' /\ AnswerTrue(r)'
  BY <1>1, <1>2, <1>3, <1>4 DEF RequestOK, AnswerTrue, Stored
<1>6. RequestInv' /\ AnswersAreTrue'
  BY <1>2, <1>3, <1>4, <1>5, OneRequest DEF IInv, TypeOK
<1>7. TypeOK'
  BY <1>2, <1>3, <1>4 DEF IInv, TypeOK, StoreTypeOK
\* The locked owner of the new session is active, so not deleted.
<1>8. DeletedUserHasNoSession'
  BY <1>2, <1>4 DEF IInv, DeletedUserHasNoSession, SessionRevoked, Create, Active
<1> QED BY <1>2, <1>6, <1>7, <1>8 DEF IInv

LEMMA RotateStep ==
  ASSUME IInv, NEW r \in Req, NEW n \in Token, Rotate(r, n)
  PROVE  IInv'
<1> DEFINE t == reqs[r].token
<1>1. /\ reqs[r] \in Request /\ RequestOK(r)
      /\ reqs[r].now \in Nat /\ reqs[r].now > 0
      /\ t \in Token /\ tokens[t] # None
      /\ reqs[r].session = tokens[t].session_id
      /\ StoreTypeOK /\ StoreInv
  BY DEF IInv, TypeOK, StoreTypeOK, RequestInv, RequestOK, Rotate, Waiting, Request, Stored
<1>2. /\ StoreTypeOK' /\ StoreInv' /\ Kept /\ tokens'[n] # None
  BY <1>1, RotateStore DEF Rotate
<1>3. reqs[r].session \in Session
  BY <1>1 DEF StoreInv, References, Exists
<1>4. /\ reqs' \in [Req -> Request]
      /\ \A q \in Req : q # r => reqs'[q] = reqs[q]
      /\ reqs'[r].pc = "answered" /\ reqs'[r].answer = "success"
      /\ reqs'[r].token = n /\ reqs'[r].now = reqs[r].now
  BY <1>3, GrantFrame DEF IInv, Rotate
<1>5. UNCHANGED <<clock, users, sessions, disclosed>> /\ reqs[r].pc = "waiting"
  BY DEF Rotate, Waiting
<1>6. RequestOK(r)' /\ AnswerTrue(r)'
  BY <1>1, <1>2, <1>4, <1>5 DEF RequestOK, AnswerTrue, Stored
<1>7. RequestInv' /\ AnswersAreTrue'
  BY <1>2, <1>4, <1>5, <1>6, OneRequest DEF IInv, TypeOK
<1>8. TypeOK'
  BY <1>2, <1>4, <1>5 DEF IInv, TypeOK, StoreTypeOK
<1>9. DeletedUserHasNoSession'
  BY <1>2, <1>5, DeletionKept
<1> QED BY <1>2, <1>7, <1>8, <1>9 DEF IInv

\* A replay is noted; the tables wait for the second transaction.
LEMMA ClassifyStep ==
  ASSUME IInv, NEW r \in Req, ClassifyReplay(r)
  PROVE  IInv'
<1>1. /\ StoreInv' /\ Kept /\ DeletedUserHasNoSession'
  BY StoreUnchanged DEF IInv, ClassifyReplay, DeletedUserHasNoSession, SessionRevoked
<1>2. /\ reqs[r] \in Request /\ reqs[r].pc = "waiting" /\ reqs[r].op = "refresh"
      /\ reqs' = [reqs EXCEPT ![r] = [reqs[r] EXCEPT !.pc = "reused"]]
      /\ UNCHANGED <<clock, users, sessions, tokens, disclosed>>
  BY DEF IInv, TypeOK, ClassifyReplay, Waiting
<1>3. [reqs[r] EXCEPT !.pc = "reused"] \in Request
  BY <1>2 DEF Request
<1>4. /\ TypeOK' /\ reqs'[r] = [reqs[r] EXCEPT !.pc = "reused"]
      /\ \A q \in Req : q # r => reqs'[q] = reqs[q]
  BY <1>2, <1>3 DEF IInv, TypeOK
<1>5. /\ reqs'[r].pc = "reused" /\ reqs'[r].op = "refresh"
      /\ reqs'[r].token = reqs[r].token /\ reqs'[r].session = reqs[r].session
      /\ reqs'[r].now = reqs[r].now
  BY <1>2, <1>4 DEF Request
<1>6. RequestOK(r)'
  BY <1>2, <1>5 DEF IInv, RequestInv, RequestOK, Stored, Exists, Scope
<1>7. RequestInv' /\ AnswersAreTrue'
  BY <1>1, <1>2, <1>4, <1>5, <1>6, OneRequest DEF IInv, TypeOK
<1> QED BY <1>1, <1>4, <1>7 DEF IInv

\* Containment: the family of the replayed token lies in the session, so the
\* step stamps exactly one session and its tokens.
LEMMA ContainStep ==
  ASSUME IInv, NEW r \in Req, containReuse(r)
  PROVE  IInv'
<1> DEFINE t == reqs[r].token
           s == reqs[r].session
           now == reqs[r].now
<1>1. /\ reqs[r] \in Request /\ RequestOK(r) /\ reqs[r].op = "refresh"
      /\ now \in Nat /\ now > 0
      /\ t \in Token /\ tokens[t] # None /\ s = tokens[t].session_id
      /\ StoreTypeOK /\ StoreInv
  BY DEF IInv, TypeOK, StoreTypeOK, RequestInv, RequestOK, containReuse, Request, Stored
<1>2. s \in Session /\ sessions[s] # None
  BY <1>1 DEF StoreInv, References, Exists
<1>3. FamilyOf(tokens[t].family_id) \cup TokensOf({s}) = TokensOf({s})
  BY <1>1 DEF StoreInv, References, Stored, FamilyOf, TokensOf
<1>4. sessions' = stampSessions({s}, now) /\ tokens' = stampTokens(TokensOf({s}), now)
  BY <1>3 DEF containReuse, revokeFamilyAndSession
<1>5. /\ StoreTypeOK' /\ StoreInv' /\ Kept
      /\ \A x \in {s} : SessionRevoked(x)'
      /\ \A x \in Session : sessions[x] = None => sessions'[x] = None
  <2>1. {s} \in SUBSET Session /\ \A x \in {s} : sessions[x] # None
    BY <1>2
  <2> QED BY <1>1, <1>4, <2>1, RevokeStore
<1>6. "refresh_token_reused" \in Answer
  BY DEF Answer
<1>7. /\ reqs' \in [Req -> Request]
      /\ \A q \in Req : q # r => reqs'[q] = reqs[q]
      /\ reqs'[r].pc = "answered" /\ reqs'[r].answer = "refresh_token_reused"
      /\ reqs'[r].session = s /\ reqs'[r].now = now
  BY <1>6, AnswerFrame DEF IInv, containReuse
<1>8. UNCHANGED <<clock, users, disclosed>> /\ reqs[r].pc = "reused"
  BY DEF containReuse
<1>9. RequestOK(r)' /\ AnswerTrue(r)'
  BY <1>1, <1>2, <1>5, <1>7, <1>8 DEF RequestOK, AnswerTrue, Exists, Kept
<1>10. RequestInv' /\ AnswersAreTrue'
  BY <1>5, <1>7, <1>8, <1>9, OneRequest DEF IInv, TypeOK
<1>11. TypeOK'
  BY <1>5, <1>7, <1>8 DEF IInv, TypeOK, StoreTypeOK
<1>12. DeletedUserHasNoSession'
  BY <1>5, <1>8, DeletionKept
<1> QED BY <1>5, <1>10, <1>11, <1>12 DEF IInv

\* Sign-out: the scope selects sessions of one user that exist: all those the
\* answer is about.
LEMMA SignOutStep ==
  ASSUME IInv, NEW r \in Req, SignOut(r)
  PROVE  IInv'
<1> DEFINE s == reqs[r].session
           u == reqs[r].user
           now == reqs[r].now
<1>1. /\ reqs[r] \in Request /\ RequestOK(r) /\ reqs[r].pc = "waiting" /\ reqs[r].op \in Scope
      /\ now \in Nat /\ now > 0
      /\ s \in Session /\ sessions[s] # None /\ u = sessions[s].user_id
      /\ StoreTypeOK /\ StoreInv
  BY DEF IInv, TypeOK, StoreTypeOK, RequestInv, RequestOK, SignOut, Waiting, Request, Exists
<1>2. PICK S \in SUBSET Session :
        /\ \A x \in S : sessions[x] # None
        /\ sessions' = stampSessions(S, now) /\ tokens' = stampTokens(TokensOf(S), now)
        /\ reqs[r].op = "local" => s \in S
        /\ reqs[r].op = "global" => SessionsOf(u) \subseteq S
        /\ reqs[r].op = "others" => SessionsOf(u) \ {s} \subseteq S
  <2>1. CASE reqs[r].op = "local" /\ revokeSession(s, now)
    <3>1. {s} \in SUBSET Session /\ \A x \in {s} : sessions[x] # None
      BY <1>1
    <3> QED BY <2>1, <3>1 DEF revokeSession
  <2>2. CASE reqs[r].op = "others" /\ revokeUserSessions(u, {s}, now)
    <3>1. /\ SessionsOf(u) \ {s} \in SUBSET Session
          /\ \A x \in SessionsOf(u) \ {s} : sessions[x] # None
      BY DEF SessionsOf
    <3> QED BY <1>1, <2>2, <3>1 DEF revokeUserSessions
  <2>3. CASE reqs[r].op = "global" /\ revokeUserSessions(u, {}, now)
    <3>1. /\ SessionsOf(u) \ {} \in SUBSET Session
          /\ \A x \in SessionsOf(u) \ {} : sessions[x] # None
      BY DEF SessionsOf
    <3> QED BY <1>1, <2>3, <3>1 DEF revokeUserSessions
  <2> QED BY <2>1, <2>2, <2>3 DEF SignOut
<1>3. /\ StoreTypeOK' /\ StoreInv' /\ Kept
      /\ \A x \in S : SessionRevoked(x)'
      /\ \A x \in Session : sessions[x] = None => sessions'[x] = None
  BY <1>1, <1>2, RevokeStore
<1> DEFINE request == [reqs[r] EXCEPT !.pc = "answered", !.answer = "signed_out",
                                        !.seen = SessionsOf(u)]
<1>5. /\ reqs' \in [Req -> Request]
      /\ \A q \in Req : q # r => reqs'[q] = reqs[q]
      /\ reqs'[r].pc = "answered" /\ reqs'[r].answer = "signed_out"
      /\ reqs'[r].op = reqs[r].op /\ reqs'[r].seen = SessionsOf(u)
      /\ reqs'[r].session = s /\ reqs'[r].now = now
  <2>1. reqs' = [reqs EXCEPT ![r] = request]
    BY DEF SignOut
  <2>2. /\ request \in Request /\ request.pc = "answered" /\ request.answer = "signed_out"
        /\ request.op = reqs[r].op /\ request.seen = SessionsOf(u)
        /\ request.session = s /\ request.now = now
    BY <1>1 DEF Request, Answer, SessionsOf
  <2> HIDE DEF request
  <2> QED BY <2>1, <2>2 DEF IInv, TypeOK
<1>6. UNCHANGED <<clock, users, disclosed>>
  BY DEF SignOut
<1>7. RequestOK(r)'
  BY <1>1, <1>3, <1>5, <1>6 DEF RequestOK, Exists, Kept
<1>8. AnswerTrue(r)'
  BY <1>2, <1>3, <1>5 DEF AnswerTrue
<1>9. RequestInv' /\ AnswersAreTrue'
  BY <1>3, <1>5, <1>6, <1>7, <1>8, OneRequest DEF IInv, TypeOK
<1>10. TypeOK'
  BY <1>3, <1>5, <1>6 DEF IInv, TypeOK, StoreTypeOK
<1>11. DeletedUserHasNoSession'
  BY <1>3, <1>6, DeletionKept
<1> QED BY <1>3, <1>9, <1>10, <1>11 DEF IInv

\* Deletion stamps every session of the user in the step that marks the user.
LEMMA DeleteStep ==
  ASSUME IInv, NEW u \in User, DeleteUser(u)
  PROVE  IInv'
<1> DEFINE S == SessionsOf(u)
<1>1. /\ clock \in Nat /\ clock > 0 /\ StoreTypeOK /\ StoreInv
      /\ UNCHANGED <<clock, reqs, disclosed>>
  BY DEF IInv, TypeOK, StoreTypeOK, RequestInv, DeleteUser
<1>2. S \in SUBSET Session /\ \A x \in S : sessions[x] # None
  BY DEF SessionsOf
<1>3. sessions' = stampSessions(S, clock) /\ tokens' = stampTokens(TokensOf(S), clock)
  <2>1. S \ {} = S
    OBVIOUS
  <2> QED BY <2>1 DEF DeleteUser, revokeUserSessions
<1>4. /\ StoreTypeOK' /\ StoreInv' /\ Kept
      /\ \A x \in S : SessionRevoked(x)'
      /\ \A x \in Session : sessions[x] = None => sessions'[x] = None
  BY <1>1, <1>2, <1>3, RevokeStore
<1>5. /\ users' \in [User -> UserRow]
      /\ \A x \in User : x # u => users'[x] = users[x]
  BY DEF IInv, TypeOK, DeleteUser, UserRow
<1>6. TypeOK'
  BY <1>1, <1>4, <1>5 DEF IInv, TypeOK, StoreTypeOK
<1>7. \A q \in Req : RequestOK(q)' /\ (reqs'[q].pc = "answered" => AnswerTrue(q)')
  BY <1>1, <1>4, Undisturbed
<1>8. RequestInv' /\ AnswersAreTrue'
  BY <1>1, <1>4, <1>7 DEF IInv, RequestInv, AnswersAreTrue, Stored, Kept
<1>9. DeletedUserHasNoSession'
  <2> SUFFICES ASSUME NEW x \in Session, sessions'[x] # None,
                      users'[sessions'[x].user_id].deleted
               PROVE  SessionRevoked(x)'
    BY DEF DeletedUserHasNoSession
  <2>1. sessions[x] # None /\ sessions'[x].user_id = sessions[x].user_id
    BY <1>4 DEF Kept
  <2>2. CASE sessions[x].user_id = u
    BY <2>1, <2>2, <1>4 DEF SessionsOf
  <2>3. CASE sessions[x].user_id # u
    <3>1. sessions[x].user_id \in User
      BY <2>1 DEF IInv, TypeOK, SessionRow
    <3>2. users[sessions[x].user_id].deleted
      BY <2>1, <2>3, <3>1, <1>5
    <3> QED BY <2>1, <3>2, <1>4 DEF IInv, DeletedUserHasNoSession, SessionRevoked, Kept
  <2> QED BY <2>2, <2>3
<1> QED BY <1>4, <1>6, <1>8, <1>9 DEF IInv

\* A ban and the clock touch neither tables nor requests.
LEMMA BanStep ==
  ASSUME IInv, NEW u \in User, NEW until \in Nat, BanUser(u, until)
  PROVE  IInv'
<1>1. UNCHANGED <<clock, sessions, tokens, reqs, disclosed>>
  BY DEF BanUser
<1>2. StoreInv' /\ Kept
  BY <1>1, StoreUnchanged DEF IInv
<1>3. /\ users' \in [User -> UserRow]
      /\ \A x \in User : users'[x].deleted = users[x].deleted
  BY DEF IInv, TypeOK, BanUser, UserRow
<1>4. TypeOK'
  BY <1>1, <1>3 DEF IInv, TypeOK
<1>5. \A q \in Req : RequestOK(q)' /\ (reqs'[q].pc = "answered" => AnswerTrue(q)')
  BY <1>1, <1>2, Undisturbed DEF IInv, TypeOK
<1>6. RequestInv' /\ AnswersAreTrue'
  BY <1>1, <1>2, <1>5 DEF IInv, RequestInv, AnswersAreTrue, Stored
<1>7. DeletedUserHasNoSession'
  BY <1>1, <1>3 DEF IInv, TypeOK, SessionRow, DeletedUserHasNoSession, SessionRevoked
<1> QED BY <1>2, <1>4, <1>6, <1>7 DEF IInv

LEMMA TickStep ==
  ASSUME IInv, Tick
  PROVE  IInv'
<1>1. /\ UNCHANGED <<users, sessions, tokens, reqs, disclosed>>
      /\ clock' \in Nat /\ clock' >= clock /\ clock' > 0
  BY DEF IInv, RequestInv, TypeOK, Tick
<1>2. StoreInv' /\ Kept
  BY <1>1, StoreUnchanged DEF IInv
<1>3. TypeOK' /\ DeletedUserHasNoSession'
  BY <1>1 DEF IInv, TypeOK, DeletedUserHasNoSession, SessionRevoked
<1>4. \A q \in Req : RequestOK(q)' /\ (reqs'[q].pc = "answered" => AnswerTrue(q)')
  BY <1>1, <1>2, Undisturbed
<1>5. RequestInv' /\ AnswersAreTrue'
  BY <1>1, <1>4 DEF IInv, RequestInv, AnswersAreTrue, Stored
<1> QED BY <1>2, <1>3, <1>5 DEF IInv

\* Every step keeps the invariant.
LEMMA StepInv == IInv /\ [Next]_vars => IInv'
<1> SUFFICES ASSUME IInv, [Next]_vars PROVE IInv'
  OBVIOUS
<1> USE DEF Arrived, Idle
<1>1. ASSUME NEW r \in Req, NEW u \in User, BeginCreate(r, u) PROVE IInv'
  <2> DEFINE request == [Arrived EXCEPT !.op = "create", !.user = u]
  <2>1. request \in Request
    BY DEF IInv, TypeOK, Request, Op, Answer, Scope, Never
  <2>2. /\ Begin(r, request)
        /\ request.pc = "waiting" /\ request.now = clock
        /\ request.op = "create" /\ request.user = u
    BY <1>1 DEF BeginCreate
  <2>3. "create" # "refresh" /\ "create" \notin Scope
    BY DEF Scope
  <2> HIDE DEF request
  <2> QED BY <2>1, <2>2, <2>3, ArriveStep
<1>2. ASSUME NEW r \in Req, NEW t \in Token, BeginRefresh(r, t) PROVE IInv'
  <2> DEFINE request == [Arrived EXCEPT !.op = "refresh", !.token = t,
                                        !.session = tokens[t].session_id]
  <2>1. Stored(t) /\ tokens[t].session_id \in Session
    BY <1>2 DEF BeginRefresh, IInv, RequestInv, StoreInv, References, Stored, Exists
  <2>2. request \in Request
    BY <2>1 DEF IInv, TypeOK, Request, Op, Answer, Scope, Never
  <2>3. /\ Begin(r, request)
        /\ request.pc = "waiting" /\ request.now = clock
        /\ request.op = "refresh" /\ request.token = t
        /\ request.session = tokens[t].session_id
    BY <1>2 DEF BeginRefresh
  <2>4. "refresh" # "create" /\ "refresh" \notin Scope
    BY DEF Scope
  <2> HIDE DEF request
  <2> QED BY <2>1, <2>2, <2>3, <2>4, ArriveStep
<1>3. ASSUME NEW r \in Req, NEW s \in Session, NEW scope \in Scope, BeginSignOut(r, s, scope)
      PROVE  IInv'
  <2> DEFINE request == [Arrived EXCEPT !.op = scope, !.session = s,
                                        !.user = sessions[s].user_id]
  <2>1. Exists(s) /\ sessions[s].user_id \in User
    BY <1>3 DEF BeginSignOut, IInv, TypeOK, SessionRow, Exists
  <2>2. request \in Request
    BY <2>1 DEF IInv, TypeOK, Request, Op, Answer, Never
  <2>3. /\ Begin(r, request)
        /\ request.pc = "waiting" /\ request.now = clock
        /\ request.op = scope /\ request.session = s
        /\ request.user = sessions[s].user_id
    BY <1>3 DEF BeginSignOut
  <2>4. scope # "create" /\ scope # "refresh"
    BY DEF Scope
  <2> HIDE DEF request
  <2> QED BY <2>1, <2>2, <2>3, <2>4, ArriveStep
<1>4. ASSUME NEW r \in Req, CreateRefused(r) \/ RefreshRefused(r) \/ Fail(r) PROVE IInv'
  <2>1. PICK code \in Answer \ {"success", "refresh_token_reused", "signed_out"} :
          answer(r, code)
    BY <1>4 DEF CreateRefused, RefreshRefused, Fail, Refusal, Answer
  <2>2. reqs[r].pc # "idle" /\ UNCHANGED <<clock, users, sessions, tokens, disclosed>>
    BY <1>4 DEF CreateRefused, RefreshRefused, Fail, Waiting
  <2> QED BY <2>1, <2>2, RefuseStep
<1>5. ASSUME NEW r \in Req, Deliver(r) \/ Lose(r) PROVE IInv'
  <2>1. CASE Deliver(r)
    <3>1. /\ disclosed' \subseteq Token
          /\ \A t \in disclosed' : t \in disclosed \/ Stored(t)
      BY <2>1 DEF Deliver, IInv, TypeOK, RequestInv, RequestOK, Stored
    <3> QED BY <2>1, <3>1, IdleStep DEF Deliver
  <2>2. CASE Lose(r)
    <3>1. disclosed' \subseteq Token /\ \A t \in disclosed' : t \in disclosed
      BY <2>2 DEF Lose, IInv, TypeOK
    <3> QED BY <2>2, <3>1, IdleStep DEF Lose
  <2> QED BY <1>5, <2>1, <2>2
<1>6. CASE UNCHANGED vars
  <2>1. StoreInv' /\ Kept
    BY <1>6, StoreUnchanged DEF IInv, vars
  <2>2. /\ TypeOK' /\ DeletedUserHasNoSession'
    BY <1>6 DEF IInv, vars, TypeOK, DeletedUserHasNoSession, SessionRevoked
  <2>3. \A q \in Req : RequestOK(q)' /\ (reqs'[q].pc = "answered" => AnswerTrue(q)')
    BY <1>6, <2>1, Undisturbed DEF IInv, TypeOK, vars
  <2> QED BY <1>6, <2>1, <2>2, <2>3 DEF IInv, vars, RequestInv, AnswersAreTrue, Stored
<1>7. ASSUME NEW u \in User, NEW until \in 0..MaxTime, BanUser(u, until) PROVE IInv'
  BY <1>7, BanStep, MaxTimeAssumption
<1> QED
  BY <1>1, <1>2, <1>3, <1>4, <1>5, <1>6, <1>7, CreateStep, RotateStep, ClassifyStep,
     ContainStep, SignOutStep, DeleteStep, TickStep
     DEF Next, Arrive, Serve

\* Type correctness of every reachable state.
THEOREM TypeCorrect == Spec => []TypeOK
<1>1. IInv => TypeOK
  BY DEF IInv
<1> QED BY <1>1, InitInv, StepInv, PTL DEF Spec

\* Rotation never forks a lineage, a session is carried by at most one live token,
\* and revocation reaches sessions and tokens alike, whatever requests race.
THEOREM StoreCorrect == Spec => [](LineageIntact /\ AtMostOneLiveToken /\ RevocationTotal)
<1>1. IInv => LineageIntact /\ AtMostOneLiveToken /\ RevocationTotal
  BY DEF IInv, StoreInv
<1> QED BY <1>1, InitInv, StepInv, PTL DEF Spec

\* A deleted user has no session left, also not from a sign-in that raced.
THEOREM DeletionCorrect == Spec => []DeletedUserHasNoSession
<1>1. IInv => DeletedUserHasNoSession
  BY DEF IInv
<1> QED BY <1>1, InitInv, StepInv, PTL DEF Spec

\* Whoever is told of a contained replay or of a sign-out is told the truth.
THEOREM AnswersCorrect == Spec => []AnswersAreTrue
<1>1. IInv => AnswersAreTrue
  BY DEF IInv
<1> QED BY <1>1, InitInv, StepInv, PTL DEF Spec

\* No refresh token outlives its session: a rotation takes the session's expiry for the
\* token's where its own clock would give a later one.
LEMMA OutlivesStep ==
  IInv /\ NoTokenOutlivesSession /\ [Next]_vars => NoTokenOutlivesSession'
<1> SUFFICES ASSUME IInv, NoTokenOutlivesSession, [Next]_vars PROVE NoTokenOutlivesSession'
  OBVIOUS
<1>1. /\ \A t \in Token : tokens[t] # None =>
            /\ tokens[t] \in TokenRow /\ tokens[t].session_id \in Session
            /\ sessions[tokens[t].session_id] # None
            /\ sessions[tokens[t].session_id] \in SessionRow
      /\ \A s \in Session : sessions[s] # None => sessions[s] \in SessionRow
  BY DEF IInv, TypeOK, StoreInv, References, Exists
<1>2. ASSUME NEW S, NEW T, NEW now \in Nat,
             sessions' = stampSessions(S, now), tokens' = stampTokens(T, now),
             \A t \in T : tokens[t] # None
      PROVE  NoTokenOutlivesSession'
  <2>1. ASSUME NEW s \in Session, sessions[s] # None
        PROVE  sessions'[s].expires_at = sessions[s].expires_at
    BY <1>1, <1>2, <2>1 DEF stampSessions, SessionRow
  <2>2. ASSUME NEW t \in Token, tokens'[t] # None
        PROVE  /\ tokens[t] # None
               /\ tokens'[t].session_id = tokens[t].session_id
               /\ tokens'[t].expires_at = tokens[t].expires_at
    BY <1>1, <1>2, <2>2 DEF stampTokens, TokenRow
  <2> QED BY <1>1, <2>1, <2>2 DEF NoTokenOutlivesSession
<1>3. ASSUME NEW r \in Req, NEW s \in Session, NEW n \in Token, Create(r, s, n)
      PROVE  NoTokenOutlivesSession'
  <2>1. /\ sessions'[s].expires_at = reqs[r].now + Ttl
        /\ tokens'[n].expires_at = reqs[r].now + Ttl /\ tokens'[n].session_id = s
        /\ \A x \in Session : x # s => sessions'[x] = sessions[x]
        /\ \A x \in Token : x # n => tokens'[x] = tokens[x]
        /\ sessions[s] = None /\ reqs[r].now + Ttl \in Nat
    BY <1>3, TtlAssumption DEF Create, insertSession, IInv, TypeOK, Request
  <2> QED BY <1>1, <2>1 DEF NoTokenOutlivesSession
<1>4. ASSUME NEW r \in Req, NEW n \in Token, Rotate(r, n) PROVE NoTokenOutlivesSession'
  <2> DEFINE t == reqs[r].token
  <2>1. t \in Token /\ tokens[t] # None /\ reqs[r].now \in Nat
    BY <1>4 DEF IInv, TypeOK, Request, RequestInv, RequestOK, Stored, Rotate, Waiting
  <2>2. /\ sessions' = sessions /\ tokens[n] = None
        /\ tokens'[t].session_id = tokens[t].session_id
        /\ tokens'[t].expires_at = tokens[t].expires_at
        /\ tokens'[n] = replacementRow(t, reqs[r].now)
        /\ \A x \in Token : x # t /\ x # n => tokens'[x] = tokens[x]
    BY <1>1, <1>4, <2>1 DEF Rotate, rotate, IInv, TypeOK, TokenRow
  <2>3. replacementExpiresAt(t, reqs[r].now) <= sessions[tokens[t].session_id].expires_at
    BY <1>1, <2>1, TtlAssumption DEF replacementExpiresAt, SessionRow
  <2> QED BY <1>1, <2>1, <2>2, <2>3 DEF NoTokenOutlivesSession, replacementRow
<1>5. \A r \in Req : reqs[r].now \in Nat
  BY DEF IInv, TypeOK, Request
<1>6. ASSUME NEW r \in Req, containReuse(r) PROVE NoTokenOutlivesSession'
  BY <1>2, <1>5, <1>6 DEF containReuse, revokeFamilyAndSession, FamilyOf, TokensOf
<1>7. ASSUME NEW r \in Req, SignOut(r) PROVE NoTokenOutlivesSession'
  BY <1>2, <1>5, <1>7 DEF SignOut, revokeSession, revokeUserSessions, TokensOf
<1>8. ASSUME NEW u \in User, DeleteUser(u) PROVE NoTokenOutlivesSession'
  BY <1>2, <1>8 DEF DeleteUser, revokeUserSessions, TokensOf, IInv, TypeOK
<1>9. CASE UNCHANGED <<sessions, tokens>>
  BY <1>9 DEF NoTokenOutlivesSession
<1> QED
  BY <1>3, <1>4, <1>6, <1>7, <1>8, <1>9
     DEF Next, Arrive, Serve, vars, BeginCreate, BeginRefresh, BeginSignOut, Begin,
         CreateRefused, ClassifyReplay, RefreshRefused, Fail, Deliver, Lose, BanUser, Tick

\* A stored refresh token expires with its session at the latest.
THEOREM TokensExpire == Spec => []NoTokenOutlivesSession
<1>1. Init => NoTokenOutlivesSession
  BY DEF Init, NoTokenOutlivesSession
<1> QED BY <1>1, InitInv, StepInv, OutlivesStep, PTL DEF Spec

\* Unless the request fails, a refresh that presents a spent token is answered only when
\* its session is revoked: the checks that could refuse it come after the replay check.
THEOREM ReplaysAnswered == Spec => NoReplayBrushedOff
<1>1. ASSUME IInv, IInv', [Next]_vars, NEW r \in Req,
             reqs[r].pc # "answered", reqs'[r].pc = "answered",
             reqs[r].op = "refresh", reqs'[r].answer # "internal_error",
             Replayed(reqs[r].token)
      PROVE  SessionRevoked(reqs[r].session)'
  <2>1. reqs \in [Req -> Request] /\ clock \in Nat
    BY <1>1 DEF IInv, TypeOK
  <2>2. ASSUME NEW x \in Req, NEW row, reqs' = [reqs EXCEPT ![x] = row] PROVE row.pc = "answered"
    BY <1>1, <2>1, <2>2
  <2>3. ASSUME containReuse(r) PROVE SessionRevoked(reqs[r].session)'
    <3>1. /\ reqs'[r].answer = "refresh_token_reused"
          /\ reqs'[r].session = reqs[r].session
      BY <2>1, <2>3 DEF containReuse, answer, Request
    <3> QED BY <1>1, <3>1 DEF IInv, AnswersAreTrue, AnswerTrue, SessionRevoked
  <2>4. ASSUME NEW x \in Req, Arrive(x) \/ Deliver(x) \/ Lose(x) PROVE FALSE
    <3>1. Idle.pc # "answered"
      BY DEF Idle
    <3>3. ASSUME NEW u \in User, BeginCreate(x, u) PROVE FALSE
      <4> DEFINE request == [Arrived EXCEPT !.op = "create", !.user = u]
      <4>1. request.pc = "waiting" /\ reqs' = [reqs EXCEPT ![x] = request]
        BY <3>3 DEF BeginCreate, Begin, Arrived, Idle
      <4> HIDE DEF request
      <4> QED BY <4>1, <2>2
    <3>4. ASSUME NEW t \in Token, BeginRefresh(x, t) PROVE FALSE
      <4> DEFINE request == [Arrived EXCEPT !.op = "refresh", !.token = t,
                                            !.session = tokens[t].session_id]
      <4>1. request.pc = "waiting" /\ reqs' = [reqs EXCEPT ![x] = request]
        BY <3>4 DEF BeginRefresh, Begin, Arrived, Idle
      <4> HIDE DEF request
      <4> QED BY <4>1, <2>2
    <3>5. ASSUME NEW s \in Session, NEW scope \in Scope, BeginSignOut(x, s, scope) PROVE FALSE
      <4> DEFINE request == [Arrived EXCEPT !.op = scope, !.session = s,
                                            !.user = sessions[s].user_id]
      <4>1. request.pc = "waiting" /\ reqs' = [reqs EXCEPT ![x] = request]
        BY <3>5 DEF BeginSignOut, Begin, Arrived, Idle
      <4> HIDE DEF request
      <4> QED BY <4>1, <2>2
    <3> QED BY <2>2, <2>4, <3>1, <3>3, <3>4, <3>5 DEF Arrive, Deliver, Lose
  <2>5. ASSUME NEW x \in Req, Fail(x) PROVE FALSE
    BY <1>1, <2>1, <2>5 DEF Fail, answer, Request
  <2>6. ASSUME NEW x \in Req, Serve(x) PROVE x = r
    BY <1>1, <2>1, <2>6
       DEF Serve, CreateRefused, Create, Rotate, ClassifyReplay, RefreshRefused, containReuse,
           SignOut, answer, grant
  <2>7. ASSUME Serve(r) PROVE containReuse(r)
    <3>1. reqs[r].pc = "waiting" => validateCurrentLineage(reqs[r].token)
      BY <1>1 DEF IInv, RequestInv, RequestOK, StoreInv, LineageIntact, Stored
    <3> QED
      BY <1>1, <2>1, <2>7, <3>1
         DEF Serve, CreateRefused, Create, Rotate, Rotatable, ClassifyReplay, RefreshRefused,
             SignOut, Waiting, Scope, Request
  <2>8. UNCHANGED reqs => FALSE
    BY <1>1
  <2> QED BY <1>1, <2>3, <2>4, <2>5, <2>6, <2>7, <2>8 DEF Next, vars, DeleteUser, BanUser, Tick
<1>2. IInv /\ IInv' /\ [Next]_vars =>
        [\A r \in Req :
           /\ reqs[r].pc # "answered" /\ reqs'[r].pc = "answered"
           /\ reqs[r].op = "refresh" /\ reqs'[r].answer # "internal_error"
           /\ Replayed(reqs[r].token)
           => SessionRevoked(reqs[r].session)']_vars
  BY <1>1
<1> QED BY <1>2, InitInv, StepInv, PTL DEF Spec, NoReplayBrushedOff

--------------------------------------------------------------------------------
(* Sessions implements SessionFamily.                                      *)


\* The sets the refinement mapping gives to the abstract variables.
Current(s) == {t \in TokensOf({s}) : Live(t)}
Spent == {t \in Token : tokens[t] # None /\ ~Live(t)}

\* A token is current for its own session only, and spent or current once stored.
LEMMA CurrentOrSpent ==
  /\ \A s \in Session, t \in Token :
       t \in Current(s) <=> tokens[t] # None /\ tokens[t].session_id = s /\ Live(t)
  /\ \A t \in Token : t \in Spent <=> tokens[t] # None /\ ~Live(t)
BY DEF Current, Spent, TokensOf

\* Stamping some sessions and all of their tokens is an abstract revocation.
LEMMA RevokeImplements ==
  ASSUME StoreTypeOK, StoreInv, StoreTypeOK', Kept,
         NEW S \in SUBSET Session, \A s \in S : sessions[s] # None,
         NEW now \in Nat, now > 0,
         sessions' = stampSessions(S, now),
         tokens' = stampTokens(TokensOf(S), now)
  PROVE  Family!Next
<1>1. \A t \in Token :
        /\ tokens[t] = None => tokens'[t] = None
        /\ tokens[t] # None /\ tokens[t].session_id \in S =>
             /\ tokens'[t] # None /\ tokens'[t].session_id = tokens[t].session_id
             /\ ~Live(t)'
        /\ tokens[t] # None /\ tokens[t].session_id \notin S => tokens'[t] = tokens[t]
  <2> TAKE t \in Token
  <2>1. CASE tokens[t] # None /\ tokens[t].session_id \in S
    <3>1. tokens'[t] = [tokens[t] EXCEPT !.revoked_at = now] /\ tokens[t] \in TokenRow
      BY <2>1 DEF stampTokens, TokensOf, StoreTypeOK
    <3>2. tokens'[t].revoked_at = now
      BY <3>1 DEF TokenRow
    <3> QED BY <2>1, <3>2 DEF Kept, Live, Never
  <2>2. CASE tokens[t] = None \/ tokens[t].session_id \notin S
    BY <2>2 DEF stampTokens, TokensOf
  <2> QED BY <2>1, <2>2
<1>2. \A s \in Session :
        /\ s \in S => sessions'[s] # None /\ sessions'[s].revoked_at = now
        /\ s \notin S => sessions'[s] = sessions[s]
  <2> TAKE s \in Session
  <2>1. CASE s \in S
    <3>1. sessions'[s] = [sessions[s] EXCEPT !.revoked_at = now] /\ sessions[s] \in SessionRow
      BY <2>1 DEF stampSessions, StoreTypeOK
    <3> QED BY <2>1, <3>1 DEF Kept, SessionRow
  <2>2. CASE s \notin S
    BY <2>2 DEF stampSessions
  <2> QED BY <2>1, <2>2
<1>3. {s \in Session : sessions'[s] # None} = {s \in Session : sessions[s] # None}
  BY <1>2
<1>4. {s \in Session : SessionRevoked(s)'} = {s \in Session : SessionRevoked(s)} \cup S
  BY <1>2 DEF SessionRevoked, Never
<1>5. \A s \in Session : Current(s)' = IF s \in S THEN {} ELSE Current(s)
  BY <1>1 DEF Current, TokensOf, Live
<1>6. Spent' = Spent \cup UNION {Current(s) : s \in S}
  <2>1. ASSUME NEW t \in Spent' PROVE t \in Spent \cup UNION {Current(s) : s \in S}
    BY <1>1, <2>1 DEF Spent, Current, TokensOf, Live
  <2>2. ASSUME NEW t \in Spent PROVE t \in Spent'
    BY <1>1, <2>2 DEF Spent, Live
  <2>3. ASSUME NEW s \in S, NEW t \in Current(s) PROVE t \in Spent'
    BY <1>1, <2>3 DEF Spent, Current, TokensOf
  <2> QED BY <2>1, <2>2, <2>3
<1>7. Family!Revoke(S)
  <2>1. UNION {[x \in Session |-> Current(x)][s] : s \in S} = UNION {Current(s) : s \in S}
    OBVIOUS
  <2>2. [s \in Session |-> Current(s)]' =
          [s \in Session |-> IF s \in S THEN {} ELSE [x \in Session |-> Current(x)][s]]
    BY <1>5
  <2> QED BY <1>3, <1>4, <1>6, <2>1, <2>2 DEF Family!Revoke, Current, Spent
<1> QED BY <1>7 DEF Family!Next

\* A free row is a token the abstract family has never seen.
LEMMA FreeIsFresh ==
  ASSUME NEW t \in Token, tokens[t] = None
  PROVE  Family!Fresh(t)
BY DEF Family!Fresh, TokensOf

\* A sign-in is an abstract opening.
LEMMA CreateImplements ==
  ASSUME IInv, NEW r \in Req, NEW s \in Session, NEW t \in Token, Create(r, s, t)
  PROVE  Family!Next
<1> USE TtlAssumption
<1>1. /\ sessions[s] = None /\ tokens[t] = None
      /\ insertSession(s, t, reqs[r].user, reqs[r].now)
  BY DEF Create
<1>2. /\ sessions'[s] # None /\ sessions'[s].revoked_at = Never
      /\ \A x \in Session : x # s => sessions'[x] = sessions[x]
  <2>1. reqs[r].user \in User /\ reqs[r].now + Ttl \in Nat
    BY DEF IInv, TypeOK, RequestInv, RequestOK, Create, Waiting, Request
  <2>2. sessions'[s] \in SessionRow
    BY <1>1, <2>1 DEF insertSession, IInv, TypeOK, SessionRow, Never
  <2> QED BY <1>1, <2>2, NoneAssumption DEF insertSession, IInv, TypeOK
<1>3. /\ tokens'[t] # None /\ tokens'[t].session_id = s /\ Live(t)'
      /\ \A x \in Token : x # t => tokens'[x] = tokens[x]
  <2>1. reqs[r].now + Ttl \in Nat
    BY DEF IInv, TypeOK, Request
  <2>2. tokens'[t] \in TokenRow
    BY <1>1, <2>1 DEF insertSession, IInv, TypeOK, TokenRow, Never
  <2> QED BY <1>1, <2>2, NoneAssumption DEF insertSession, IInv, TypeOK, Live
<1>4. {x \in Session : sessions'[x] # None} = {x \in Session : sessions[x] # None} \cup {s}
  BY <1>2
<1>5. {x \in Session : SessionRevoked(x)'} = {x \in Session : SessionRevoked(x)}
  BY <1>1, <1>2 DEF SessionRevoked
<1>6. \A x \in Token : tokens[x] # None => tokens[x].session_id # s
  BY <1>1 DEF IInv, StoreInv, References, Exists
<1>7. \A x \in Session : Current(x)' = IF x = s THEN {t} ELSE Current(x)
  BY <1>1, <1>3, <1>6 DEF Current, TokensOf, Live
<1>8. Spent' = Spent
  BY <1>1, <1>3 DEF Spent, Live
<1>9. Family!Open(s, t)
  <2>1. [x \in Session |-> Current(x)]' = [[x \in Session |-> Current(x)] EXCEPT ![s] = {t}]
    BY <1>7
  <2> QED BY <1>1, <1>4, <1>5, <1>8, <2>1, FreeIsFresh DEF Family!Open, Current, Spent
<1> QED BY <1>9 DEF Family!Next

\* A rotation is an abstract hand-over: the rotated token was the only current one.
LEMMA RotateImplements ==
  ASSUME StoreTypeOK, StoreInv,
         NEW t \in Token, tokens[t] # None,
         NEW n \in Token, tokens[n] = None,
         NEW s \in Session, s = tokens[t].session_id,
         NEW now \in Nat, now > 0,
         Rotatable(t, now), rotate(t, n, now), sessions' = sessions
  PROVE  Family!Next
<1>1. t # n
  OBVIOUS
<1>2. sessions[s] # None /\ tokens[t] \in TokenRow
  BY DEF StoreTypeOK, StoreInv, References, Exists
<1>3. Live(t) /\ ~SessionRevoked(s)
  BY DEF Rotatable, Replayed, Live, SessionRevoked
<1>4. Current(s) = {t}
  BY <1>1, <1>3 DEF StoreInv, AtMostOneLiveToken, Current, TokensOf
<1>5. StoreTypeOK' /\ Kept /\ tokens'[n] # None
  BY RotateStore
<1>6. tokens'[t] # None /\ ~Live(t)'
  <2>1. tokens'[t] = [tokens[t] EXCEPT !.used_at = now, !.replacement_id = n]
    BY <1>1, <1>2 DEF rotate, StoreTypeOK
  <2>2. tokens'[t].used_at = now
    BY <1>2, <2>1 DEF TokenRow
  <2> QED BY <1>1, <1>5, <2>2 DEF Kept, Live, Never
<1>7. tokens'[n].session_id = s /\ Live(n)'
  <2>1. tokens'[n] = replacementRow(t, now)
    BY <1>1, <1>2 DEF rotate, StoreTypeOK
  <2> QED BY <1>5, <2>1 DEF replacementRow, Live
<1>8. \A x \in Token : x # t /\ x # n => tokens'[x] = tokens[x]
  BY DEF rotate, StoreTypeOK
<1>9. \A x \in Session : SessionRevoked(x)' <=> SessionRevoked(x)
  BY <1>2 DEF SessionRevoked
<1>10. \A x \in Session : Current(x)' = IF x = s THEN {n} ELSE Current(x)
  <2> TAKE x \in Session
  <2>1. CASE x = s
    <3>1. \A y \in Token : y \in Current(s)' <=> y = n
      BY <1>1, <1>4, <1>5, <1>6, <1>7, <1>8 DEF Current, TokensOf, Live
    <3> QED BY <2>1, <3>1 DEF Current, TokensOf
  <2>2. CASE x # s
    <3>1. \A y \in Token : y \in Current(x)' <=> y \in Current(x)
      BY <2>2, <1>1, <1>6, <1>7, <1>8 DEF Current, TokensOf, Live
    <3> QED BY <2>2, <3>1 DEF Current, TokensOf
  <2> QED BY <2>1, <2>2
<1>11. Spent' = Spent \cup {t}
  <2>1. \A y \in Token : y \in Spent' <=> y \in Spent \/ y = t
    BY <1>1, <1>3, <1>6, <1>7, <1>8 DEF Spent, Live
  <2> QED BY <2>1, <1>1 DEF Spent
<1>12. Family!HandOver(s, t, n)
  <2>1. [x \in Session |-> Current(x)]' = [[x \in Session |-> Current(x)] EXCEPT ![s] = {n}]
    BY <1>10
  <2> QED
    BY <1>1, <1>2, <1>3, <1>4, <1>9, <1>11, <2>1, FreeIsFresh
       DEF Family!HandOver, Current, Spent
<1> QED BY <1>1, <1>2, <1>12 DEF Family!Next

\* A step that leaves the tables alone is an abstract stutter.
LEMMA StutterImplements ==
  ASSUME UNCHANGED <<sessions, tokens>>
  PROVE  UNCHANGED Family!vars
<1>1. \A s \in Session : SessionRevoked(s)' <=> SessionRevoked(s)
  BY DEF SessionRevoked
<1>2. \A s \in Session, t \in Token : (t \in TokensOf({s}) /\ Live(t))' <=> t \in TokensOf({s}) /\ Live(t)
  BY DEF TokensOf, Live
<1>3. {s \in Session : SessionRevoked(s)}' = {s \in Session : SessionRevoked(s)}
  BY <1>1
<1>4. [s \in Session |-> {t \in TokensOf({s}) : Live(t)}]' = [s \in Session |-> {t \in TokensOf({s}) : Live(t)}]
  BY DEF TokensOf, Live
<1>5. {t \in Token : tokens[t] # None /\ ~Live(t)}' = {t \in Token : tokens[t] # None /\ ~Live(t)}
  BY DEF Live
<1> QED BY <1>3, <1>4, <1>5 DEF Family!vars

\* Every step of Sessions is a step or a stutter of the abstract family.
LEMMA StepImplements == IInv /\ [Next]_vars => [Family!Next]_(Family!vars)
<1> SUFFICES ASSUME IInv, [Next]_vars PROVE Family!Next \/ UNCHANGED Family!vars
  OBVIOUS
<1>1. /\ StoreTypeOK /\ StoreInv /\ IInv'
      /\ clock \in Nat /\ clock > 0 /\ StoreTypeOK'
      /\ \A r \in Req : reqs[r] \in Request /\ RequestOK(r)
  <2>1. IInv'
    BY StepInv
  <2> QED BY <2>1 DEF IInv, TypeOK, StoreTypeOK, RequestInv
<1>2. ASSUME NEW r \in Req, NEW s \in Session, NEW t \in Token, Create(r, s, t)
      PROVE  Family!Next
  BY <1>2, CreateImplements
<1>3. ASSUME NEW r \in Req, NEW n \in Token, Rotate(r, n) PROVE Family!Next
  <2>1. /\ reqs[r].token \in Token /\ tokens[reqs[r].token] # None
        /\ reqs[r].now \in Nat /\ reqs[r].now > 0
    BY <1>1, <1>3 DEF RequestOK, Rotate, Waiting, Request, Stored
  <2>2. tokens[reqs[r].token].session_id \in Session
    BY <1>1, <2>1 DEF StoreInv, References, Exists
  <2> QED BY <1>1, <1>3, <2>1, <2>2, RotateImplements DEF Rotate
<1>4. ASSUME NEW S \in SUBSET Session, \A x \in S : sessions[x] # None,
             NEW now \in Nat, now > 0,
             sessions' = stampSessions(S, now), tokens' = stampTokens(TokensOf(S), now)
      PROVE  Family!Next
  <2>1. Kept
    BY <1>1, <1>4, RevokeStore
  <2> QED BY <1>1, <1>4, <2>1, RevokeImplements
<1>5. ASSUME NEW r \in Req, containReuse(r) PROVE Family!Next
  <2> DEFINE t == reqs[r].token
             s == reqs[r].session
  <2>1. /\ t \in Token /\ tokens[t] # None /\ s = tokens[t].session_id
        /\ reqs[r].now \in Nat /\ reqs[r].now > 0
    BY <1>1, <1>5 DEF RequestOK, containReuse, Request, Stored
  <2>2. s \in Session /\ sessions[s] # None
    BY <1>1, <2>1 DEF StoreInv, References, Exists
  <2>3. FamilyOf(tokens[t].family_id) \cup TokensOf({s}) = TokensOf({s})
    BY <1>1, <2>1 DEF StoreInv, References, Stored, FamilyOf, TokensOf
  <2>4. {s} \in SUBSET Session /\ \A x \in {s} : sessions[x] # None
    BY <2>2
  <2>5. /\ sessions' = stampSessions({s}, reqs[r].now)
        /\ tokens' = stampTokens(TokensOf({s}), reqs[r].now)
    BY <1>5, <2>3 DEF containReuse, revokeFamilyAndSession
  <2> QED BY <1>4, <2>1, <2>4, <2>5
<1>6. ASSUME NEW u, NEW except, NEW now \in Nat, now > 0, revokeUserSessions(u, except, now)
      PROVE  Family!Next
  <2>1. /\ SessionsOf(u) \ except \in SUBSET Session
        /\ \A x \in SessionsOf(u) \ except : sessions[x] # None
    BY DEF SessionsOf
  <2> QED BY <1>4, <1>6, <2>1 DEF revokeUserSessions
<1>7. ASSUME NEW r \in Req, SignOut(r) PROVE Family!Next
  <2>1. /\ reqs[r].now \in Nat /\ reqs[r].now > 0 /\ Exists(reqs[r].session)
    BY <1>1, <1>7 DEF RequestOK, SignOut, Waiting, Request
  <2>2. CASE revokeSession(reqs[r].session, reqs[r].now)
    <3>1. /\ {reqs[r].session} \in SUBSET Session
          /\ \A x \in {reqs[r].session} : sessions[x] # None
      BY <2>1 DEF Exists
    <3> QED BY <1>4, <2>1, <2>2, <3>1 DEF revokeSession
  <2> QED BY <1>6, <1>7, <2>1, <2>2 DEF SignOut
<1>8. ASSUME NEW u \in User, DeleteUser(u) PROVE Family!Next
  BY <1>1, <1>6, <1>8 DEF DeleteUser
<1>9. CASE UNCHANGED <<sessions, tokens>>
  BY <1>9, StutterImplements
<1>10. Next \/ UNCHANGED vars
  OBVIOUS
<1> QED
  BY <1>2, <1>3, <1>5, <1>7, <1>8, <1>9, <1>10
     DEF Next, Arrive, Serve, vars, BeginCreate, BeginRefresh, BeginSignOut, Begin,
         CreateRefused, ClassifyReplay, RefreshRefused, Fail, Deliver, Lose, BanUser, Tick

LEMMA InitImplements == Init => Family!Init
BY DEF Init, Family!Init, TokensOf, Live, SessionRevoked

\* The store keeps the promise of SessionFamily: a session is opened once, handed
\* from one token to a token nobody held, and never carried again once revoked.
THEOREM Implementation == Spec => ImplementsFamily
BY InitInv, StepInv, InitImplements, StepImplements, PTL
   DEF Spec, ImplementsFamily, Family!Spec

\* By the real clock and not only by the one the request read, no step stores a
\* token for a user who is banned or deleted, or for a session that is revoked.
THEOREM NoTokenForInactiveUser == Spec => NoTokenForInactive
<1>1. ASSUME IInv, IInv', [Next]_vars,
             NEW t \in Token, tokens[t] = None, tokens'[t] # None
      PROVE  LET s == tokens'[t].session_id IN
             /\ ~SessionRevoked(s) /\ sessions'[s].revoked_at = Never
             /\ Active(sessions'[s].user_id, clock)
  <2>1. \A u \in User, now \in Nat : now <= clock /\ Active(u, now) => Active(u, clock)
    BY <1>1 DEF IInv, TypeOK, UserRow, Active, userIsBanned
  <2>2. \A r \in Req : reqs[r].pc # "idle" => reqs[r].now \in Nat /\ reqs[r].now <= clock
    BY <1>1 DEF IInv, TypeOK, RequestInv, RequestOK, Request
  <2>3. ASSUME NEW r \in Req, NEW s \in Session, NEW n \in Token, Create(r, s, n)
        PROVE  /\ ~SessionRevoked(tokens'[t].session_id)
               /\ sessions'[tokens'[t].session_id].revoked_at = Never
               /\ Active(sessions'[tokens'[t].session_id].user_id, clock)
    <3>1. t = n /\ tokens'[t].session_id = s
      BY <1>1, <2>3 DEF Create, insertSession, IInv, TypeOK
    <3>2. sessions[s] = None /\ sessions'[s].revoked_at = Never /\ sessions'[s].user_id = reqs[r].user
      BY <1>1, <2>3 DEF Create, insertSession, IInv, TypeOK
    <3>3. reqs[r].user \in User /\ Active(reqs[r].user, reqs[r].now) /\ reqs[r].pc # "idle"
      BY <1>1, <2>3 DEF Create, Waiting, IInv, RequestInv, RequestOK
    <3> QED BY <3>1, <3>2, <3>3, <2>1, <2>2 DEF SessionRevoked
  <2>4. ASSUME NEW r \in Req, NEW n \in Token, Rotate(r, n)
        PROVE  /\ ~SessionRevoked(tokens'[t].session_id)
               /\ sessions'[tokens'[t].session_id].revoked_at = Never
               /\ Active(sessions'[tokens'[t].session_id].user_id, clock)
    <3>1. /\ reqs[r].token \in Token /\ tokens[reqs[r].token] # None
          /\ sessions[tokens[reqs[r].token].session_id] # None
          /\ tokens[reqs[r].token].session_id \in Session
      BY <1>1, <2>4 DEF IInv, RequestInv, RequestOK, Rotate, Waiting, Stored, StoreInv,
                        References, Exists
    <3>2. t = n /\ tokens'[t] = replacementRow(reqs[r].token, reqs[r].now)
      BY <1>1, <2>4, <3>1 DEF Rotate, rotate, IInv, TypeOK
    <3>3. /\ tokens'[t].session_id = tokens[reqs[r].token].session_id
          /\ sessions' = sessions
      BY <2>4, <3>2 DEF Rotate, replacementRow
    <3>4. /\ Active(OwnerOf(reqs[r].token), reqs[r].now) /\ reqs[r].pc # "idle"
          /\ sessions[tokens[reqs[r].token].session_id].revoked_at = Never
      BY <2>4 DEF Rotate, Rotatable, Waiting
    <3>5. OwnerOf(reqs[r].token) \in User
      BY <1>1, <3>1 DEF OwnerOf, IInv, TypeOK, SessionRow
    <3> QED BY <3>3, <3>4, <3>5, <2>1, <2>2 DEF SessionRevoked, OwnerOf
  <2>5. \/ \E r \in Req, s \in Session, n \in Token : Create(r, s, n)
        \/ \E r \in Req, n \in Token : Rotate(r, n)
    \* A revocation stores nothing: it stamps rows that exist.
    <3>1. /\ \A T, now : t \notin T => tokens' # stampTokens(T, now)
          /\ \A S : t \notin TokensOf(S)
          /\ \A f : t \notin FamilyOf(f)
      BY <1>1 DEF stampTokens, TokensOf, FamilyOf
    <3>2. /\ \A S, now : tokens' # stampTokens(TokensOf(S), now)
          /\ \A f, S, now : tokens' # stampTokens(FamilyOf(f) \cup TokensOf(S), now)
      BY <3>1
    <3> QED
      BY <1>1, <3>2
         DEF Next, Arrive, Serve, vars, BeginCreate, BeginRefresh, BeginSignOut, Begin,
             CreateRefused, ClassifyReplay, RefreshRefused, Fail, Deliver, Lose, BanUser, Tick,
             containReuse, SignOut, DeleteUser, revokeFamilyAndSession, revokeSession,
             revokeUserSessions
  <2> QED BY <2>3, <2>4, <2>5
<1>2. IInv /\ IInv' /\ [Next]_vars =>
        [\A t \in Token : tokens[t] = None /\ tokens'[t] # None =>
           LET s == tokens'[t].session_id IN
           /\ ~SessionRevoked(s) /\ sessions'[s].revoked_at = Never
           /\ Active(sessions'[s].user_id, clock)]_vars
  BY <1>1
<1> QED BY <1>2, InitInv, StepInv, PTL DEF Spec, NoTokenForInactive
================================================================================
