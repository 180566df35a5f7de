--------------------------- MODULE RequestsProof ---------------------------
(***************************************************************************)
(* Proofs about Requests for any number of users, sessions, keys and       *)
(* requests, any permissions and requirements, and any bound on changes.   *)
(***************************************************************************)
EXTENDS Requests, TLAPS

\* Which fields of a request go with its program counter.
Shape(q) ==
  /\ q.pc \in {"user", "session", "check", "app"} => q.bearer # None
  /\ q.pc \in {"check", "app"} => q.route = "app"
  /\ q.pc \in {"route", "mutate"} =>
       q.route # "app" /\ (RequiresBearer(q) => q.bearer # None)
  /\ q.pc = "mutate" => q.route = "admin"
  /\ q.pc \notin {"check", "app"} => q.asked = {} /\ q.cache = {}
  /\ q.pc # "app" => q.granted = {} /\ q.denied = {}

\* What a step that judges by an old clock will accept has been seen good; a
\* key that is live now was live then, for it existed then.
Credited(q, h) ==
  /\ q.key # None => keys[q.key] # "absent"
  /\ q.pc = "key" /\ q.key # None =>
       (keys[q.key] = "live" /\ q.key \notin q.now => h.key)
  /\ q.pc \notin {"body", "key"} => h.key
  /\ q.pc = "session" => (SessionOf[q.bearer] \notin q.now => h.fresh)
  /\ q.pc \in {"route", "mutate", "check", "app"} /\ q.bearer # None =>
       h.fresh /\ h.login

\* The permissions a pending read would return are in the history.
Watched(q, h) ==
  /\ q.pc # "body" => \A sc \in Reading(q) :
       <<sc, Powers[Owner[SessionOf[q.bearer]]][sc]>> \in h.views
  /\ q.pc = "mutate" =>
       \/ q.key \in Scoped
       \/ \E v \in h.views : v[1] = Global /\ Administers(v[2])

\* Each scope has one entry, from the history or empty, and the answers of the
\* checks in the scope follow from it.
Told(q, h) ==
  /\ \A e \in q.cache : e[2] = {} \/ e \in h.views
  /\ \A e, f \in q.cache : e[1] = f[1] => e = f
  /\ \A c \in q.granted \cup q.denied : \E e \in q.cache : e[1] = c.scope
  /\ \A c \in q.granted, e \in q.cache : e[1] = c.scope => Satisfies(Index(e[2]), c)
  /\ \A c \in q.denied, e \in q.cache : e[1] = c.scope => ~Satisfies(Index(e[2]), c)

Row(r) == Busy(r) => /\ Shape(reqs[r]) /\ Credited(reqs[r], seen[r])
                     /\ Watched(reqs[r], seen[r]) /\ Told(reqs[r], seen[r])

IInv == TypeOK /\ \A r \in Req : Row(r)

-----------------------------------------------------------------------------
\* The index of a set of grants answers like permissionMatchRank on each of them.
THEOREM IndexSound ==
  ASSUME NEW P \in SUBSET Perm, NEW p \in Perm
  PROVE  HasPermission(Index(P), p) <=> \E g \in P : Matches(g, p)
<1>1. p \in Resource \X (Action \cup {Any}) \/ p = <<Any, Any>>
  BY DEF Perm
<1>2. \A g \in P : g \in Resource \X (Action \cup {Any}) \/ g = <<Any, Any>>
  BY DEF Perm
<1>3. p = <<p[1], p[2]>> /\ \A g \in P : g = <<g[1], g[2]>>
  BY <1>1, <1>2
<1>4. ASSUME NEW g \in P, Matches(g, p) PROVE HasPermission(Index(P), p)
  <2>1. CASE g = p
    BY <2>1 DEF HasPermission, Index
  <2>2. CASE g # p /\ g = <<p[1], Any>> /\ p[2] # Any
    <3>1. p[1] # Any
      BY <1>1, <2>2, PermAssumption
    <3>2. g[2] = Any /\ g[1] = p[1]
      BY <2>2
    <3> QED BY <2>2, <3>1, <3>2 DEF HasPermission, Index
  <2>3. CASE g = <<Any, Any>> /\ p[2] # Any
    BY <2>3 DEF HasPermission, Index
  <2> QED BY <1>4, <2>1, <2>2, <2>3 DEF Matches, MatchRank
<1>5. ASSUME HasPermission(Index(P), p) PROVE \E g \in P : Matches(g, p)
  <2>1. CASE p \in P
    BY <2>1 DEF Matches, MatchRank
  <2>2. CASE p[2] # Any /\ p[1] \in Index(P).resources
    <3>1. PICK g \in P : g[2] = Any /\ g[1] # Any /\ g[1] = p[1]
      BY <2>2 DEF Index
    <3>2. g = <<p[1], Any>>
      BY <1>3, <3>1
    <3> QED BY <2>2, <3>2 DEF Matches, MatchRank
  <2>3. CASE p[2] # Any /\ <<Any, Any>> \in P
    <3>1. p[1] # Any
      BY <1>1, <2>3, PermAssumption
    <3> QED BY <2>3, <3>1 DEF Matches, MatchRank
  <2> QED BY <1>5, <2>1, <2>2, <2>3 DEF HasPermission, Index
<1> QED BY <1>4, <1>5

-----------------------------------------------------------------------------
\* Every read of permissions returns permissions.
LEMMA PowersType ==
  ASSUME TypeOK
  PROVE  /\ Powers \in [User -> [Scopes -> SUBSET Perm]]
         /\ \A u \in User, sc \in Scopes : Powers[u][sc] = Effective(u, sc)
         /\ \A u, sc : Effective(u, sc) \in SUBSET Perm
<1>1. \A u, sc : Effective(u, sc) \in SUBSET Perm
  BY DEF Effective
<1> QED BY <1>1 DEF Powers

\* The scopes a request waits for are scopes, and its user is a user.
LEMMA ReadingType ==
  ASSUME NEW q \in Request
  PROVE  /\ Reading(q) \subseteq Scopes
         /\ q.bearer # None => Owner[SessionOf[q.bearer]] \in User
<1>1. Pending(q) \subseteq Scopes
  BY GrantAssumption DEF Request, Pending, Requirement
<1> QED BY <1>1, OwnerAssumption DEF Request, Reading, Scopes

\* What a step adds to the history of a request, and that it keeps the rest.
LEMMA Learns ==
  ASSUME TypeOK, TypeOK', NEW r, NEW b \in Seen, Witness(r, b), NEW q \in Req,
         reqs'[q] # None
  PROVE  LET h == IF q = r THEN b ELSE seen[q]
             n == reqs'[q]
             u == Owner[SessionOf[n.bearer]]
         IN  /\ h \in Seen /\ seen'[q] \in Seen
             /\ n.pc = "body" => seen'[q] = h
             /\ h.key => seen'[q].key
             /\ h.fresh => seen'[q].fresh
             /\ h.login => seen'[q].login
             /\ h.views \subseteq seen'[q].views
             /\ n.pc # "body" =>
                  /\ n.key \in GoodKeys' => seen'[q].key
                  /\ n.bearer \in Unlapsed' => seen'[q].fresh
                  /\ n.bearer \in GoodLogins' => seen'[q].login
                  /\ \A sc \in Reading(n) : <<sc, Powers'[u][sc]>> \in seen'[q].views
<1> DEFINE h == IF q = r THEN b ELSE seen[q]
           n == reqs'[q]
           u == Owner[SessionOf[n.bearer]]
           V == {<<sc, Powers'[u][sc]>> : sc \in Reading(n)}
<1>1. h \in Seen /\ seen'[q] \in Seen
  BY DEF TypeOK
<1>2. seen'[q] = Learnt(h, n)
  BY DEF Witness
<1>3. CASE n.pc = "body"
  BY <1>1, <1>2, <1>3 DEF Learnt
<1>4. CASE n.pc # "body"
  <2>1. seen'[q] = [key   |-> h.key \/ n.key \in GoodKeys',
                    fresh |-> h.fresh \/ n.bearer \in Unlapsed',
                    login |-> h.login \/ n.bearer \in GoodLogins',
                    views |-> h.views \cup V]
    BY <1>2, <1>4 DEF Learnt
  <2>2. /\ seen'[q].key = (h.key \/ n.key \in GoodKeys')
        /\ seen'[q].fresh = (h.fresh \/ n.bearer \in Unlapsed')
        /\ seen'[q].login = (h.login \/ n.bearer \in GoodLogins')
        /\ seen'[q].views = h.views \cup V
    BY <2>1
  <2> HIDE DEF h, n, V
  <2>3. \A sc \in Reading(n) : <<sc, Powers'[u][sc]>> \in V
    BY DEF V
  <2> QED BY <1>1, <1>4, <2>2, <2>3 DEF h, n
<1> QED BY <1>3, <1>4

-----------------------------------------------------------------------------
\* Keys are never absent again, and never live again.
KeysKeep == \A k \in Key : keys[k] # "absent" =>
              keys'[k] # "absent" /\ (keys'[k] = "live" => keys[k] = "live")

StoreOK ==
  /\ keys \in [Key -> {"absent", "live", "revoked"}]
  /\ sessions \in [Session -> {"live", "revoked"}]
  /\ lapsed \subseteq Lapsing /\ banned \subseteq User /\ deleted \subseteq User
  /\ grants \subseteq Grantable /\ changes \in 0..MaxChanges

\* What the rest of the world does keeps the store well-typed.
LEMMA EnvironmentStore ==
  ASSUME StoreOK, Environment
  PROVE  StoreOK' /\ KeysKeep
<1>1. changes' \in 0..MaxChanges
  BY BoundAssumption DEF StoreOK, Environment
<1>2. \A S \in SUBSET Session : End(S) => sessions' \in [Session -> {"live", "revoked"}]
  BY DEF End, StoreOK
<1>3. CASE \E k \in Key : CreateKey(k) \/ RevokeKey(k)
  BY <1>1, <1>3 DEF CreateKey, RevokeKey, StoreOK, KeysKeep
<1>4. CASE \E c \in Lapsing : Lapse(c)
  BY <1>1, <1>4 DEF Lapse, StoreOK, KeysKeep
<1>5. CASE \E s \in Session : EndSession(s)
  BY <1>1, <1>2, <1>5 DEF EndSession, StoreOK, KeysKeep
<1>6. CASE \E u \in User : SetBanned(u)
  BY <1>1, <1>6 DEF SetBanned, StoreOK, KeysKeep
<1>7. CASE \E u \in User : DeleteUser(u)
  BY <1>1, <1>2, <1>7 DEF DeleteUser, StoreOK, KeysKeep
<1>8. CASE \E g \in Grantable : Assign(g)
  BY <1>1, <1>8 DEF Assign, StoreOK, KeysKeep
<1> QED BY <1>3, <1>4, <1>5, <1>6, <1>7, <1>8 DEF Environment

\* So does every step of a request.
LEMMA RequestStore ==
  ASSUME TypeOK, NEW r \in Req, Receive(r) \/ ReceiveBody(r) \/ Step(r) \/ Ask(r) \/ Fail(r)
  PROVE  StoreOK' /\ KeysKeep
<1>1. StoreOK
  BY DEF TypeOK, StoreOK
<1>2. \A S : End(S) => sessions' \in [Session -> {"live", "revoked"}]
  BY <1>1 DEF End, StoreOK
<1>3. CASE UNCHANGED <<store, changes>>
  BY <1>1, <1>3 DEF StoreOK, store, KeysKeep
<1>4. CASE Logout(r)
  BY <1>1, <1>2, <1>4 DEF Logout, StoreOK, KeysKeep
<1>5. CASE Mutate(r)
  <2>1. CASE UNCHANGED store
    BY <1>1, <1>5, <2>1 DEF Mutate, StoreOK, store, KeysKeep
  <2>2. CASE \E u \in User : SetBanned(u)
    BY <1>1, <1>5, <2>2 DEF Mutate, SetBanned, StoreOK, KeysKeep
  <2>3. CASE \E u \in User : DeleteUser(u)
    BY <1>1, <1>2, <1>5, <2>3 DEF Mutate, DeleteUser, StoreOK, KeysKeep
  <2> QED BY <1>5, <2>1, <2>2, <2>3 DEF Mutate
<1> QED BY <1>3, <1>4, <1>5 DEF Receive, ReceiveBody, Step, Ask, Fail, LookUpKey,
     FindUser, AuthorizeSession, Serve, AuthorizeAdmin, Load, Admit, Decide, Leave

\* An acting request moves alone, to a request of the right shape or to its end.
LEMMA Moves ==
  ASSUME IInv, NEW r \in Req, Receive(r) \/ ReceiveBody(r) \/ Step(r) \/ Ask(r) \/ Fail(r)
  PROVE  /\ reqs' = [reqs EXCEPT ![r] = reqs'[r]]
         /\ reqs'[r] \in {None} \cup Request
         /\ reqs'[r] # None => Shape(reqs'[r])
<1> DEFINE q == reqs[r]
           Good(n) == /\ reqs' = [reqs EXCEPT ![r] = n]
                      /\ n \in {None} \cup Request
                      /\ n # None => Shape(n)
<1>1. SUFFICES \E n : Good(n)
  BY DEF IInv, TypeOK
<1>2. reqs \in [Req -> {None} \cup Request] /\ lapsed \subseteq Lapsing /\ Row(r)
  BY DEF IInv, TypeOK
<1>3. CASE Answer(r)
  <2>1. Good(None)
    BY <1>3 DEF Answer
  <2> QED BY <2>1
<1>4. CASE Receive(r)
  <2>1. PICK route \in Route, pc \in {"body", "key"}, browser \in BOOLEAN,
             key \in {k \in Key : keys[k] # "absent"} \cup {None},
             bearer \in Bearer \cup {None}, token \in Session \cup {None} :
           /\ pc = "body" => route \in {"public", "user", "logout", "admin"}
           /\ browser => key \in Secret
           /\ token # None => route = "logout" /\ pc = "body"
           /\ reqs' = [reqs EXCEPT ![r] = Arrived(pc, route, key, bearer, browser, token)]
    BY <1>4 DEF Receive
  <2> DEFINE n == Arrived(pc, route, key, bearer, browser, token)
  <2>2. n \in Request
    BY <1>2 DEF Request, Arrived
  <2>3. Shape(n)
    BY DEF Shape, Arrived
  <2>4. Good(n)
    BY <2>1, <2>2, <2>3
  <2> QED BY <2>4
<1>5. ASSUME Busy(r) PROVE q \in Request /\ Shape(q)
  BY <1>2, <1>5 DEF Busy, Row
<1>6. CASE ReceiveBody(r)
  <2> DEFINE n == [q EXCEPT !.pc = "key", !.now = lapsed]
  <2>1. q \in Request /\ Shape(q) /\ q.pc = "body"
    BY <1>5, <1>6 DEF ReceiveBody, At
  <2>2. n \in Request /\ Shape(n)
    BY <1>2, <2>1 DEF Request, Shape
  <2>3. reqs' = [reqs EXCEPT ![r] = n]
    BY <1>2, <1>6 DEF ReceiveBody
  <2>4. Good(n)
    BY <2>2, <2>3
  <2> QED BY <2>4
<1>7. CASE LookUpKey(r)
  <2> DEFINE n == [q EXCEPT !.pc = IF q.bearer = None THEN "route" ELSE "user", !.now = {}]
  <2>1. q \in Request /\ Shape(q) /\ q.pc = "key"
    BY <1>5, <1>7 DEF LookUpKey, At
  <2>2. CASE KeyAccepted(q) /\ BearerAccepted(q)
    <3>1. n \in Request
      BY <2>1 DEF Request
    <3>2. q.bearer = None => ~RequiresBearer(q)
      BY <2>2 DEF BearerAccepted
    <3>3. Shape(n)
      BY <2>1, <3>2 DEF Request, Shape, RequiresBearer
    <3>4. reqs' = [reqs EXCEPT ![r] = n]
      BY <1>2, <1>7, <2>2 DEF LookUpKey, Goto
    <3>5. Good(n)
      BY <3>1, <3>3, <3>4
    <3> QED BY <3>5
  <2> QED BY <1>3, <1>7, <2>2 DEF LookUpKey
<1>8. CASE FindUser(r)
  <2> DEFINE n == [q EXCEPT !.pc = "session", !.now = lapsed]
  <2>1. q \in Request /\ Shape(q) /\ q.pc = "user"
    BY <1>5, <1>8 DEF FindUser, At
  <2>2. n \in Request /\ Shape(n)
    BY <1>2, <2>1 DEF Request, Shape
  <2>3. reqs' = [reqs EXCEPT ![r] = n] \/ Answer(r)
    BY <1>2, <1>8 DEF FindUser
  <2>4. Good(n) \/ Answer(r)
    BY <2>2, <2>3
  <2> QED BY <1>3, <2>4
<1>9. CASE AuthorizeSession(r)
  <2>1. q \in Request /\ Shape(q) /\ q.pc = "session"
    BY <1>5, <1>9 DEF AuthorizeSession, At
  <2>2. ASSUME q.route = "app", NEW c \in Requirements,
               reqs' = [reqs EXCEPT ![r].pc = "check", ![r].now = {}, ![r].asked = {c}]
        PROVE  \E n : Good(n)
    <3> DEFINE n == [q EXCEPT !.pc = "check", !.now = {}, !.asked = {c}]
    <3>1. n \in Request /\ Shape(n)
      BY <2>1, <2>2 DEF Request, Shape
    <3>2. reqs' = [reqs EXCEPT ![r] = n]
      BY <1>2, <2>2
    <3>3. Good(n)
      BY <3>1, <3>2
    <3> QED BY <3>3
  <2>3. ASSUME q.route # "app", Goto(r, "route") PROVE \E n : Good(n)
    <3> DEFINE n == [q EXCEPT !.pc = "route", !.now = {}]
    <3>1. n \in Request /\ Shape(n)
      BY <2>1, <2>3 DEF Request, Shape
    <3>2. reqs' = [reqs EXCEPT ![r] = n]
      BY <1>2, <2>3 DEF Goto
    <3>3. Good(n)
      BY <3>1, <3>2
    <3> QED BY <3>3
  <2> QED BY <1>3, <1>9, <2>2, <2>3 DEF AuthorizeSession
<1>10. CASE AuthorizeAdmin(r)
  <2> DEFINE n == [q EXCEPT !.pc = "mutate", !.now = {}]
  <2>1. q \in Request /\ Shape(q) /\ q.pc = "route" /\ q.route = "admin"
    BY <1>5, <1>10 DEF AuthorizeAdmin, At
  <2>2. n \in Request /\ Shape(n)
    BY <2>1 DEF Request, Shape, RequiresBearer
  <2>3. reqs' = [reqs EXCEPT ![r] = n] \/ Answer(r)
    BY <1>2, <1>10 DEF AuthorizeAdmin, Goto
  <2>4. Good(n) \/ Answer(r)
    BY <2>2, <2>3
  <2> QED BY <1>3, <2>4
<1>11. CASE Load(r)
  <2>1. q \in Request /\ Shape(q) /\ q.pc \in {"check", "app"}
    BY <1>5, <1>11 DEF Load, At
  <2>2. PICK sc \in Pending(q) : \E P \in {Effective(Subject(r), sc), {}} :
          reqs' = [reqs EXCEPT ![r].cache = @ \cup {<<sc, P>>}]
    BY <1>11 DEF Load
  <2>3. PICK P \in {Effective(Subject(r), sc), {}} :
          reqs' = [reqs EXCEPT ![r].cache = @ \cup {<<sc, P>>}]
    BY <2>2
  <2> DEFINE n == [q EXCEPT !.cache = @ \cup {<<sc, P>>}]
  <2>4. sc \in Scopes /\ P \in SUBSET Perm
    BY <2>1, <2>2, PowersType, GrantAssumption DEF Pending, Request, Requirement, IInv
  <2>5. n \in Request /\ Shape(n)
    BY <2>1, <2>4 DEF Request, Shape
  <2>6. reqs' = [reqs EXCEPT ![r] = n]
    BY <1>2, <2>3
  <2>7. Good(n)
    BY <2>5, <2>6
  <2> QED BY <2>7
<1>12. CASE Admit(r)
  <2> DEFINE n == [q EXCEPT !.pc = "app", !.cache = {}, !.asked = {}]
  <2>1. q \in Request /\ Shape(q) /\ q.pc = "check"
    BY <1>5, <1>12 DEF Admit, At
  <2>2. n \in Request /\ Shape(n)
    BY <2>1 DEF Request, Shape
  <2>3. reqs' = [reqs EXCEPT ![r] = n] \/ Answer(r)
    BY <1>2, <1>12 DEF Admit
  <2>4. Good(n) \/ Answer(r)
    BY <2>2, <2>3
  <2> QED BY <1>3, <2>4
<1>13. CASE Ask(r)
  <2>1. q \in Request /\ Shape(q) /\ q.pc = "app"
    BY <1>5, <1>13 DEF Ask, At
  <2>2. PICK c \in Requirements : reqs' = [reqs EXCEPT ![r].asked = @ \cup {c}]
    BY <1>13 DEF Ask
  <2> DEFINE n == [q EXCEPT !.asked = @ \cup {c}]
  <2>3. n \in Request /\ Shape(n)
    BY <2>1 DEF Request, Shape
  <2>4. reqs' = [reqs EXCEPT ![r] = n]
    BY <1>2, <2>2
  <2>5. Good(n)
    BY <2>3, <2>4
  <2> QED BY <2>5
<1>14. CASE Decide(r)
  <2>1. q \in Request /\ Shape(q) /\ q.pc = "app"
    BY <1>5, <1>14 DEF Decide, At
  <2>2. PICK c \in q.asked :
          \/ reqs' = [reqs EXCEPT ![r].asked = @ \ {c}, ![r].granted = @ \cup {c}]
          \/ reqs' = [reqs EXCEPT ![r].asked = @ \ {c}, ![r].denied = @ \cup {c}]
    BY <1>14 DEF Decide
  <2> DEFINE n == [q EXCEPT !.asked = @ \ {c}, !.granted = @ \cup {c}]
             m == [q EXCEPT !.asked = @ \ {c}, !.denied = @ \cup {c}]
  <2>3. n \in Request /\ Shape(n) /\ m \in Request /\ Shape(m)
    BY <2>1, <2>2 DEF Request, Shape
  <2>4. reqs' = [reqs EXCEPT ![r] = n] \/ reqs' = [reqs EXCEPT ![r] = m]
    BY <1>2, <2>2
  <2>5. Good(n) \/ Good(m)
    BY <2>3, <2>4
  <2> QED BY <2>5
<1> QED BY <1>3, <1>4, <1>6, <1>7, <1>8, <1>9, <1>10, <1>11, <1>12, <1>13, <1>14
        DEF Step, Serve, Logout, Mutate, Leave, Fail

-----------------------------------------------------------------------------
\* A request of the right shape learns what a history can hold.
LEMMA SeenType ==
  ASSUME NEW b \in Seen, NEW n \in Request, Shape(n)
  PROVE  Learnt(b, n) \in Seen
<1>1. Powers' \in [User -> [Scopes -> SUBSET Perm]]
  BY DEF Powers, Effective
<1>2. Reading(n) # {} => n.bearer # None
  BY DEF Shape, Reading, Pending
<1>3. {<<sc, Powers'[Owner[SessionOf[n.bearer]]][sc]>> : sc \in Reading(n)}
        \in SUBSET (Scopes \X SUBSET Perm)
  BY <1>1, <1>2, ReadingType
<1> QED BY <1>3 DEF Learnt, Seen

LEMMA WitnessType ==
  ASSUME NEW r, NEW b \in Seen, Witness(r, b), seen \in [Req -> Seen],
         \A q \in Req : reqs'[q] # None => reqs'[q] \in Request /\ Shape(reqs'[q])
  PROVE  seen' \in [Req -> Seen]
<1>1. Nothing \in Seen
  BY DEF Nothing, Seen
<1>2. ASSUME NEW q \in Req
      PROVE  (IF reqs'[q] = None THEN Nothing
              ELSE Learnt(IF q = r THEN b ELSE seen[q], reqs'[q])) \in Seen
  BY <1>1, SeenType
<1> QED BY <1>2 DEF Witness

\* A request that does not move stays right while the store changes under it.
LEMMA Waits ==
  ASSUME IInv, TypeOK', KeysKeep, NEW r, NEW b \in Seen, Witness(r, b),
         NEW q \in Req, q # r, reqs'[q] = reqs[q]
  PROVE  Row(q)'
<1> SUFFICES ASSUME reqs[q] # None PROVE Row(q)'
  BY DEF Row, Busy
<1> DEFINE n == reqs[q]  h == seen[q]
<1>1. /\ Shape(n) /\ Credited(n, h) /\ Watched(n, h) /\ Told(n, h)
      /\ n \in Request
  BY DEF IInv, Row, Busy, TypeOK
<1>2. /\ n.pc = "body" => h' = h
      /\ h.key => h'.key
      /\ h.fresh => h'.fresh
      /\ h.login => h'.login
      /\ h.views \subseteq h'.views
      /\ n.pc # "body" => \A sc \in Reading(n) :
           <<sc, Powers'[Owner[SessionOf[n.bearer]]][sc]>> \in h'.views
  BY Learns DEF IInv
<1>3. n.key # None => n.key \in Key
  BY <1>1 DEF Request
<1>4. Credited(n, h)'
  BY <1>1, <1>2, <1>3 DEF Credited, KeysKeep
<1>5. Watched(n, h)'
  BY <1>1, <1>2 DEF Watched
<1>6. Told(n, h)'
  BY <1>1, <1>2 DEF Told
<1> QED BY <1>1, <1>4, <1>5, <1>6 DEF Row

-----------------------------------------------------------------------------
\* The request that acts: its new row, action by action.
LEMMA Acts ==
  ASSUME IInv, TypeOK', NEW r \in Req,
         Receive(r) \/ ReceiveBody(r) \/ Step(r) \/ Ask(r) \/ Fail(r)
  PROVE  Row(r)'
<1> SUFFICES ASSUME reqs'[r] # None PROVE Row(r)'
  BY DEF Row, Busy
<1> DEFINE q == reqs[r]  h == seen[r]
           Empty(n) == n.asked = {} /\ n.cache = {} /\ n.granted = {} /\ n.denied = {}
           Learned(b) ==
             /\ b.key => h'.key
             /\ b.fresh => h'.fresh
             /\ b.login => h'.login
             /\ b.views \subseteq h'.views
             /\ q'.pc # "body" =>
                  /\ q'.key \in GoodKeys' => h'.key
                  /\ q'.bearer \in Unlapsed' => h'.fresh
                  /\ q'.bearer \in GoodLogins' => h'.login
                  /\ \A sc \in Reading(q') :
                       <<sc, Powers'[Owner[SessionOf[q'.bearer]]][sc]>> \in h'.views
<1>1. /\ Shape(q') /\ q' \in Request
      /\ reqs' = [reqs EXCEPT ![r] = q']
  BY Moves
<1>2. /\ reqs \in [Req -> {None} \cup Request] /\ h \in Seen
      /\ q # None => /\ q \in Request /\ Shape(q) /\ Credited(q, h)
                     /\ Watched(q, h) /\ Told(q, h)
  BY DEF IInv, TypeOK, Row, Busy
<1>3. \A b \in Seen : Witness(r, b) => Learned(b)
  BY Learns DEF IInv
<1>4. Nothing \in Seen /\ \A x \in Seen : [x EXCEPT !.views = {}] \in Seen
  BY DEF Nothing, Seen
<1>5. ~Answer(r)
  BY <1>2 DEF Answer
<1>6. SUFFICES Credited(q, h)' /\ Told(q, h)'
                 /\ (q'.pc = "mutate" => \/ q'.key \in Scoped
                                         \/ \E v \in h'.views : v[1] = Global /\ Administers(v[2]))
  <2>1. \E b \in Seen : Witness(r, b)
    BY <1>2, <1>4 DEF Receive, ReceiveBody, Step, Ask, Fail, LookUpKey, FindUser,
       AuthorizeSession, Serve, Logout, Mutate, AuthorizeAdmin, Load, Admit, Decide, Leave
  <2>2. q'.pc # "body" => \A sc \in Reading(q') :
          <<sc, Powers'[Owner[SessionOf[q'.bearer]]][sc]>> \in h'.views
    BY <1>3, <2>1
  <2>3. Watched(q, h)'
    BY <1>6, <2>2 DEF Watched
  <2> QED BY <1>1, <1>6, <2>3 DEF Row
<1>7. Empty(q') => Told(q, h)'
  BY DEF Told
<1>8. CASE Receive(r)
  <2>1. PICK route \in Route, pc \in {"body", "key"}, browser \in BOOLEAN,
             key \in {k \in Key : keys[k] # "absent"} \cup {None},
             bearer \in Bearer \cup {None}, token \in Session \cup {None} :
           /\ pc = "body" => route \in {"public", "user", "logout", "admin"}
           /\ browser => key \in Secret
           /\ token # None => route = "logout" /\ pc = "body"
           /\ reqs' = [reqs EXCEPT ![r] = Arrived(pc, route, key, bearer, browser, token)]
    BY <1>8 DEF Receive
  <2>2. q' = Arrived(pc, route, key, bearer, browser, token)
    BY <1>2, <2>1
  <2>3. /\ q'.pc = pc /\ q'.key = key /\ Empty(q')
        /\ pc = "key" => q'.now = lapsed
    BY <2>2 DEF Arrived
  <2>4. Learned(Nothing) /\ UNCHANGED <<keys, lapsed>>
    BY <1>3, <1>4, <1>8 DEF Receive, store
  <2>5. Credited(q, h)'
    BY <1>1, <2>3, <2>4 DEF Credited, GoodKeys, Request
  <2> QED BY <1>7, <2>3, <2>5
<1>9. CASE ReceiveBody(r)
  <2>1. /\ q \in Request /\ Shape(q) /\ Credited(q, h) /\ q.pc = "body"
        /\ q' = [q EXCEPT !.pc = "key", !.now = lapsed]
    BY <1>2, <1>9 DEF ReceiveBody, At, Busy
  <2>2. q'.pc = "key" /\ q'.key = q.key /\ q'.now = lapsed /\ Empty(q')
    BY <2>1 DEF Request, Shape
  <2>3. Learned(Nothing) /\ UNCHANGED <<keys, lapsed>>
    BY <1>3, <1>4, <1>9 DEF ReceiveBody, store
  <2>4. Credited(q, h)'
    BY <1>1, <2>1, <2>2, <2>3 DEF Credited, GoodKeys, Request
  <2> QED BY <1>7, <2>2, <2>4
<1>10. CASE LookUpKey(r)
  <2>1. /\ q \in Request /\ Shape(q) /\ Credited(q, h) /\ q.pc = "key"
        /\ KeyAccepted(q) /\ BearerAccepted(q)
        /\ q' = [q EXCEPT !.pc = IF q.bearer = None THEN "route" ELSE "user", !.now = {}]
    BY <1>2, <1>5, <1>10 DEF LookUpKey, At, Busy, Goto
  <2>2. /\ q'.pc = IF q.bearer = None THEN "route" ELSE "user"
        /\ q'.key = q.key /\ q'.bearer = q.bearer /\ Empty(q')
    BY <2>1 DEF Request, Shape
  <2>3. Learned(h) /\ UNCHANGED keys
    BY <1>2, <1>3, <1>10 DEF LookUpKey, store
  <2>4. h.key
    BY <2>1 DEF Credited, KeyAccepted
  <2>5. Credited(q, h)'
    BY <2>1, <2>2, <2>3, <2>4 DEF Credited
  <2> QED BY <1>7, <2>2, <2>5
<1>11. CASE FindUser(r)
  <2>1. /\ q \in Request /\ Shape(q) /\ Credited(q, h) /\ q.pc = "user"
        /\ q.bearer \notin lapsed
        /\ q' = [q EXCEPT !.pc = "session", !.now = lapsed]
    BY <1>2, <1>5, <1>11 DEF FindUser, At, Busy
  <2>2. /\ q'.pc = "session" /\ q'.now = lapsed
        /\ q'.key = q.key /\ q'.bearer = q.bearer /\ Empty(q')
    BY <2>1 DEF Request, Shape
  <2>3. Learned(h) /\ UNCHANGED <<keys, lapsed>>
    BY <1>2, <1>3, <1>11 DEF FindUser, store
  <2>4. q.bearer \in Bearer
    BY <2>1 DEF Shape, Request
  <2>5. Credited(q, h)'
    BY <2>1, <2>2, <2>3, <2>4 DEF Credited, Unlapsed
  <2> QED BY <1>7, <2>2, <2>5
<1>12. CASE AuthorizeSession(r)
  <2>1. /\ q \in Request /\ Shape(q) /\ Credited(q, h) /\ q.pc = "session"
        /\ SessionAccepted(r)
        /\ \/ \E c \in Requirements :
                q' = [q EXCEPT !.pc = "check", !.now = {}, !.asked = {c}]
           \/ q' = [q EXCEPT !.pc = "route", !.now = {}]
    BY <1>2, <1>5, <1>12 DEF AuthorizeSession, At, Busy, Goto
  <2>2. /\ q'.pc \in {"check", "route"} /\ q'.key = q.key /\ q'.bearer = q.bearer
        /\ q'.cache = {} /\ q'.granted = {} /\ q'.denied = {}
    BY <2>1 DEF Request, Shape
  <2>3. Learned(h) /\ UNCHANGED store
    BY <1>2, <1>3, <1>12 DEF AuthorizeSession
  <2>4. q.bearer \in GoodLogins'
    BY <2>1, <2>3 DEF Shape, Request, SessionAccepted, Subject, GoodLogins, store
  <2>5. h.key /\ h.fresh
    BY <2>1 DEF Credited, SessionAccepted
  <2>6. Credited(q, h)'
    BY <2>1, <2>2, <2>3, <2>4, <2>5 DEF Credited, store
  <2>7. Told(q, h)'
    BY <2>2 DEF Told
  <2> QED BY <2>2, <2>6, <2>7
<1>13. CASE AuthorizeAdmin(r)
  <2>1. /\ q \in Request /\ Shape(q) /\ Credited(q, h) /\ Watched(q, h)
        /\ q.pc = "route" /\ q.route = "admin"
        /\ IF q.key \in Secret THEN q.key \in Scoped
           ELSE Administers(Effective(Subject(r), Global))
        /\ q' = [q EXCEPT !.pc = "mutate", !.now = {}]
    BY <1>2, <1>5, <1>13 DEF AuthorizeAdmin, At, Busy, Goto
  <2>2. q'.pc = "mutate" /\ q'.key = q.key /\ q'.bearer = q.bearer /\ Empty(q')
    BY <2>1 DEF Request, Shape
  <2>3. Learned(h) /\ UNCHANGED keys
    BY <1>2, <1>3, <1>13 DEF AuthorizeAdmin, store
  <2>4. Credited(q, h)'
    BY <2>1, <2>2, <2>3 DEF Credited
  <2>5. ASSUME q.key \notin Secret
        PROVE  \E v \in h'.views : v[1] = Global /\ Administers(v[2])
    <3>1. q.bearer # None
      BY <2>1, <2>5 DEF Shape, RequiresBearer
    <3>2. <<Global, Powers[Subject(r)][Global]>> \in h.views
      BY <2>1, <3>1 DEF Watched, Reading, Subject
    <3>3. Powers[Subject(r)][Global] = Effective(Subject(r), Global)
      BY <2>1, <3>1, ReadingType, PowersType DEF Subject, Scopes, IInv
    <3>4. <<Global, Effective(Subject(r), Global)>> \in h'.views
      BY <2>3, <3>2, <3>3
    <3> DEFINE v == <<Global, Effective(Subject(r), Global)>>
    <3>5. v[1] = Global /\ Administers(v[2])
      BY <2>1, <2>5
    <3> QED BY <3>4, <3>5
  <2> QED BY <1>7, <2>1, <2>2, <2>4, <2>5
<1>14. CASE Load(r)
  <2>1. q \in Request /\ Shape(q) /\ Credited(q, h) /\ Watched(q, h) /\ Told(q, h)
        /\ q.pc \in {"check", "app"}
    BY <1>2, <1>14 DEF Load, At, Busy
  <2>2. PICK sc \in Pending(q) : \E P \in {Effective(Subject(r), sc), {}} :
          reqs' = [reqs EXCEPT ![r].cache = @ \cup {<<sc, P>>}]
    BY <1>14 DEF Load
  <2>3. PICK P \in {Effective(Subject(r), sc), {}} :
          reqs' = [reqs EXCEPT ![r].cache = @ \cup {<<sc, P>>}]
    BY <2>2
  <2>4. q' = [q EXCEPT !.cache = @ \cup {<<sc, P>>}]
    BY <1>2, <2>3
  <2>5. /\ q'.pc = q.pc /\ q'.key = q.key /\ q'.bearer = q.bearer
        /\ q'.granted = q.granted /\ q'.denied = q.denied
        /\ q'.cache = q.cache \cup {<<sc, P>>}
    BY <2>1, <2>4 DEF Request
  <2>6. Learned(h) /\ UNCHANGED keys
    BY <1>2, <1>3, <1>14 DEF Load, store
  <2>7. Credited(q, h)'
    BY <2>1, <2>5, <2>6 DEF Credited
  <2> DEFINE e == <<sc, P>>
  <2>8. e[1] = sc /\ e[2] = P
    OBVIOUS
  <2>9. \A f \in q.cache : f[1] # sc
    BY <2>2 DEF Pending
  <2>10. e[2] = {} \/ e \in h'.views
    <3>1. Owner[SessionOf[q.bearer]] \in User /\ sc \in Scopes
      BY <2>1, <2>2, ReadingType DEF Shape, Reading
    <3>2. <<sc, Powers[Owner[SessionOf[q.bearer]]][sc]>> \in h.views
      BY <2>1, <2>2 DEF Watched, Reading
    <3>3. Powers[Owner[SessionOf[q.bearer]]][sc] = Effective(Subject(r), sc)
      BY <3>1, PowersType DEF Subject, IInv
    <3> QED BY <2>3, <2>6, <3>2, <3>3
  <2> HIDE DEF e
  <2>11. \A c \in q.granted \cup q.denied : c.scope # sc
    BY <2>1, <2>9 DEF Told
  <2>12. q'.cache = q.cache \cup {e}
    BY <2>5 DEF e
  <2>13. /\ \A f \in q'.cache : f[2] = {} \/ f \in h'.views
         /\ \A f, g \in q'.cache : f[1] = g[1] => f = g
         /\ \A c \in q'.granted \cup q'.denied : \E f \in q'.cache : f[1] = c.scope
    BY <2>1, <2>5, <2>6, <2>8, <2>9, <2>10, <2>12 DEF Told
  <2>14. /\ \A c \in q'.granted, f \in q'.cache :
              f[1] = c.scope => Satisfies(Index(f[2]), c)
         /\ \A c \in q'.denied, f \in q'.cache :
              f[1] = c.scope => ~Satisfies(Index(f[2]), c)
    BY <2>1, <2>5, <2>8, <2>11, <2>12 DEF Told
  <2>15. Told(q, h)'
    BY <2>13, <2>14 DEF Told
  <2> QED BY <2>1, <2>5, <2>7, <2>15
<1>15. CASE Admit(r)
  <2>1. /\ q \in Request /\ Shape(q) /\ Credited(q, h) /\ q.pc = "check"
        /\ q' = [q EXCEPT !.pc = "app", !.cache = {}, !.asked = {}]
    BY <1>2, <1>5, <1>15 DEF Admit, At, Busy
  <2>2. q'.pc = "app" /\ q'.key = q.key /\ q'.bearer = q.bearer /\ Empty(q')
    BY <2>1 DEF Request, Shape
  <2> DEFINE b == [h EXCEPT !.views = {}]
  <2>3. b \in Seen /\ b.key = h.key /\ b.fresh = h.fresh /\ b.login = h.login
    BY <1>2, <1>4 DEF Seen
  <2>4. Learned(b) /\ UNCHANGED keys
    BY <1>3, <1>15, <2>3 DEF Admit, store
  <2>5. Credited(q, h)'
    BY <2>1, <2>2, <2>3, <2>4 DEF Credited
  <2> QED BY <1>7, <2>2, <2>5
<1>16. CASE Ask(r)
  <2>1. /\ q \in Request /\ Shape(q) /\ Credited(q, h) /\ Told(q, h) /\ q.pc = "app"
        /\ \E c : q' = [q EXCEPT !.asked = @ \cup {c}]
    BY <1>2, <1>16 DEF Ask, At, Busy
  <2>2. /\ q'.pc = "app" /\ q'.key = q.key /\ q'.bearer = q.bearer
        /\ q'.granted = q.granted /\ q'.denied = q.denied /\ q'.cache = q.cache
    BY <2>1 DEF Request
  <2>3. Learned(h) /\ UNCHANGED keys
    BY <1>2, <1>3, <1>16 DEF Ask, store
  <2>4. Credited(q, h)'
    BY <2>1, <2>2, <2>3 DEF Credited
  <2>5. Told(q, h)'
    BY <2>1, <2>2, <2>3 DEF Told
  <2> QED BY <2>2, <2>4, <2>5
<1>17. CASE Decide(r)
  <2>1. q \in Request /\ Shape(q) /\ Credited(q, h) /\ Told(q, h) /\ q.pc = "app"
    BY <1>2, <1>17 DEF Decide, At, Busy
  <2>2. PICK c \in q.asked, e \in q.cache :
          /\ e[1] = c.scope
          /\ reqs' = IF Satisfies(Index(e[2]), c)
                      THEN [reqs EXCEPT ![r].asked = @ \ {c}, ![r].granted = @ \cup {c}]
                      ELSE [reqs EXCEPT ![r].asked = @ \ {c}, ![r].denied = @ \cup {c}]
    BY <1>17 DEF Decide
  <2>3. /\ q'.pc = q.pc /\ q'.key = q.key /\ q'.bearer = q.bearer /\ q'.cache = q.cache
        /\ \/ /\ Satisfies(Index(e[2]), c)
              /\ q'.granted = q.granted \cup {c} /\ q'.denied = q.denied
           \/ /\ ~Satisfies(Index(e[2]), c)
              /\ q'.granted = q.granted /\ q'.denied = q.denied \cup {c}
    BY <1>2, <2>1, <2>2 DEF Request
  <2>4. Learned(h) /\ UNCHANGED keys
    BY <1>2, <1>3, <1>17 DEF Decide, store
  <2>5. Credited(q, h)'
    BY <2>1, <2>3, <2>4 DEF Credited
  <2>6. \A f \in q.cache : f[1] = c.scope => f = e
    BY <2>1, <2>2 DEF Told
  <2>7. /\ \A f \in q'.cache : f[2] = {} \/ f \in h'.views
        /\ \A f, g \in q'.cache : f[1] = g[1] => f = g
        /\ \A d \in q'.granted \cup q'.denied : \E f \in q'.cache : f[1] = d.scope
    <3>1. h.views \subseteq h'.views
      BY <2>4
    <3>2. \A d \in q'.granted \cup q'.denied : d \in q.granted \cup q.denied \/ d = c
      BY <2>3
    <3> QED BY <2>1, <2>2, <2>3, <3>1, <3>2 DEF Told
  <2>8. \A d \in q'.granted, f \in q'.cache :
          f[1] = d.scope => Satisfies(Index(f[2]), d)
    BY <2>1, <2>3, <2>6 DEF Told
  <2>9. \A d \in q'.denied, f \in q'.cache :
          f[1] = d.scope => ~Satisfies(Index(f[2]), d)
    BY <2>1, <2>3, <2>6 DEF Told
  <2>10. Told(q, h)'
    BY <2>7, <2>8, <2>9 DEF Told
  <2> QED BY <2>1, <2>3, <2>5, <2>10
<1> QED BY <1>5, <1>8, <1>9, <1>10, <1>11, <1>12, <1>13, <1>14, <1>15, <1>16, <1>17
        DEF Step, Serve, Logout, Mutate, Leave, Fail

-----------------------------------------------------------------------------
\* The first states.
LEMMA Initially == Init => IInv
<1> SUFFICES ASSUME Init PROVE IInv
  OBVIOUS
<1>1. TypeOK
  BY BoundAssumption DEF Init, TypeOK, Nothing, Seen
<1>2. \A r \in Req : Row(r)
  BY DEF Init, Row, Busy
<1> QED BY <1>1, <1>2 DEF IInv

\* Every step of a request and of the rest of the world.
LEMMA Inductive == IInv /\ [Next]_vars => IInv'
<1> SUFFICES ASSUME IInv, [Next]_vars PROVE IInv'
  OBVIOUS
<1>1. CASE UNCHANGED vars
  <2>1. TypeOK'
    BY <1>1 DEF IInv, TypeOK, vars
  <2>2. Powers' = Powers
    BY <1>1 DEF Powers, Effective, vars
  <2>3. \A r \in Req : Row(r)'
    BY <1>1, <2>2 DEF IInv, Row, Busy, Credited, Watched, Told, vars
  <2> QED BY <2>1, <2>3 DEF IInv
<1>2. ASSUME NEW r \in Req,
             Receive(r) \/ ReceiveBody(r) \/ Step(r) \/ Ask(r) \/ Fail(r)
      PROVE  IInv'
  <2>1. StoreOK' /\ KeysKeep
    BY <1>2, RequestStore DEF IInv
  <2>2. /\ reqs' = [reqs EXCEPT ![r] = reqs'[r]]
        /\ reqs'[r] \in {None} \cup Request
        /\ reqs'[r] # None => Shape(reqs'[r])
    BY <1>2, Moves
  <2>3. /\ reqs \in [Req -> {None} \cup Request] /\ seen \in [Req -> Seen]
        /\ \A q \in Req : reqs[q] # None => Shape(reqs[q])
    BY DEF IInv, TypeOK, Row, Busy
  <2>4. /\ reqs' \in [Req -> {None} \cup Request]
        /\ \A q \in Req : q # r => reqs'[q] = reqs[q]
    BY <2>2, <2>3
  <2>5. \A q \in Req : reqs'[q] # None => reqs'[q] \in Request /\ Shape(reqs'[q])
    BY <2>2, <2>3, <2>4
  <2>6. Nothing \in Seen /\ [seen[r] EXCEPT !.views = {}] \in Seen /\ seen[r] \in Seen
    BY <2>3 DEF Nothing, Seen
  <2>7. PICK b \in Seen : Witness(r, b)
    BY <1>2, <2>6 DEF Receive, ReceiveBody, Step, Ask, Fail, LookUpKey, FindUser,
       AuthorizeSession, Serve, Logout, Mutate, AuthorizeAdmin, Load, Admit, Decide, Leave
  <2>8. TypeOK'
    BY <2>1, <2>3, <2>4, <2>5, <2>7, WitnessType DEF StoreOK, TypeOK
  <2>9. Row(r)'
    BY <1>2, <2>8, Acts
  <2>10. \A q \in Req : q # r => Row(q)'
    BY <2>1, <2>4, <2>7, <2>8, Waits
  <2> QED BY <2>8, <2>9, <2>10 DEF IInv
<1>3. CASE Environment
  <2>1. StoreOK' /\ KeysKeep
    BY <1>3, EnvironmentStore DEF IInv, TypeOK, StoreOK
  <2>2. reqs' = reqs /\ Witness(None, Nothing) /\ Nothing \in Seen
    BY <1>3 DEF Environment, Nothing, Seen
  <2>3. /\ reqs \in [Req -> {None} \cup Request] /\ seen \in [Req -> Seen]
        /\ \A q \in Req : reqs[q] # None => Shape(reqs[q])
    BY DEF IInv, TypeOK, Row, Busy
  <2>4. \A q \in Req : reqs'[q] # None => reqs'[q] \in Request /\ Shape(reqs'[q])
    BY <2>2, <2>3
  <2>5. TypeOK'
    BY <2>1, <2>2, <2>3, <2>4, WitnessType DEF StoreOK, TypeOK
  <2>6. \A q \in Req : q # None
    BY NoneAssumption
  <2>7. \A q \in Req : Row(q)'
    BY <2>1, <2>2, <2>5, <2>6, Waits
  <2> QED BY <2>5, <2>7 DEF IInv
<1> QED BY <1>1, <1>2, <1>3 DEF Next

\* IInv holds in every reachable state.
LEMMA Invariance == Spec => []IInv
<1> QED BY Initially, Inductive, PTL DEF Spec

-----------------------------------------------------------------------------
\* The store, the requests and the history keep their shape.
THEOREM TypeCorrect == Spec => []TypeOK
<1>1. IInv => TypeOK
  BY DEF IInv
<1> QED BY <1>1, Invariance, PTL

\* A handler runs only on a key, an access token, a session and an owner that
\* were good after the request's body was read, and an administration call only
\* for a scoped secret key or a user entitled since (AuthServer.authenticate,
\* AdminService.#authorize).
THEOREM AuthorityFresh == Spec => []AuthorityIsFresh
<1>1. ASSUME IInv, NEW r \in Req, Busy(r)
      PROVE  LET q == reqs[r] IN
             /\ q.pc \in {"route", "mutate", "check", "app"} =>
                  /\ seen[r].key
                  /\ q.bearer # None => seen[r].fresh /\ seen[r].login
                  /\ q.route \in {"user", "link", "app"} => q.bearer # None
             /\ q.pc = "mutate" =>
                  \/ q.key \in Scoped
                  \/ \E v \in seen[r].views : v[1] = Global /\ Administers(v[2])
  <2>1. /\ Shape(reqs[r]) /\ Credited(reqs[r], seen[r]) /\ Watched(reqs[r], seen[r])
    BY <1>1 DEF IInv, Row
  <2> QED BY <2>1 DEF Shape, Credited, Watched, RequiresBearer
<1>2. IInv => AuthorityIsFresh
  BY <1>1 DEF AuthorityIsFresh
<1> QED BY <1>2, Invariance, PTL

\* Every check an application makes in one context and one scope answers by one
\* set of permissions, under the ranks of permissionMatchRank.
THEOREM ChecksAgreed == Spec => []ChecksAgree
<1> DEFINE Cover(P, p) == \E g \in P : Matches(g, p)
           Holds(P, c) == /\ c.any = {} \/ \E p \in c.any : Cover(P, p)
                          /\ \A p \in c.all : Cover(P, p)
<1>1. ASSUME NEW P \in SUBSET Perm, NEW c \in Requirement
      PROVE  Satisfies(Index(P), c) <=> Holds(P, c)
  <2>1. \A p \in c.any \cup c.all : HasPermission(Index(P), p) <=> Cover(P, p)
    BY IndexSound DEF Requirement
  <2> HIDE DEF Cover
  <2> QED BY <2>1 DEF Satisfies
<1>2. ASSUME IInv, NEW r \in Req, Busy(r), NEW sc \in Scopes
      PROVE  \E P \in {v[2] : v \in {w \in seen[r].views : w[1] = sc}} \cup {{}} :
               /\ \A q \in reqs[r].granted : q.scope = sc => Holds(P, q)
               /\ \A q \in reqs[r].denied : q.scope = sc => ~Holds(P, q)
  <2> DEFINE q == reqs[r]  S == {v[2] : v \in {w \in seen[r].views : w[1] = sc}} \cup {{}}
  <2>1. Told(q, seen[r]) /\ q \in Request
    BY <1>2 DEF IInv, Row, Busy, TypeOK
  <2>2. /\ \A c \in q.granted \cup q.denied : c \in Requirement
        /\ \A e \in q.cache : e[2] \in SUBSET Perm
    BY <2>1, GrantAssumption DEF Request
  <2> HIDE DEF Holds
  <2>3. CASE \E e \in q.cache : e[1] = sc
    <3>1. PICK e \in q.cache : e[1] = sc
      BY <2>3
    <3>2. e[2] \in S
      BY <2>1, <3>1 DEF Told
    <3>3. \A c \in q.granted : c.scope = sc => Satisfies(Index(e[2]), c)
      BY <2>1, <3>1 DEF Told
    <3>4. \A c \in q.denied : c.scope = sc => ~Satisfies(Index(e[2]), c)
      BY <2>1, <3>1 DEF Told
    <3> HIDE DEF q, S
    <3>5. /\ \A c \in q.granted : c.scope = sc => Holds(e[2], c)
          /\ \A c \in q.denied : c.scope = sc => ~Holds(e[2], c)
      BY <1>1, <2>2, <3>1, <3>3, <3>4
    <3> QED BY <3>2, <3>5 DEF q, S
  <2>4. CASE ~ \E e \in q.cache : e[1] = sc
    <3>1. \A c \in q.granted \cup q.denied : c.scope # sc
      BY <2>1, <2>4 DEF Told
    <3>2. {} \in S
      OBVIOUS
    <3> QED BY <3>1, <3>2
  <2> QED BY <2>3, <2>4
<1>3. IInv => ChecksAgree
  BY <1>2 DEF ChecksAgree
<1> QED BY <1>3, Invariance, PTL
=============================================================================
