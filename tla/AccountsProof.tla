----------------------------- MODULE AccountsProof -----------------------------
(***************************************************************************)
(* Proofs about Accounts for every set of users, sessions, tokens,         *)
(* addresses, passwords and handlers, and any bound on requests and        *)
(* failures.                                                               *)
(***************************************************************************)
EXTENDS Accounts, TLAPS

\* The handlers that have spent a proof (or need none) and still owe a session.
Holding == {"consumed", "checked", "confirmed"}
Signed == {"authorize", "authorized"}

\* Somebody answers for u's address a, if it is one: its mailbox, or who gave it.
known == proven \cup vouched
Backed(u, a, pairs) == a = None \/ <<u, a>> \in pairs

\* The mailbox a belongs to u's address, or somebody answers for u's address anyway.
Claim(u, a) ==
  /\ users[u] # None
  /\ a = users[u].email \/ Backed(u, users[u].email, known)

\* Sessions belong to users, and what was opened or applied was consumed before.
Linked ==
  /\ \A s \in Session : sessions[s] # None =>
       /\ users[sessions[s].user_id] # None
       /\ sessions[s].proof # None => /\ tokens[sessions[s].proof] # None
                                      /\ tokens[sessions[s].proof].consumed
  /\ \A t \in applied : tokens[t] # None /\ tokens[t].consumed
  /\ \A t \in Token : tokens[t] # None /\ tokens[t].purpose \in LinkPurpose
                        => Claim(tokens[t].user_id, tokens[t].target)

\* What a handler in flight may rely on at its next step.
RequestOK(r) ==
  LET q == reqs[r] IN
  /\ q.pc \in {"lookup", "create"} => q.address \in Address /\ q.token = None
  /\ q.pc = "lookup" /\ q.op = "ask" => q.purpose \in Purpose
  /\ q.pc \in {"verified", "issue"} \cup Holding \cup Signed
       => q.user \in User /\ users[q.user] # None
  /\ q.pc = "issue" =>
       /\ q.address \in Address /\ q.purpose \in Purpose
       /\ q.purpose \in LinkPurpose => Claim(q.user, q.address)
  /\ q.pc = "mail" => q.token \in Token
  /\ q.pc = "consume" =>
       /\ q.op = "verify" => q.purpose \in LinkPurpose
       /\ q.token \in mailed \cup {None}
  /\ q.pc \in Holding =>
       /\ requireEmailConfirmation => Backed(q.user, users[q.user].email, known)
       /\ q.token # None => /\ tokens[q.token] # None
                            /\ tokens[q.token].consumed
                            /\ tokens[q.token].attempt_count < MaxAttempts
  /\ q.pc \in Signed =>
       /\ q.session \in Session /\ sessions[q.session] # None
       /\ sessions[q.session].user_id = q.user
       /\ q.op = "updateUser" => q.address \in Address

Holds(r, t) == reqs[r].pc \in Holding /\ reqs[r].token = t

\* A consumed proof is in one hand: one handler's, or one session's.
Exclusive ==
  \A r \in Req, t \in Token : Holds(r, t) =>
    /\ \A s \in Session : sessions[s] # None => sessions[s].proof # t
    /\ \A x \in Req : Holds(x, t) => x = r

IInv ==
  /\ TypeOK
  /\ Linked
  /\ \A r \in Req : RequestOK(r)
  /\ Exclusive
  /\ AddressesUnique
  /\ ConfirmedIsProven
  /\ NoStalePassword
  /\ NoProofWasted
  /\ OneSessionPerProof

\* What every step keeps of the rows it finds.
Kept ==
  /\ requireEmailConfirmation' = requireEmailConfirmation
  /\ known \subseteq known' /\ mailed \subseteq mailed'
  /\ \A u \in User : users[u] # None =>
       /\ users'[u] # None
       /\ users'[u].email = users[u].email \/ Backed(u, users'[u].email, known')
  /\ \A s \in Session : sessions[s] # None =>
       sessions'[s] # None /\ sessions'[s].user_id = sessions[s].user_id
  /\ \A t \in Token : tokens[t] # None =>
       /\ tokens'[t] # None
       /\ tokens[t].consumed =>
            tokens'[t].consumed /\ tokens'[t].attempt_count = tokens[t].attempt_count

--------------------------------------------------------------------------------

\* A handler that did not move keeps what it relies on.
LEMMA RequestKept ==
  ASSUME NEW r \in Req, TypeOK, RequestOK(r), Kept, reqs'[r] = reqs[r]
  PROVE  RequestOK(r)'
<1> DEFINE q == reqs[r]
<1>1. q \in Request /\ q.user \in User \cup {None} /\ q.token \in Token \cup {None}
  BY DEF TypeOK, Request
<1>2. q.pc \in {"verified", "issue"} \cup Holding \cup Signed
        => q.user \in User /\ users'[q.user] # None
  BY <1>1 DEF RequestOK, Kept
<1>3. q.pc = "issue" => /\ q.address \in Address /\ q.purpose \in Purpose
                        /\ q.purpose \in LinkPurpose => Claim(q.user, q.address)
  BY DEF RequestOK
<1>4. q.pc \in Holding =>
        /\ requireEmailConfirmation => Backed(q.user, users'[q.user].email, known')
        /\ q.token # None => /\ tokens'[q.token] # None
                             /\ tokens'[q.token].consumed
                             /\ tokens'[q.token].attempt_count < MaxAttempts
  BY <1>1, <1>2 DEF RequestOK, Kept, Backed
<1>5. q.pc \in Signed =>
        /\ q.session \in Session /\ sessions'[q.session] # None
        /\ sessions'[q.session].user_id = q.user
        /\ q.op = "updateUser" => q.address \in Address
  BY DEF RequestOK, Kept
<1>6. q.pc = "issue" /\ q.purpose \in LinkPurpose =>
        /\ users'[q.user] # None
        /\ q.address = users'[q.user].email
           \/ Backed(q.user, users'[q.user].email, known')
  BY <1>2, <1>3 DEF Claim, Kept, Backed
<1>7. /\ q.pc \in {"lookup", "create"} => q.address \in Address /\ q.token = None
      /\ q.pc = "lookup" /\ q.op = "ask" => q.purpose \in Purpose
      /\ q.pc = "mail" => q.token \in Token
      /\ q.pc = "consume" => /\ q.op = "verify" => q.purpose \in LinkPurpose
                             /\ q.token \in mailed' \cup {None}
  BY DEF RequestOK, Kept
<1>8. requireEmailConfirmation' = requireEmailConfirmation
  BY DEF Kept
<1> QED BY <1>2, <1>3, <1>4, <1>5, <1>6, <1>7, <1>8 DEF RequestOK, Claim

\* A step that only moves one handler.
LEMMA RequestStep ==
  ASSUME IInv, NEW r \in Req, NEW q \in Request,
         reqs' = [reqs EXCEPT ![r] = q],
         UNCHANGED <<requireEmailConfirmation, tables, proven, vouched, applied>>,
         calls' \in 0..MaxCalls, mailed \subseteq mailed', mailed' \subseteq Token,
         RequestOK(r)',
         q.pc \in Holding => reqs[r].pc \in Holding /\ q.token = reqs[r].token
  PROVE  IInv'
<1>1. TypeOK'
  BY DEF IInv, TypeOK, tables
<1>2. Kept
  BY DEF Kept, tables, known
<1>3. ASSUME NEW x \in Req PROVE RequestOK(x)'
  BY <1>2, RequestKept DEF IInv, TypeOK
<1>4. ASSUME NEW x \in Req, NEW t PROVE Holds(x, t)' => Holds(x, t)
  BY DEF IInv, TypeOK, Holds
<1>5. Exclusive'
  BY <1>4 DEF IInv, Exclusive, tables
<1>6. Linked' /\ AddressesUnique' /\ ConfirmedIsProven' /\ NoStalePassword'
      /\ NoProofWasted' /\ OneSessionPerProof'
  BY DEF IInv, Linked, Claim, AddressesUnique, ConfirmedIsProven, NoStalePassword,
         NoProofWasted, OneSessionPerProof, SessionLive, tables, known
<1> QED BY <1>1, <1>3, <1>5, <1>6 DEF IInv

\* A step that changes one token row and moves one handler.
LEMMA TokenStep ==
  ASSUME IInv, NEW r \in Req, NEW t \in Token,
         NEW row \in TokenRow, tokens' = [tokens EXCEPT ![t] = row],
         tokens[t] # None => /\ ~tokens[t].consumed
                             /\ row.user_id = tokens[t].user_id
                             /\ row.purpose = tokens[t].purpose
                             /\ row.target = tokens[t].target,
         tokens[t] = None /\ row.purpose \in LinkPurpose => Claim(row.user_id, row.target),
         row.consumed => row.purpose \in LinkPurpose,
         NEW q \in Request, reqs' = [reqs EXCEPT ![r] = q],
         UNCHANGED <<requireEmailConfirmation, calls, users, passwords, sessions, mailed,
                     vouched, applied>>,
         proven \subseteq proven', proven' \subseteq User \X Address,
         RequestOK(r)',
         q.pc \in Holding => q.token = t
  PROVE  IInv'
<1>1. TypeOK'
  BY DEF IInv, TypeOK
<1>2. /\ row # None /\ tokens'[t] = row
      /\ \A x \in Token : x # t => tokens'[x] = tokens[x]
  BY NoneAssumption DEF IInv, TypeOK
<1>3. Kept
  BY <1>2 DEF Kept, known
<1>4. ASSUME NEW x \in Req PROVE RequestOK(x)'
  BY <1>3, RequestKept DEF IInv, TypeOK
<1>5. \A s \in Session : sessions[s] # None => sessions[s].proof # t
  BY NoneAssumption DEF IInv, Linked
<1>6. \A x \in Req : ~Holds(x, t)
  BY NoneAssumption DEF IInv, RequestOK, Holds
<1>7. \A x \in Req, y \in Token : Holds(x, y)' => Holds(x, y) \/ (x = r /\ y = t)
  BY DEF IInv, TypeOK, Holds
<1>8. Exclusive'
  BY <1>5, <1>6, <1>7 DEF IInv, Exclusive
<1>9. /\ Linked' /\ NoProofWasted'
  BY <1>2, <1>5 DEF IInv, Linked, Claim, Backed, known, NoProofWasted, TypeOK, SessionRow,
     LinkPurpose
<1>10. /\ AddressesUnique' /\ ConfirmedIsProven' /\ NoStalePassword' /\ OneSessionPerProof'
  BY DEF IInv, AddressesUnique, ConfirmedIsProven, NoStalePassword, OneSessionPerProof,
         SessionLive
<1> QED BY <1>1, <1>4, <1>8, <1>9, <1>10 DEF IInv

LEMMA IssueStep == ASSUME IInv, NEW r \in Req, NEW t \in Token, Issue(r, t) PROVE IInv'
<1> DEFINE row == [user_id |-> reqs[r].user, purpose |-> reqs[r].purpose,
                   target |-> reqs[r].address, consumed |-> FALSE, attempt_count |-> 0]
           q == [Idle EXCEPT !.pc = "mail", !.token = t]
<1>1. reqs[r].pc = "issue" /\ RequestOK(r) /\ MaxAttempts \in Nat
  BY MaxAttemptsAssumption DEF Issue, IInv, history
<1>2. row \in TokenRow
  BY <1>1 DEF RequestOK, TokenRow
<1>3. q \in Request /\ q.pc = "mail" /\ q.token = t
  BY DEF Idle, Request, Op
<1>4. reqs' = [reqs EXCEPT ![r] = q] /\ tokens[t] = None
      /\ tokens' = [tokens EXCEPT ![t] = row]
      /\ UNCHANGED <<requireEmailConfirmation, calls, users, passwords, sessions, mailed,
                     proven, vouched, applied>>
  BY DEF Issue, history
<1>5. reqs'[r] = q
  BY <1>4 DEF IInv, TypeOK
<1>6. RequestOK(r)'
  BY <1>3, <1>5 DEF RequestOK, Holding, Signed
<1>7. row.purpose \in LinkPurpose => Claim(row.user_id, row.target)
  BY <1>1 DEF RequestOK
<1>8. proven' \subseteq User \X Address
  BY <1>4 DEF IInv, TypeOK
<1>9. ~row.consumed /\ q.pc \notin Holding
  BY DEF Idle, Holding
<1> HIDE DEF row, q
<1> QED BY <1>2, <1>3, <1>4, <1>6, <1>7, <1>8, <1>9, TokenStep

LEMMA VerifyStep == ASSUME IInv, NEW r \in Req, Verify(r) PROVE IInv'
<1>1. PICK t \in Token : t = reqs[r].token /\ tokens[t] \in TokenRow
  BY DEF IInv, TypeOK, Request, Verify, Consumable, Matches, history
<1> DEFINE row == [tokens[t] EXCEPT !.consumed = TRUE]
           u == tokens[t].user_id
           q == [Idle EXCEPT !.pc = "consumed", !.op = "verify", !.token = t, !.user = u]
<1>2. /\ reqs[r].pc = "consume" /\ reqs[r].op = "verify" /\ RequestOK(r)
      /\ tokens[t].purpose = reqs[r].purpose /\ ~tokens[t].consumed
      /\ tokens[t].attempt_count < MaxAttempts /\ users[u] # None /\ tokens[t] # None
  BY <1>1 DEF IInv, Verify, At, Consumable, Matches, Exists, history
<1>3. /\ tokens[t].purpose \in LinkPurpose
      /\ u \in User /\ tokens[t].target \in Address
      /\ Claim(u, tokens[t].target)
  BY <1>1, <1>2 DEF RequestOK, IInv, Linked, TokenRow
<1>4. /\ row \in TokenRow /\ row.consumed
      /\ row.user_id = u /\ row.purpose = tokens[t].purpose
      /\ row.target = tokens[t].target /\ row.attempt_count = tokens[t].attempt_count
  BY <1>1 DEF TokenRow
<1>5. q \in Request /\ q.pc = "consumed" /\ q.token = t /\ q.user = u
  BY <1>3 DEF Idle, Request, Op
<1>6. /\ reqs' = [reqs EXCEPT ![r] = q] /\ tokens' = [tokens EXCEPT ![t] = row]
      /\ proven' = proven \cup {<<u, tokens[t].target>>}
      /\ UNCHANGED <<requireEmailConfirmation, calls, users, passwords, sessions, mailed,
                     vouched, applied>>
  BY <1>1 DEF Verify, consume, history
<1>7. reqs'[r] = q /\ tokens'[t] = row
  BY <1>6 DEF IInv, TypeOK
<1>8. Backed(u, users'[u].email, known')
  BY <1>3, <1>6 DEF Claim, Backed, known
<1>9. proven \subseteq proven' /\ proven' \subseteq User \X Address
  BY <1>3, <1>6 DEF IInv, TypeOK
<1> HIDE DEF row, q
<1>10. RequestOK(r)'
  <2>1. tokens'[t] # None
    BY <1>4, <1>7, NoneAssumption
  <2> QED BY <2>1, <1>2, <1>3, <1>4, <1>5, <1>6, <1>7, <1>8 DEF RequestOK, Holding, Signed
<1> QED BY <1>2, <1>3, <1>4, <1>5, <1>6, <1>9, <1>10, TokenStep

LEMMA FailureStep == ASSUME IInv, NEW r \in Req, RecordFailure(r) PROVE IInv'
<1>1. Idle \in Request /\ Idle.pc = "idle"
  BY DEF Idle, Request, Op
<1>2. reqs' = [reqs EXCEPT ![r] = Idle] /\ reqs'[r] = Idle
      /\ UNCHANGED <<requireEmailConfirmation, calls, users, passwords, sessions, mailed,
                     proven, vouched, applied>>
  BY DEF RecordFailure, Finish, IInv, TypeOK, history
<1>3. RequestOK(r)' /\ Idle.pc \notin Holding
  BY <1>1, <1>2 DEF RequestOK, Holding, Signed
<1>4. CASE ~Matches(r, "email_otp")
  BY <1>1, <1>2, <1>3, <1>4, RequestStep DEF RecordFailure, IInv, TypeOK, tables, history
<1>5. CASE Matches(r, "email_otp")
  <2>1. PICK t \in Token : t = reqs[r].token /\ tokens[t] \in TokenRow
    BY <1>5 DEF IInv, TypeOK, Request, Matches
  <2> DEFINE n == tokens[t].attempt_count + 1
             burnt == n >= MaxAttempts
             row == [tokens[t] EXCEPT !.attempt_count = n, !.consumed = burnt]
  <2>2. /\ tokens[t].purpose = "email_otp" /\ ~tokens[t].consumed
        /\ tokens[t].attempt_count < MaxAttempts /\ tokens[t] # None
    BY <1>5, <2>1 DEF Matches
  <2>3. n \in 0..MaxAttempts /\ burnt \in BOOLEAN
    BY <2>1, <2>2, MaxAttemptsAssumption DEF TokenRow
  <2>4. tokens' = [tokens EXCEPT ![t] = row]
    BY <1>5, <2>1 DEF RecordFailure, recordFailure, history
  <2> HIDE DEF n, burnt
  <2>5. /\ row \in TokenRow /\ row.user_id = tokens[t].user_id
        /\ row.purpose = tokens[t].purpose /\ row.target = tokens[t].target
    BY <2>1, <2>3 DEF TokenRow
  <2>6. row.purpose \in LinkPurpose
    BY <2>2, <2>5 DEF LinkPurpose
  <2>7. proven \subseteq proven' /\ proven' \subseteq User \X Address
    BY <1>2 DEF IInv, TypeOK
  <2> HIDE DEF row
  <2> QED BY <1>1, <1>2, <1>3, <2>2, <2>4, <2>5, <2>6, <2>7, TokenStep
<1> QED BY <1>4, <1>5

--------------------------------------------------------------------------------

\* A step that opens a session.
LEMMA OpenStep ==
  ASSUME IInv, NEW r \in Req, NEW s \in Session, sessions[s] = None,
         NEW row \in SessionRow, sessions' = [sessions EXCEPT ![s] = row],
         users[row.user_id] # None,
         row.password # None => row.password = passwords[row.user_id],
         row.proof # None => Holds(r, row.proof),
         reqs' = [reqs EXCEPT ![r] = Idle],
         applied' = applied \cup ({row.proof} \ {None}),
         UNCHANGED <<requireEmailConfirmation, calls, users, passwords, tokens, mailed,
                     proven, vouched>>
  PROVE  IInv'
<1>1. /\ row # None /\ sessions'[s] = row
      /\ \A x \in Session : x # s => sessions'[x] = sessions[x]
      /\ row.proof \in Token \cup {None}
  BY NoneAssumption DEF IInv, TypeOK, SessionRow
<1>2. row.proof # None => tokens[row.proof] # None /\ tokens[row.proof].consumed
  BY DEF IInv, RequestOK, Holds
<1>3. Idle \in Request /\ Idle.pc = "idle" /\ reqs'[r] = Idle
  BY DEF IInv, TypeOK, Idle, Request, Op
<1>4. TypeOK'
  BY <1>1, <1>3 DEF IInv, TypeOK
<1>5. Kept
  BY <1>1 DEF Kept, known
<1>6. ASSUME NEW x \in Req PROVE RequestOK(x)'
  <2>1. CASE x = r
    BY <2>1, <1>3 DEF RequestOK, Holding, Signed
  <2>2. CASE x # r
    BY <2>2, <1>5, RequestKept DEF IInv, TypeOK
  <2> QED BY <2>1, <2>2
<1>7. \A x \in Req, t \in Token : Holds(x, t)' => x # r /\ Holds(x, t)
  BY <1>3 DEF IInv, TypeOK, Holds, Holding
<1>8. Exclusive'
  BY <1>1, <1>7, NoneAssumption DEF IInv, Exclusive
<1>9. OneSessionPerProof'
  BY <1>1, NoneAssumption DEF IInv, OneSessionPerProof, Exclusive, TypeOK
<1>10. Linked'
  BY <1>1, <1>2 DEF IInv, Linked, Claim, known
<1>11. AddressesUnique' /\ ConfirmedIsProven' /\ NoStalePassword' /\ NoProofWasted'
  BY <1>1 DEF IInv, AddressesUnique, ConfirmedIsProven, NoStalePassword, NoProofWasted,
         SessionLive
<1> QED BY <1>4, <1>6, <1>8, <1>9, <1>10, <1>11 DEF IInv

LEMMA SignInStep ==
  ASSUME IInv, NEW r \in Req, NEW s \in Session, SignIn(r, s) \/ OpenSession(r, s)
  PROVE  IInv'
<1>1. CASE SignIn(r, s)
  <2> DEFINE u == reqs[r].user
             row == [user_id |-> u, revoked |-> FALSE, password |-> reqs[r].password,
                     proof |-> None]
  <2>1. u \in User /\ users[u] # None /\ reqs[r].password = passwords[u]
        /\ reqs[r].password \in Password \cup {None}
    BY <1>1 DEF SignIn, IInv, RequestOK, At, TypeOK, Request, history
  <2>2. row \in SessionRow
    BY <2>1 DEF SessionRow
  <2>3. /\ sessions[s] = None /\ sessions' = [sessions EXCEPT ![s] = row]
        /\ reqs' = [reqs EXCEPT ![r] = Idle]
        /\ UNCHANGED <<requireEmailConfirmation, calls, users, passwords, tokens, mailed,
                       proven, vouched>>
        /\ applied' = applied \cup ({row.proof} \ {None})
    BY <1>1 DEF SignIn, insertSession, Finish, history
  <2>4. row.user_id = u /\ row.password = reqs[r].password /\ row.proof = None
    OBVIOUS
  <2> HIDE DEF row
  <2> QED BY <2>1, <2>2, <2>3, <2>4, OpenStep
<1>2. CASE OpenSession(r, s)
  <2> DEFINE u == reqs[r].user
             row == [user_id |-> u, revoked |-> FALSE, password |-> None,
                     proof |-> reqs[r].token]
  <2>1. u \in User /\ users[u] # None /\ reqs[r].pc \in Holding
        /\ reqs[r].token \in Token \cup {None}
    BY <1>2 DEF OpenSession, IInv, RequestOK, TypeOK, Request, Holding, history
  <2>2. row \in SessionRow
    BY <2>1 DEF SessionRow
  <2>3. /\ sessions[s] = None /\ sessions' = [sessions EXCEPT ![s] = row]
        /\ reqs' = [reqs EXCEPT ![r] = Idle]
        /\ UNCHANGED <<requireEmailConfirmation, calls, users, passwords, tokens, mailed,
                       proven, vouched>>
        /\ applied' = applied \cup ({row.proof} \ {None})
    BY <1>2 DEF OpenSession, insertSession, Finish, history
  <2>4. row.user_id = u /\ row.password = None /\ Holds(r, row.proof)
    BY <2>1 DEF Holds
  <2> HIDE DEF row
  <2> QED BY <2>1, <2>2, <2>3, <2>4, OpenStep
<1> QED BY <1>1, <1>2

--------------------------------------------------------------------------------

\* A step that opens no session: what it keeps of the invariant, whatever it writes
\* about users, passwords and revocations.
LEMMA WriteStep ==
  ASSUME IInv, TypeOK', Kept,
         \A s \in Session :
           /\ sessions[s] = None => sessions'[s] = None
           /\ sessions[s] # None => sessions'[s].proof = sessions[s].proof,
         \A t \in Token : tokens'[t] # None =>
           /\ tokens[t] # None
           /\ tokens'[t].user_id = tokens[t].user_id
           /\ tokens'[t].purpose = tokens[t].purpose
           /\ tokens'[t].target = tokens[t].target,
         \A t \in applied' : tokens'[t] # None /\ tokens'[t].consumed,
         \A x \in Req : \/ reqs'[x] = reqs[x]
                        \/ /\ RequestOK(x)'
                           /\ reqs'[x].pc \in Holding =>
                                \/ reqs'[x].token = None
                                \/ reqs[x].pc \in Holding /\ reqs'[x].token = reqs[x].token
  PROVE  /\ \A x \in Req : RequestOK(x)'
         /\ Exclusive' /\ Linked' /\ OneSessionPerProof'
<1>1. ASSUME NEW x \in Req PROVE RequestOK(x)'
  BY <1>1, RequestKept DEF IInv
<1>2. ASSUME NEW x \in Req, NEW t \in Token PROVE Holds(x, t)' => Holds(x, t)
  BY NoneAssumption DEF Holds
<1>3. Exclusive'
  BY <1>2 DEF IInv, Exclusive
<1>4. Linked'
  <2>1. ASSUME NEW s \in Session, sessions'[s] # None
        PROVE  /\ users'[sessions'[s].user_id] # None
               /\ sessions'[s].proof # None => /\ tokens'[sessions'[s].proof] # None
                                               /\ tokens'[sessions'[s].proof].consumed
    <3>1. /\ sessions[s] # None /\ sessions'[s].user_id = sessions[s].user_id
          /\ sessions'[s].proof = sessions[s].proof
          /\ sessions[s].user_id \in User /\ sessions[s].proof \in Token \cup {None}
      BY <2>1 DEF Kept, IInv, TypeOK, SessionRow
    <3> QED BY <3>1 DEF Kept, IInv, Linked
  <2>2. ASSUME NEW t \in Token, tokens'[t] # None, tokens'[t].purpose \in LinkPurpose
        PROVE  Claim(tokens[t].user_id, tokens[t].target)' 
    <3>1. /\ tokens[t] # None /\ tokens[t].user_id \in User
          /\ tokens'[t].user_id = tokens[t].user_id /\ tokens'[t].target = tokens[t].target
          /\ Claim(tokens[t].user_id, tokens[t].target)
      BY <2>2 DEF IInv, TypeOK, TokenRow, Linked
    <3>2. \A u \in User : users[u] # None =>
            users'[u] # None /\ (users'[u].email = users[u].email
                                 \/ Backed(u, users'[u].email, known'))
      BY DEF Kept
    <3> QED BY <3>1, <3>2 DEF Claim, Kept, Backed
  <2> QED BY <2>1, <2>2 DEF Linked
<1>5. OneSessionPerProof'
  BY DEF IInv, OneSessionPerProof
<1> QED BY <1>1, <1>3, <1>4, <1>5

\* Revoking some sessions changes nothing else about them.
LEMMA RevokeFacts ==
  ASSUME TypeOK, NEW S \in SUBSET Session, \A s \in S : sessions[s] # None
  PROVE  /\ revoke(S) \in [Session -> SessionRow \cup {None}]
         /\ \A s \in Session :
              /\ sessions[s] = None <=> revoke(S)[s] = None
              /\ sessions[s] # None =>
                   /\ revoke(S)[s].user_id = sessions[s].user_id
                   /\ revoke(S)[s].proof = sessions[s].proof
                   /\ revoke(S)[s].password = sessions[s].password
                   /\ revoke(S)[s].revoked = (s \in S \/ sessions[s].revoked)
<1>1. ASSUME NEW s \in Session
      PROVE  /\ revoke(S)[s] \in SessionRow \cup {None}
             /\ sessions[s] = None <=> revoke(S)[s] = None
             /\ sessions[s] # None =>
                  /\ revoke(S)[s].user_id = sessions[s].user_id
                  /\ revoke(S)[s].proof = sessions[s].proof
                  /\ revoke(S)[s].password = sessions[s].password
                  /\ revoke(S)[s].revoked = (s \in S \/ sessions[s].revoked)
  <2>1. CASE s \notin S
    BY <2>1 DEF revoke, TypeOK, SessionRow
  <2>2. CASE s \in S
    <3> DEFINE row == [sessions[s] EXCEPT !.revoked = TRUE]
    <3>1. sessions[s] \in SessionRow /\ revoke(S)[s] = row
      BY <2>2 DEF revoke, TypeOK
    <3>2. /\ row \in SessionRow /\ row.user_id = sessions[s].user_id
          /\ row.proof = sessions[s].proof /\ row.password = sessions[s].password
          /\ row.revoked = TRUE
      BY <3>1 DEF SessionRow
    <3> HIDE DEF row
    <3> QED BY <2>2, <3>1, <3>2, NoneAssumption
  <2> QED BY <2>1, <2>2
<1> QED BY <1>1 DEF revoke

\* Signing out, what an administrator does and a confirmation.
LEMMA RowStep ==
  ASSUME IInv,
         \/ \E s \in Session : SignOut(s)
         \/ \E u \in User : Admin(u)
         \/ \E r \in Req : Confirm(r)
  PROVE  IInv'
<1>1. ASSUME NEW s \in Session, SignOut(s) PROVE IInv'
  <2>1. sessions[s] # None /\ sessions' = revoke({s})
    BY <1>1 DEF SignOut, SessionLive, history
  <2>2. UNCHANGED <<requireEmailConfirmation, calls, users, passwords, tokens, mailed,
                    reqs, proven, vouched, applied>>
    BY <1>1 DEF SignOut, history
  <2>3. /\ sessions' \in [Session -> SessionRow \cup {None}]
        /\ \A x \in Session :
             /\ sessions[x] = None <=> sessions'[x] = None
             /\ sessions[x] # None =>
                  /\ sessions'[x].user_id = sessions[x].user_id
                  /\ sessions'[x].proof = sessions[x].proof
                  /\ sessions'[x].password = sessions[x].password
                  /\ sessions'[x].revoked = (x \in {s} \/ sessions[x].revoked)
    BY <2>1, RevokeFacts DEF IInv
  <2>4. TypeOK' /\ Kept
    BY <2>2, <2>3 DEF IInv, TypeOK, Kept, known
  <2>5. \A t \in applied' : tokens'[t] # None /\ tokens'[t].consumed
    BY <2>2 DEF IInv, Linked
  <2>6. /\ \A x \in Req : RequestOK(x)'
        /\ Exclusive' /\ Linked' /\ OneSessionPerProof'
    BY <2>2, <2>3, <2>4, <2>5, WriteStep
  <2>7. NoStalePassword'
    BY <2>2, <2>3 DEF IInv, NoStalePassword, SessionLive
  <2>8. AddressesUnique' /\ ConfirmedIsProven' /\ NoProofWasted'
    BY <2>2 DEF IInv, AddressesUnique, ConfirmedIsProven, NoProofWasted
  <2> QED BY <2>4, <2>6, <2>7, <2>8 DEF IInv
<1>2. ASSUME NEW u \in User, DeleteUser(u) PROVE IInv'
  <2> DEFINE row == [users[u] EXCEPT !.deleted = TRUE]
  <2>1. /\ users[u] \in UserRow /\ sessions' = revoke(SessionsOf(u))
        /\ users' = [users EXCEPT ![u] = row]
        /\ \A x \in SessionsOf(u) : sessions[x] # None
        /\ SessionsOf(u) \subseteq Session
    BY <1>2 DEF DeleteUser, Exists, IInv, TypeOK, SessionsOf, history
  <2>2. row \in UserRow /\ row.email = users[u].email /\ row.confirmed = users[u].confirmed
    BY <2>1 DEF UserRow
  <2>3. UNCHANGED <<requireEmailConfirmation, calls, passwords, tokens, mailed, reqs,
                    proven, vouched, applied>>
    BY <1>2 DEF DeleteUser, history
  <2>4. /\ sessions' \in [Session -> SessionRow \cup {None}]
        /\ \A x \in Session :
             /\ sessions[x] = None <=> sessions'[x] = None
             /\ sessions[x] # None =>
                  /\ sessions'[x].user_id = sessions[x].user_id
                  /\ sessions'[x].proof = sessions[x].proof
                  /\ sessions'[x].password = sessions[x].password
                  /\ sessions'[x].revoked = (x \in SessionsOf(u) \/ sessions[x].revoked)
    BY <2>1, RevokeFacts DEF IInv
  <2> HIDE DEF row
  <2>5. /\ users' \in [User -> UserRow \cup {None}]
        /\ \A x \in User :
             /\ users[x] = None <=> users'[x] = None
             /\ users[x] # None => /\ users'[x].email = users[x].email
                                   /\ users'[x].confirmed = users[x].confirmed
    BY <2>1, <2>2, NoneAssumption DEF IInv, TypeOK
  <2>6. TypeOK' /\ Kept
    BY <2>3, <2>4, <2>5 DEF IInv, TypeOK, Kept, known
  <2>7. \A t \in applied' : tokens'[t] # None /\ tokens'[t].consumed
    BY <2>3 DEF IInv, Linked
  <2>8. /\ \A x \in Req : RequestOK(x)'
        /\ Exclusive' /\ Linked' /\ OneSessionPerProof'
    BY <2>3, <2>4, <2>6, <2>7, WriteStep
  <2>9. NoStalePassword' /\ NoProofWasted'
    BY <2>3, <2>4 DEF IInv, NoStalePassword, SessionLive, NoProofWasted
  <2>10. AddressesUnique' /\ ConfirmedIsProven'
    BY <2>3, <2>5 DEF IInv, AddressesUnique, ConfirmedIsProven
  <2> QED BY <2>6, <2>8, <2>9, <2>10 DEF IInv
<1>3. ASSUME NEW u \in User, NEW row \in UserRow,
             users' = [users EXCEPT ![u] = row],
             \/ users[u] # None /\ row.email = users[u].email
             \/ Backed(u, row.email, vouched') /\ Holders(row.email) \subseteq {u},
             row.confirmed /\ requireEmailConfirmation
               => (users[u] # None /\ users[u].confirmed /\ row.email = users[u].email)
                  \/ Backed(u, row.email, known'),
             vouched \subseteq vouched', vouched' \subseteq User \X Address,
             calls' \in 0..MaxCalls,
             UNCHANGED <<requireEmailConfirmation, passwords, sessions, tokens, mailed,
                         proven, applied>>,
             \A x \in Req : \/ reqs'[x] = reqs[x]
                            \/ /\ RequestOK(x)'
                               /\ reqs[x].pc \in Holding /\ reqs'[x].token = reqs[x].token,
             reqs' \in [Req -> Request]
      PROVE  IInv'
  <2>1. /\ users' \in [User -> UserRow \cup {None}]
        /\ \A x \in User : x # u => users'[x] = users[x]
        /\ users'[u] = row /\ row # None
    BY <1>3, NoneAssumption DEF IInv, TypeOK
  <2>2. known \subseteq known' /\ vouched' \subseteq known'
    BY <1>3 DEF known
  <2>3. TypeOK'
    BY <1>3, <2>1 DEF IInv, TypeOK
  <2>4. Kept
    BY <1>3, <2>1, <2>2 DEF Kept, Backed
  <2>5. \A t \in applied' : tokens'[t] # None /\ tokens'[t].consumed
    BY <1>3 DEF IInv, Linked
  <2>6. /\ \A x \in Req : RequestOK(x)'
        /\ Exclusive' /\ Linked' /\ OneSessionPerProof'
    BY <1>3, <2>3, <2>4, <2>5, WriteStep
  <2>7. NoStalePassword' /\ NoProofWasted'
    BY <1>3 DEF IInv, NoStalePassword, SessionLive, NoProofWasted
  <2>8. ConfirmedIsProven'
    BY <1>3, <2>1, <2>2 DEF IInv, ConfirmedIsProven, Backed, known
  <2>9. AddressesUnique'
    <3>1. \A x \in User : users[x] # None /\ x # u /\ row.email # None
                            => users[x].email # row.email
      BY <1>3 DEF IInv, AddressesUnique, Holders
    <3> QED BY <2>1, <3>1 DEF IInv, AddressesUnique
  <2> QED BY <2>3, <2>6, <2>7, <2>8, <2>9 DEF IInv
<1>4. ASSUME NEW u \in User, NEW a \in Address \cup {None}, NEW confirmed \in BOOLEAN,
             AddUser(u, a, confirmed) \/ \E banned \in BOOLEAN :
                                           updateUserById(u, a, confirmed, banned)
      PROVE  IInv'
  <2>1. /\ calls' \in 0..MaxCalls /\ reqs' = reqs /\ reqs' \in [Req -> Request]
        /\ UNCHANGED <<requireEmailConfirmation, passwords, sessions, tokens, mailed,
                       proven, applied>>
    <3>1. Called /\ UNCHANGED <<requireEmailConfirmation, passwords, reqs, sessions,
                                tokens, mailed, proven, applied>>
      BY <1>4 DEF AddUser, updateUserById
    <3> QED BY <3>1, MaxCallsAssumption DEF Called, IInv, TypeOK
  <2>2. Holders(a) \subseteq {u}
    BY <1>4 DEF AddUser, updateUserById
  <2>3. CASE AddUser(u, a, confirmed)
    <3> DEFINE row == [email |-> a, confirmed |-> confirmed, banned |-> FALSE,
                       deleted |-> FALSE]
    <3>1. row \in UserRow /\ row.email = a
      BY DEF UserRow
    <3>2. users' = [users EXCEPT ![u] = row]
      BY <2>3 DEF AddUser
    <3>3. /\ Backed(u, a, vouched') /\ vouched \subseteq vouched'
          /\ vouched' \subseteq User \X Address
      BY <2>3 DEF AddUser, Backed, IInv, TypeOK
    <3>4. Backed(u, a, known')
      BY <3>3 DEF Backed, known
    <3> HIDE DEF row
    <3> QED BY <1>3, <2>1, <2>2, <3>1, <3>2, <3>3, <3>4
  <2>4. ASSUME NEW banned \in BOOLEAN, updateUserById(u, a, confirmed, banned) PROVE IInv'
    <3> DEFINE row == [users[u] EXCEPT !.email = a, !.confirmed = confirmed,
                                       !.banned = banned]
    <3>1. users[u] # None /\ users[u] \in UserRow /\ users' = [users EXCEPT ![u] = row]
      BY <2>4 DEF updateUserById, Exists, IInv, TypeOK
    <3>2. row \in UserRow /\ row.email = a /\ row.confirmed = confirmed
      BY <3>1 DEF UserRow
    <3>3. /\ vouched \subseteq vouched' /\ vouched' \subseteq User \X Address
          /\ Vouches(u, a, confirmed) => <<u, a>> \in vouched'
      BY <2>4 DEF updateUserById, Vouches, IInv, TypeOK
    <3>4. \/ a = users[u].email
          \/ Backed(u, a, vouched') /\ Holders(a) \subseteq {u}
      BY <2>2, <3>3 DEF Vouches, Backed
    <3>5. confirmed => \/ users[u].confirmed /\ a = users[u].email
                       \/ Backed(u, a, known')
      BY <3>3 DEF Vouches, Backed, known
    <3> HIDE DEF row
    <3> QED BY <1>3, <2>1, <3>1, <3>2, <3>3, <3>4, <3>5
  <2> QED BY <1>4, <2>3, <2>4
<1>5. ASSUME NEW r \in Req, Confirm(r) PROVE IInv'
  <2> DEFINE u == reqs[r].user
             row == [users[u] EXCEPT !.confirmed = TRUE]
             q == [reqs[r] EXCEPT !.pc = "confirmed"]
  <2>1. /\ reqs[r].pc = "checked" /\ u \in User /\ users[u] # None /\ users[u] \in UserRow
        /\ requireEmailConfirmation => Backed(u, users[u].email, known)
        /\ reqs[r] \in Request
    BY <1>5 DEF Confirm, IInv, TypeOK, RequestOK, Holding, history
  <2>2. /\ users' = [users EXCEPT ![u] = row] /\ reqs' = [reqs EXCEPT ![r] = q]
        /\ UNCHANGED <<requireEmailConfirmation, calls, passwords, sessions, tokens,
                       mailed, proven, vouched, applied>>
    BY <1>5 DEF Confirm, Goto, history
  <2>3. row \in UserRow /\ row.email = users[u].email
    BY <2>1 DEF UserRow
  <2>4. /\ q \in Request /\ q.pc = "confirmed" /\ q.user = u /\ q.token = reqs[r].token
    BY <2>1 DEF Request
  <2> HIDE DEF row, q
  <2>5. /\ reqs' \in [Req -> Request] /\ reqs'[r] = q
        /\ \A x \in Req : x # r => reqs'[x] = reqs[x]
        /\ users'[u] = row /\ users'[u] # None
    BY <2>1, <2>2, <2>3, <2>4, NoneAssumption DEF IInv, TypeOK
  <2>6. RequestOK(r)'
    BY <2>1, <2>2, <2>3, <2>4, <2>5 DEF RequestOK, Holding, Signed, IInv, known
  <2>7. reqs[r].pc \in Holding
    BY <2>1 DEF Holding
  <2>8. known' = known /\ vouched' = vouched /\ vouched' \subseteq User \X Address
        /\ calls' \in 0..MaxCalls
    BY <2>2 DEF known, IInv, TypeOK
  <2> QED BY <1>3, <2>1, <2>2, <2>3, <2>4, <2>5, <2>6, <2>7, <2>8
<1> QED BY <1>1, <1>2, <1>4, <1>5 DEF Admin

LEMMA CreateUserStep ==
  ASSUME IInv, NEW r \in Req, NEW u \in User, CreateUser(r, u) PROVE IInv'
<1> DEFINE a == reqs[r].address
           row == [email |-> a, confirmed |-> FALSE, banned |-> FALSE, deleted |-> FALSE]
           pc == IF requireEmailConfirmation THEN "issue" ELSE "checked"
           q == [reqs[r] EXCEPT !.user = u, !.password = None, !.purpose = "signup",
                                !.pc = pc]
<1>1. /\ reqs[r].pc = "create" /\ a \in Address /\ reqs[r].token = None
      /\ Holders(a) = {} /\ users[u] = None
      /\ reqs[r] \in Request /\ reqs[r].password \in Password \cup {None}
      /\ requireEmailConfirmation \in BOOLEAN
  BY PoliciesAssumption DEF CreateUser, At, IInv, TypeOK, RequestOK, Request, history
<1>2. /\ users' = [users EXCEPT ![u] = row]
      /\ passwords' = [passwords EXCEPT ![u] = reqs[r].password]
      /\ reqs' = [reqs EXCEPT ![r] = q]
      /\ UNCHANGED <<requireEmailConfirmation, calls, tokens, sessions, mailed, proven,
                     vouched, applied>>
  BY DEF CreateUser, history
<1>3. row \in UserRow /\ row.email = a /\ ~row.confirmed
  BY <1>1 DEF UserRow
<1>4. pc \in {"issue", "checked"} /\ (pc = "checked" <=> ~requireEmailConfirmation)
  BY <1>1
<1> HIDE DEF row, pc
<1>5. /\ q \in Request /\ q.pc = pc /\ q.user = u /\ q.token = None
      /\ q.address = a /\ q.purpose = "signup"
  BY <1>1, <1>4 DEF Request, Purpose, LinkPurpose
<1> HIDE DEF q
<1>6. /\ users' \in [User -> UserRow \cup {None}] /\ users'[u] = row /\ row # None
      /\ \A x \in User : x # u => users'[x] = users[x]
      /\ reqs'[r] = q /\ \A x \in Req : x # r => reqs'[x] = reqs[x]
  BY <1>2, <1>3, NoneAssumption DEF IInv, TypeOK
<1>7. TypeOK'
  BY <1>1, <1>2, <1>5, <1>6 DEF IInv, TypeOK
<1>8. Kept
  BY <1>1, <1>2, <1>6 DEF Kept, known
<1>9. RequestOK(r)'
  BY <1>1, <1>2, <1>3, <1>4, <1>5, <1>6 DEF RequestOK, Claim, Holding, Signed, Purpose,
     LinkPurpose
<1>10. \A t \in applied' : tokens'[t] # None /\ tokens'[t].consumed
  BY <1>2 DEF IInv, Linked
<1>11. /\ \A x \in Req : RequestOK(x)'
       /\ Exclusive' /\ Linked' /\ OneSessionPerProof'
  BY <1>2, <1>5, <1>6, <1>7, <1>8, <1>9, <1>10, WriteStep
<1>12. AddressesUnique'
  BY <1>1, <1>3, <1>6 DEF IInv, AddressesUnique, Holders
<1>13. ConfirmedIsProven' /\ NoProofWasted'
  BY <1>2, <1>3, <1>6 DEF IInv, ConfirmedIsProven, NoProofWasted
<1>14. NoStalePassword'
  BY <1>1, <1>2 DEF IInv, NoStalePassword, SessionLive, Linked, TypeOK, SessionRow
<1> QED BY <1>7, <1>11, <1>12, <1>13, <1>14 DEF IInv

LEMMA ChangePasswordStep ==
  ASSUME IInv, NEW r \in Req, ChangePassword(r) PROVE IInv'
<1> DEFINE u == reqs[r].user
           S == SessionsOf(u)
<1>1. /\ reqs[r].pc = "authorized" /\ u \in User /\ users[u] # None
      /\ reqs[r].session \in S /\ reqs[r].password \in Password \cup {None}
      /\ reqs[r].keep \in {"none", "own", "all"}
  BY DEF ChangePassword, At, IInv, TypeOK, RequestOK, Request, Signed, SessionsOf, history
<1>2. S \subseteq Session /\ \A s \in S : sessions[s] # None /\ sessions[s].user_id = u
  BY DEF SessionsOf
<1>3. Spared(r) \subseteq S
  BY <1>1 DEF Spared
<1>4. /\ passwords' = [passwords EXCEPT ![u] = reqs[r].password]
      /\ sessions' = [s \in Session |->
           IF s \in Spared(r) THEN [sessions[s] EXCEPT !.password = None]
                              ELSE revoke(S)[s]]
      /\ reqs' = [reqs EXCEPT ![r] = Idle]
      /\ UNCHANGED <<requireEmailConfirmation, calls, users, tokens, mailed, proven,
                     vouched, applied>>
  BY DEF ChangePassword, Finish, history
<1>5. /\ revoke(S) \in [Session -> SessionRow \cup {None}]
      /\ \A s \in Session :
           /\ sessions[s] = None <=> revoke(S)[s] = None
           /\ sessions[s] # None =>
                /\ revoke(S)[s].user_id = sessions[s].user_id
                /\ revoke(S)[s].proof = sessions[s].proof
                /\ revoke(S)[s].password = sessions[s].password
                /\ revoke(S)[s].revoked = (s \in S \/ sessions[s].revoked)
  BY <1>2, RevokeFacts DEF IInv
<1>6. ASSUME NEW s \in Session
      PROVE  /\ sessions'[s] \in SessionRow \cup {None}
             /\ sessions[s] = None <=> sessions'[s] = None
             /\ sessions[s] # None =>
                  /\ sessions'[s].user_id = sessions[s].user_id
                  /\ sessions'[s].proof = sessions[s].proof
                  /\ s \in S => sessions'[s].password = None \/ sessions'[s].revoked
                  /\ s \notin S => /\ sessions'[s].password = sessions[s].password
                                   /\ sessions'[s].revoked = sessions[s].revoked
  <2>1. CASE s \in Spared(r)
    <3> DEFINE row == [sessions[s] EXCEPT !.password = None]
    <3>1. sessions[s] \in SessionRow /\ sessions'[s] = row /\ s \in S
      BY <2>1, <1>2, <1>3, <1>4 DEF IInv, TypeOK
    <3>2. /\ row \in SessionRow /\ row.user_id = sessions[s].user_id
          /\ row.proof = sessions[s].proof /\ row.password = None
      BY <3>1 DEF SessionRow
    <3> HIDE DEF row
    <3> QED BY <1>2, <3>1, <3>2, NoneAssumption
  <2>2. CASE s \notin Spared(r)
    <3>1. sessions'[s] = revoke(S)[s] /\ sessions[s] \in SessionRow \cup {None}
      BY <2>2, <1>4 DEF IInv, TypeOK
    <3> QED BY <3>1, <1>5 DEF SessionRow
  <2> QED BY <2>1, <2>2
<1>7. Idle \in Request /\ Idle.pc = "idle"
  BY DEF Idle, Request, Op
<1>8. TypeOK' /\ Kept
  BY <1>1, <1>4, <1>6, <1>7 DEF IInv, TypeOK, Kept, known
<1>9. /\ reqs'[r] = Idle /\ RequestOK(r)' /\ Idle.pc \notin Holding
      /\ \A x \in Req : x # r => reqs'[x] = reqs[x]
  BY <1>4, <1>7 DEF IInv, TypeOK, RequestOK, Holding, Signed
<1>10. \A t \in applied' : tokens'[t] # None /\ tokens'[t].consumed
  BY <1>4 DEF IInv, Linked
<1>11. /\ \A x \in Req : RequestOK(x)'
       /\ Exclusive' /\ Linked' /\ OneSessionPerProof'
  BY <1>4, <1>6, <1>8, <1>9, <1>10, WriteStep
<1>12. NoStalePassword'
  <2> SUFFICES ASSUME NEW s \in Session, SessionLive(s)', sessions'[s].password # None
               PROVE  sessions'[s].password = passwords'[sessions'[s].user_id]
    BY DEF NoStalePassword
  <2>1. /\ sessions[s] # None /\ s \notin S
    BY <1>6 DEF SessionLive
  <2>2. /\ sessions[s].user_id # u /\ sessions[s].user_id \in User
        /\ sessions[s].password = passwords[sessions[s].user_id]
    BY <2>1, <1>6 DEF SessionsOf, IInv, NoStalePassword, SessionLive, TypeOK, SessionRow
  <2> QED BY <1>4, <1>6, <2>1, <2>2 DEF IInv, TypeOK
<1>13. AddressesUnique' /\ ConfirmedIsProven' /\ NoProofWasted'
  BY <1>4 DEF IInv, AddressesUnique, ConfirmedIsProven, NoProofWasted
<1> QED BY <1>8, <1>11, <1>12, <1>13 DEF IInv

\* A proof consumed together with its effect on its user, whose sessions end.
LEMMA ProofStep ==
  ASSUME IInv, NEW r \in Req, ResetPassword(r) \/ ConfirmEmailChange(r) PROVE IInv'
<1>1. PICK t \in Token : t = reqs[r].token /\ tokens[t] # None /\ tokens[t] \in TokenRow
  BY DEF IInv, TypeOK, Request, ResetPassword, ConfirmEmailChange, Consumable, Matches,
     history
<1> DEFINE u == tokens[t].user_id
           a == tokens[t].target
           token == [tokens[t] EXCEPT !.consumed = TRUE]
           S == SessionsOf(u)
<1>2. /\ u \in User /\ a \in Address /\ users[u] # None /\ users[u] \in UserRow
      /\ ~tokens[t].consumed
      /\ reqs[r].password \in Password \cup {None}
  BY <1>1 DEF ResetPassword, ConfirmEmailChange, Consumable, Matches, Exists, IInv, TypeOK,
     TokenRow, Request, history
<1>3. /\ token \in TokenRow /\ token.consumed /\ token.user_id = u
      /\ token.purpose = tokens[t].purpose /\ token.target = a
  BY <1>1 DEF TokenRow
<1>4. /\ tokens' = [tokens EXCEPT ![t] = token] /\ sessions' = revoke(S)
      /\ reqs' = [reqs EXCEPT ![r] = Idle] /\ applied' = applied \cup {t}
      /\ UNCHANGED <<requireEmailConfirmation, calls, mailed, vouched>>
  BY <1>1 DEF ResetPassword, ConfirmEmailChange, consume, Finish, history
<1>5. \/ /\ passwords' = [passwords EXCEPT ![u] = reqs[r].password]
         /\ UNCHANGED <<users, proven>>
      \/ /\ Holders(a) \subseteq {u}
         /\ users' = [users EXCEPT ![u] = [users[u] EXCEPT !.email = a,
                                                           !.confirmed = TRUE]]
         /\ proven' = proven \cup {<<u, a>>}
         /\ UNCHANGED passwords
  BY <1>1 DEF ResetPassword, ConfirmEmailChange, history
<1> HIDE DEF token
<1>6. S \subseteq Session /\ \A s \in S : sessions[s] # None /\ sessions[s].user_id = u
  BY DEF SessionsOf
<1>7. /\ sessions' \in [Session -> SessionRow \cup {None}]
      /\ \A s \in Session :
           /\ sessions[s] = None <=> sessions'[s] = None
           /\ sessions[s] # None =>
                /\ sessions'[s].user_id = sessions[s].user_id
                /\ sessions'[s].proof = sessions[s].proof
                /\ sessions'[s].password = sessions[s].password
                /\ sessions'[s].revoked = (s \in S \/ sessions[s].revoked)
  BY <1>4, <1>6, RevokeFacts DEF IInv
<1>8. /\ token # None /\ tokens'[t] = token
      /\ \A x \in Token : x # t => tokens'[x] = tokens[x]
      /\ tokens' \in [Token -> TokenRow \cup {None}]
  BY <1>3, <1>4, NoneAssumption DEF IInv, TypeOK
<1>9. /\ users' \in [User -> UserRow \cup {None}] /\ users'[u] # None
      /\ \A x \in User : x # u => users'[x] = users[x]
      /\ users'[u] = users[u] \/ /\ users'[u].email = a
                                 /\ <<u, a>> \in proven'
                                 /\ Holders(a) \subseteq {u}
      /\ passwords' \in [User -> Password \cup {None}]
      /\ \A x \in User : x # u => passwords'[x] = passwords[x]
      /\ proven \subseteq proven' /\ proven' \subseteq User \X Address
  <2>1. CASE UNCHANGED <<users, proven>>
    BY <2>1, <1>2, <1>5 DEF IInv, TypeOK
  <2>2. CASE /\ Holders(a) \subseteq {u}
             /\ users' = [users EXCEPT ![u] = [users[u] EXCEPT !.email = a,
                                                               !.confirmed = TRUE]]
             /\ proven' = proven \cup {<<u, a>>}
             /\ UNCHANGED passwords
    <3> DEFINE row == [users[u] EXCEPT !.email = a, !.confirmed = TRUE]
    <3>1. row \in UserRow /\ row.email = a
      BY <1>2 DEF UserRow
    <3>2. users' = [users EXCEPT ![u] = row]
      BY <2>2
    <3> HIDE DEF row
    <3>3. /\ users' \in [User -> UserRow \cup {None}]
          /\ users'[u] = row /\ row # None
          /\ \A x \in User : x # u => users'[x] = users[x]
      BY <1>2, <3>1, <3>2, NoneAssumption DEF IInv, TypeOK
    <3>4. /\ proven \subseteq proven' /\ proven' \subseteq User \X Address
          /\ <<u, a>> \in proven'
      BY <1>2, <2>2 DEF IInv, TypeOK
    <3>5. passwords' \in [User -> Password \cup {None}] /\ passwords' = passwords
      BY <2>2 DEF IInv, TypeOK
    <3> QED BY <2>2, <3>1, <3>3, <3>4, <3>5
  <2> QED BY <1>5, <2>1, <2>2
<1>10. Idle \in Request /\ Idle.pc = "idle"
  BY DEF Idle, Request, Op
<1>11. TypeOK'
  BY <1>4, <1>7, <1>8, <1>9, <1>10 DEF IInv, TypeOK
<1>12. Kept
  BY <1>2, <1>3, <1>4, <1>7, <1>8, <1>9 DEF Kept, Backed, known
<1>13. /\ reqs'[r] = Idle /\ RequestOK(r)' /\ Idle.pc \notin Holding
       /\ \A x \in Req : x # r => reqs'[x] = reqs[x]
  BY <1>4, <1>10 DEF IInv, TypeOK, RequestOK, Holding, Signed
<1>14. \A x \in applied' : tokens'[x] # None /\ tokens'[x].consumed
  BY <1>3, <1>4, <1>8 DEF IInv, Linked, TypeOK
<1>15. \A x \in Token : tokens'[x] # None =>
         /\ tokens[x] # None
         /\ tokens'[x].user_id = tokens[x].user_id
         /\ tokens'[x].purpose = tokens[x].purpose
         /\ tokens'[x].target = tokens[x].target
  BY <1>1, <1>3, <1>8
<1>16. /\ \A x \in Req : RequestOK(x)'
       /\ Exclusive' /\ Linked' /\ OneSessionPerProof'
  BY <1>7, <1>11, <1>12, <1>13, <1>14, <1>15, WriteStep
<1>17. NoStalePassword'
  <2> SUFFICES ASSUME NEW s \in Session, SessionLive(s)', sessions'[s].password # None
               PROVE  sessions'[s].password = passwords'[sessions'[s].user_id]
    BY DEF NoStalePassword
  <2>1. sessions[s] # None /\ s \notin S /\ ~sessions[s].revoked
    BY <1>7 DEF SessionLive
  <2>2. /\ sessions[s].user_id # u /\ sessions[s].user_id \in User
        /\ sessions[s].password = passwords[sessions[s].user_id]
    BY <2>1, <1>7 DEF SessionsOf, IInv, NoStalePassword, SessionLive, TypeOK, SessionRow
  <2> QED BY <1>7, <1>9, <2>1, <2>2
<1>18. AddressesUnique'
  BY <1>2, <1>9 DEF IInv, AddressesUnique, Holders, TypeOK, UserRow
<1>19. ConfirmedIsProven'
  BY <1>4, <1>9 DEF IInv, ConfirmedIsProven
<1>20. NoProofWasted'
  BY <1>4, <1>8 DEF IInv, NoProofWasted
<1> QED BY <1>11, <1>16, <1>17, <1>18, <1>19, <1>20 DEF IInv

--------------------------------------------------------------------------------

LEMMA ArriveStep == ASSUME IInv, NEW r \in Req, Arrive(r) PROVE IInv'
<1>1. ASSUME NEW q \in Request, Begin(r, q),
             \/ /\ q.pc = "lookup" /\ q.address \in Address /\ q.token = None
                /\ q.op = "ask" => q.purpose \in Purpose
             \/ /\ q.pc = "consume" /\ (q.op = "verify" => q.purpose \in LinkPurpose)
                /\ q.token \in mailed \cup {None}
             \/ /\ q.pc = "authorize" /\ q.session \in Session
                /\ sessions[q.session] # None /\ sessions[q.session].user_id = q.user
                /\ q.op = "updateUser" => q.address \in Address
      PROVE  IInv'
  <2>1. /\ reqs' = [reqs EXCEPT ![r] = q] /\ reqs'[r] = q
        /\ calls' \in 0..MaxCalls
        /\ UNCHANGED <<requireEmailConfirmation, tables, mailed, proven, vouched, applied>>
    BY <1>1, MaxCallsAssumption DEF Begin, Called, IInv, TypeOK, history
  <2>2. q.pc = "authorize" => q.user \in User /\ users[q.user] # None
    BY <1>1 DEF IInv, TypeOK, Linked, SessionRow
  <2>3. RequestOK(r)' /\ q.pc \notin Holding
    BY <1>1, <2>1, <2>2 DEF RequestOK, Holding, Signed, tables
  <2>4. mailed' = mailed /\ mailed' \subseteq Token
    BY <2>1 DEF IInv, TypeOK
  <2> QED BY <2>1, <2>3, <2>4, RequestStep
<1>2. ASSUME NEW a \in Address, NEW p \in Password,
             BeginSignUp(r, a, p) \/ BeginSignIn(r, a, p)
      PROVE  IInv'
  <2> DEFINE up == [Idle EXCEPT !.pc = "lookup", !.address = a, !.password = p]
             in == [Idle EXCEPT !.pc = "lookup", !.op = "signIn", !.address = a,
                                !.password = p]
  <2>1. Begin(r, up) \/ Begin(r, in)
    BY <1>2 DEF BeginSignUp, BeginSignIn
  <2>2. /\ up \in Request /\ up.pc = "lookup" /\ up.address \in Address
        /\ up.token = None /\ up.op # "ask"
    BY DEF Idle, Request, Op
  <2>3. /\ in \in Request /\ in.pc = "lookup" /\ in.address \in Address
        /\ in.token = None /\ in.op # "ask"
    BY DEF Idle, Request, Op
  <2> HIDE DEF up, in
  <2> QED BY <1>1, <2>1, <2>2, <2>3
<1>3. ASSUME NEW a \in Address, NEW purpose \in Purpose, BeginAsk(r, a, purpose)
      PROVE  IInv'
  <2> DEFINE q == [Idle EXCEPT !.pc = "lookup", !.op = "ask", !.address = a,
                               !.purpose = purpose]
  <2>1. /\ q \in Request /\ q.pc = "lookup" /\ q.address = a /\ q.token = None
        /\ q.purpose = purpose
    BY DEF Idle, Request, Op
  <2>2. Begin(r, q)
    BY <1>3 DEF BeginAsk
  <2> HIDE DEF q
  <2> QED BY <1>1, <2>1, <2>2
<1>4. ASSUME NEW a \in Address, NEW t \in mailed \cup {None}, NEW bound \in BOOLEAN,
             NEW purpose \in LinkPurpose, BeginVerify(r, a, t, purpose, bound)
      PROVE  IInv'
  <2> DEFINE q == [Idle EXCEPT !.pc = "consume", !.op = "verify", !.address = a,
                               !.token = t, !.purpose = purpose, !.bound = bound]
  <2>1. q \in Request /\ q.pc = "consume" /\ q.purpose = purpose /\ q.token = t
    BY DEF Idle, Request, Op, Purpose, IInv, TypeOK
  <2>2. Begin(r, q)
    BY <1>4 DEF BeginVerify
  <2> HIDE DEF q
  <2> QED BY <1>1, <2>1, <2>2
<1>5. ASSUME NEW a \in Address, NEW t \in mailed \cup {None}, NEW bound \in BOOLEAN,
             NEW p \in Password, BeginResetPassword(r, a, t, p, bound)
      PROVE  IInv'
  <2> DEFINE q == [Idle EXCEPT !.pc = "consume", !.op = "resetPassword", !.address = a,
                               !.token = t, !.password = p, !.bound = bound]
  <2>1. q \in Request /\ q.pc = "consume" /\ q.op # "verify" /\ q.token = t
    BY DEF Idle, Request, Op, IInv, TypeOK
  <2>2. Begin(r, q)
    BY <1>5 DEF BeginResetPassword
  <2> HIDE DEF q
  <2> QED BY <1>1, <2>1, <2>2
<1>6. ASSUME NEW a \in Address, NEW t \in mailed \cup {None}, NEW bound \in BOOLEAN,
             BeginConfirmEmailChange(r, a, t, bound)
      PROVE  IInv'
  <2> DEFINE q == [Idle EXCEPT !.pc = "consume", !.op = "confirmEmailChange",
                               !.address = a, !.token = t, !.bound = bound]
  <2>1. q \in Request /\ q.pc = "consume" /\ q.op # "verify" /\ q.token = t
    BY DEF Idle, Request, Op, IInv, TypeOK
  <2>2. Begin(r, q)
    BY <1>6 DEF BeginConfirmEmailChange
  <2> HIDE DEF q
  <2> QED BY <1>1, <2>1, <2>2
<1>7. ASSUME NEW s \in Session, NEW a \in Address, BeginUpdateUser(r, s, a)
      PROVE  IInv'
  <2> DEFINE u == sessions[s].user_id
             q == [Idle EXCEPT !.pc = "authorize", !.op = "updateUser", !.session = s,
                               !.user = u, !.address = a]
  <2>1. sessions[s] # None /\ u \in User /\ Begin(r, q)
    BY <1>7 DEF BeginUpdateUser, IInv, TypeOK, SessionRow
  <2>2. /\ q \in Request /\ q.pc = "authorize" /\ q.session = s /\ q.user = u
        /\ q.address = a
    BY <2>1 DEF Idle, Request, Op
  <2> HIDE DEF q
  <2> QED BY <1>1, <2>1, <2>2
<1>8. ASSUME NEW s \in Session, NEW current \in Password, NEW p \in Password,
             NEW keep \in {"none", "own", "all"},
             BeginChangePassword(r, s, current, p, keep)
      PROVE  IInv'
  <2> DEFINE u == sessions[s].user_id
             q == [Idle EXCEPT !.pc = "authorize", !.op = "changePassword",
                               !.session = s, !.user = u, !.current = current,
                               !.password = p, !.keep = keep]
  <2>1. sessions[s] # None /\ u \in User /\ Begin(r, q)
    BY <1>8 DEF BeginChangePassword, IInv, TypeOK, SessionRow
  <2>2. /\ q \in Request /\ q.pc = "authorize" /\ q.session = s /\ q.user = u
        /\ q.op # "updateUser"
    BY <2>1 DEF Idle, Request, Op
  <2> HIDE DEF q
  <2> QED BY <1>1, <2>1, <2>2
<1> QED
  BY <1>2, <1>3, <1>4, <1>5, <1>6, <1>7, <1>8 DEF Arrive, IInv, TypeOK

\* The steps of a handler that write nothing.
LEMMA MoveStep ==
  ASSUME IInv, NEW r \in Req,
         \/ SignUpLookup(r) \/ VerifyRefused(r) \/ CheckUser(r) \/ Authorize(r)
         \/ UpdateUser(r) \/ Mail(r) \/ Stop(r)
         \/ \E u \in User : SignInLookup(r, u) \/ AskLookup(r, u)
  PROVE  IInv'
<1>1. /\ reqs[r] \in Request /\ RequestOK(r) /\ mailed \subseteq Token
      /\ calls \in 0..MaxCalls
  BY DEF IInv, TypeOK
<1>2. ASSUME NEW q \in Request, reqs' = [reqs EXCEPT ![r] = q], OnlyRequests,
             reqs'[r] = q => RequestOK(r)',
             q.pc \in Holding => reqs[r].pc \in Holding /\ q.token = reqs[r].token
      PROVE  IInv'
  BY <1>1, <1>2, RequestStep DEF OnlyRequests, IInv, TypeOK, history
<1>3. CASE SignUpLookup(r) \/ VerifyRefused(r) \/ CheckUser(r) \/ Authorize(r)
  <2>1. PICK pc \in {"create", "failed", "checked", "authorized"} :
          /\ reqs' = [reqs EXCEPT ![r] = [@ EXCEPT !.pc = pc]] /\ OnlyRequests
          /\ pc = "create" => reqs[r].pc = "lookup"
          /\ pc = "checked" => reqs[r].pc = "consumed"
          /\ pc = "authorized" => reqs[r].pc = "authorize"
    BY <1>3 DEF SignUpLookup, VerifyRefused, CheckUser, Authorize, At, Goto
  <2> DEFINE q == [reqs[r] EXCEPT !.pc = pc]
  <2>2. /\ q \in Request /\ q.pc = pc /\ q.op = reqs[r].op /\ q.address = reqs[r].address
        /\ q.token = reqs[r].token /\ q.user = reqs[r].user
        /\ q.session = reqs[r].session
    BY <1>1 DEF Request
  <2>3. reqs' = [reqs EXCEPT ![r] = q]
    BY <2>1
  <2> HIDE DEF q
  <2>4. reqs'[r] = q => RequestOK(r)'
    <3>1. /\ UNCHANGED <<users, sessions, tokens, mailed, proven, vouched, applied,
                        requireEmailConfirmation>>
          /\ q.pc \in {"create", "failed", "checked", "authorized"}
      BY <2>1, <2>2 DEF OnlyRequests, tables, history
    <3>2. known' = known
      BY <3>1 DEF known
    <3>3. CASE pc = "checked"
      BY <1>1, <2>1, <2>2, <3>1, <3>2, <3>3 DEF RequestOK, Holding, Signed
    <3>4. CASE pc # "checked"
      BY <1>1, <2>1, <2>2, <3>1, <3>2, <3>4 DEF RequestOK, Holding, Signed
    <3> QED BY <3>3, <3>4
  <2>5. q.pc \in Holding => reqs[r].pc \in Holding
    BY <2>1, <2>2 DEF Holding
  <2> QED BY <1>2, <2>1, <2>2, <2>3, <2>4, <2>5
<1>4. CASE UpdateUser(r)
  <2> DEFINE q == [reqs[r] EXCEPT !.pc = "issue", !.purpose = "email_change",
                                  !.session = None]
  <2>1. /\ q \in Request /\ q.pc = "issue" /\ q.address = reqs[r].address
        /\ q.user = reqs[r].user /\ q.purpose = "email_change"
        /\ q.purpose \in Purpose /\ q.purpose \notin LinkPurpose
    <3>1. "email_change" \in Purpose /\ "email_change" \notin LinkPurpose
      BY DEF Purpose, LinkPurpose
    <3>2. reqs[r] \in Request
      BY <1>1
    <3> QED BY <3>1, <3>2 DEF Request
  <2>2. /\ reqs' = [reqs EXCEPT ![r] = q] /\ OnlyRequests
        /\ reqs[r].pc = "authorized" /\ reqs[r].op = "updateUser"
    BY <1>4 DEF UpdateUser, At
  <2> HIDE DEF q
  <2>3. reqs'[r] = q => RequestOK(r)'
    BY <1>1, <2>1, <2>2 DEF RequestOK, Holding, Signed, OnlyRequests, tables, history
  <2>4. q.pc \notin Holding
    BY <2>1 DEF Holding
  <2> QED BY <1>2, <2>1, <2>2, <2>3, <2>4
<1>5. CASE Mail(r) \/ Stop(r)
  <2>1. Idle \in Request /\ Idle.pc = "idle"
    BY DEF Idle, Request, Op
  <2>2. /\ reqs' = [reqs EXCEPT ![r] = Idle] /\ reqs'[r] = Idle
        /\ UNCHANGED <<requireEmailConfirmation, calls, tables, proven, vouched, applied>>
        /\ mailed \subseteq mailed' /\ mailed' \subseteq Token
    BY <1>1, <1>5 DEF Mail, Stop, Finish, OnlyRequests, RequestOK, IInv, TypeOK, history
  <2>3. RequestOK(r)' /\ Idle.pc \notin Holding
    BY <2>1, <2>2 DEF RequestOK, Holding, Signed
  <2> QED BY <1>1, <2>1, <2>2, <2>3, RequestStep
<1>6. ASSUME NEW u \in User, SignInLookup(r, u) PROVE IInv'
  <2> DEFINE q == [reqs[r] EXCEPT !.pc = "verified", !.user = u, !.address = None]
  <2>1. q \in Request /\ q.pc = "verified" /\ q.user = u
    BY <1>1 DEF Request
  <2>2. reqs' = [reqs EXCEPT ![r] = q] /\ OnlyRequests /\ users[u] # None
    BY <1>6 DEF SignInLookup, Found, Exists
  <2> HIDE DEF q
  <2>3. (reqs'[r] = q => RequestOK(r)') /\ q.pc \notin Holding
    BY <2>1, <2>2 DEF RequestOK, Holding, Signed, OnlyRequests, tables, history
  <2> QED BY <1>2, <2>1, <2>2, <2>3
<1>7. ASSUME NEW u \in User, AskLookup(r, u) PROVE IInv'
  <2> DEFINE q == [reqs[r] EXCEPT !.pc = "issue", !.user = u]
  <2>1. /\ q \in Request /\ q.pc = "issue" /\ q.user = u
        /\ q.address = reqs[r].address /\ q.purpose = reqs[r].purpose
    BY <1>1 DEF Request
  <2>2. /\ reqs' = [reqs EXCEPT ![r] = q] /\ OnlyRequests /\ users[u] # None
        /\ users[u].email = reqs[r].address
        /\ reqs[r].pc = "lookup" /\ reqs[r].op = "ask"
    BY <1>7 DEF AskLookup, Found, Exists, At
  <2> HIDE DEF q
  <2>3. (reqs'[r] = q => RequestOK(r)') /\ q.pc \notin Holding
    BY <1>1, <2>1, <2>2 DEF RequestOK, Claim, Holding, Signed, OnlyRequests, tables, history
  <2> QED BY <1>2, <2>1, <2>2, <2>3
<1> QED BY <1>3, <1>4, <1>5, <1>6, <1>7

LEMMA InitInv == Init => IInv
<1>1. ASSUME Init, Empty PROVE IInv
  <2>1. Idle \in Request /\ Idle.pc = "idle"
    BY DEF Idle, Request, Op
  <2>2. TypeOK
    BY <1>1, <2>1, MaxCallsAssumption DEF Init, Empty, TypeOK
  <2>3. Linked /\ AddressesUnique /\ ConfirmedIsProven /\ NoStalePassword /\ NoProofWasted
        /\ OneSessionPerProof
    BY <1>1 DEF Init, Empty, Linked, AddressesUnique, ConfirmedIsProven, NoStalePassword,
       NoProofWasted, OneSessionPerProof, SessionLive
  <2>4. Exclusive /\ \A r \in Req : RequestOK(r)
    BY <1>1, <2>1 DEF Init, Exclusive, Holds, RequestOK, Holding, Signed
  <2> QED BY <2>2, <2>3, <2>4 DEF IInv
<1>2. ASSUME Init, NEW u \in User, NEW a \in Address, NEW p \in Password,
             NEW s \in Session, NEW t \in Token, Inhabited(u, a, p, s, t)
      PROVE  IInv
  <2> DEFINE row == [email |-> a, confirmed |-> TRUE, banned |-> FALSE, deleted |-> FALSE]
             token == [user_id |-> u, purpose |-> "email_otp", target |-> a,
                       consumed |-> FALSE, attempt_count |-> 0]
             session == [user_id |-> u, revoked |-> FALSE, password |-> p, proof |-> None]
  <2>1. Idle \in Request /\ Idle.pc = "idle"
    BY DEF Idle, Request, Op
  <2>2. /\ row \in UserRow /\ row.email = a
        /\ token \in TokenRow /\ token.user_id = u /\ token.target = a
        /\ token.purpose = "email_otp" /\ ~token.consumed
        /\ session \in SessionRow /\ session.user_id = u /\ session.password = p
        /\ session.proof = None
    BY MaxAttemptsAssumption DEF UserRow, TokenRow, SessionRow, Purpose, LinkPurpose
  <2>3. /\ users = [v \in User |-> IF v = u THEN row ELSE None]
        /\ passwords = [v \in User |-> IF v = u THEN p ELSE None]
        /\ tokens = [x \in Token |-> IF x = t THEN token ELSE None]
        /\ sessions = [x \in Session |-> IF x = s THEN session ELSE None]
        /\ mailed = {t} /\ proven = {<<u, a>>} /\ vouched = {} /\ applied = {}
        /\ reqs = [r \in Req |-> Idle] /\ calls = 0
        /\ requireEmailConfirmation \in ConfirmationPolicies
    BY <1>2 DEF Init, Inhabited
  <2> HIDE DEF row, token, session
  <2>4. row # None /\ token # None /\ session # None
    BY <2>2, NoneAssumption
  <2>5. TypeOK
    BY <2>1, <2>2, <2>3, MaxCallsAssumption DEF TypeOK
  <2>6. Linked
    BY <2>2, <2>3, <2>4 DEF Linked, Claim
  <2>7. AddressesUnique /\ ConfirmedIsProven /\ NoStalePassword
    BY <2>2, <2>3, <2>4 DEF AddressesUnique, ConfirmedIsProven, NoStalePassword, SessionLive
  <2>8. NoProofWasted /\ OneSessionPerProof
    BY <2>2, <2>3 DEF NoProofWasted, OneSessionPerProof
  <2>9. Exclusive /\ \A r \in Req : RequestOK(r)
    BY <2>1, <2>3 DEF Exclusive, Holds, RequestOK, Holding, Signed
  <2> QED BY <2>5, <2>6, <2>7, <2>8, <2>9 DEF IInv
<1> QED BY <1>1, <1>2 DEF Init

LEMMA StepInv == IInv /\ [Next]_vars => IInv'
<1> SUFFICES ASSUME IInv, [Next]_vars PROVE IInv'
  OBVIOUS
<1>1. ASSUME NEW r \in Req, Serve(r) PROVE IInv'
  BY <1>1, MoveStep, CreateUserStep, SignInStep, IssueStep, VerifyStep, RowStep, ProofStep,
     ChangePasswordStep DEF Serve
<1>2. CASE UNCHANGED vars
  <2>1. UNCHANGED <<requireEmailConfirmation, users, passwords, tokens, sessions, mailed,
                    reqs, calls, proven, vouched, applied>>
    BY <1>2 DEF vars, tables, history
  <2>2. TypeOK' /\ Kept
    BY <2>1 DEF IInv, TypeOK, Kept, known
  <2>3. \A t \in applied' : tokens'[t] # None /\ tokens'[t].consumed
    BY <2>1 DEF IInv, Linked
  <2>4. /\ \A x \in Req : RequestOK(x)'
        /\ Exclusive' /\ Linked' /\ OneSessionPerProof'
    BY <2>1, <2>2, <2>3, WriteStep
  <2>5. AddressesUnique' /\ ConfirmedIsProven' /\ NoStalePassword' /\ NoProofWasted'
    BY <2>1 DEF IInv, AddressesUnique, ConfirmedIsProven, NoStalePassword, NoProofWasted,
       SessionLive
  <2> QED BY <2>2, <2>4, <2>5 DEF IInv
<1>3. ASSUME NEW r \in Req, Arrive(r) \/ RecordFailure(r) \/ Stop(r) PROVE IInv'
  BY <1>3, ArriveStep, FailureStep, MoveStep
<1> QED BY <1>1, <1>2, <1>3, RowStep DEF Next

--------------------------------------------------------------------------------

\* Type correctness of every reachable state.
THEOREM TypeCorrect == Spec => []TypeOK
<1>1. IInv => TypeOK
  BY DEF IInv
<1> QED BY <1>1, InitInv, StepInv, PTL DEF Spec

\* Whatever sign-ups and changes of address race, no two users hold one address.
THEOREM AddressesCorrect == Spec => []AddressesUnique
<1>1. IInv => AddressesUnique
  BY DEF IInv
<1> QED BY <1>1, InitInv, StepInv, PTL DEF Spec

\* Under the confirmation policy somebody answers for every confirmed address: its
\* mailbox, or who gave it to the user; also when it was replaced since the mail was sent.
THEOREM ConfirmationsCorrect == Spec => []ConfirmedIsProven
<1>1. IInv => ConfirmedIsProven
  BY DEF IInv
<1> QED BY <1>1, InitInv, StepInv, PTL DEF Spec

\* No live session outlives the password it was opened with.
THEOREM PasswordsCorrect == Spec => []NoStalePassword
<1>1. IInv => NoStalePassword
  BY DEF IInv
<1> QED BY <1>1, InitInv, StepInv, PTL DEF Spec

\* A mailed proof opens at most one session.
THEOREM ProofsCorrect == Spec => []OneSessionPerProof
<1>1. IInv => OneSessionPerProof
  BY DEF IInv
<1> QED BY <1>1, InitInv, StepInv, PTL DEF Spec

\* A proof that changes a password or an address is consumed only by the step that makes
\* the change.
THEOREM ProofsUsed == Spec => []NoProofWasted
<1>1. IInv => NoProofWasted
  BY DEF IInv
<1> QED BY <1>1, InitInv, StepInv, PTL DEF Spec

--------------------------------------------------------------------------------
(* Accounts implements ProofTokens, and its two action properties hold.    *)

\* ProofState, case by case.
States ==
  \A t \in Token :
    /\ tokens[t] = None => ProofState(t) = "unissued"
    /\ tokens[t] # None /\ ~tokens[t].consumed => ProofState(t) = "issued"
    /\ tokens[t] # None /\ tokens[t].consumed /\ t \in applied => ProofState(t) = "applied"
    /\ tokens[t] # None /\ tokens[t].consumed /\ t \notin applied =>
         ProofState(t) = IF tokens[t].attempt_count >= MaxAttempts THEN "burnt" ELSE "taken"

LEMMA ProofStates == States /\ States'
BY DEF States, ProofState

\* One token moves as ProofTokens allows, the others stay.
LEMMA Moves ==
  ASSUME NEW t \in Token,
         \A x \in Token : x # t => ProofState(x)' = ProofState(x),
         \/ ProofState(t)' = ProofState(t)
         \/ ProofState(t) = "unissued" /\ ProofState(t)' = "issued"
         \/ ProofState(t) = "issued" /\ ProofState(t)' \in {"taken", "applied", "burnt"}
         \/ ProofState(t) = "taken" /\ ProofState(t)' = "applied"
  PROVE  Proofs!Next \/ UNCHANGED Proofs!vars
<1> DEFINE state == [x \in Token |-> ProofState(x)]
           next == [x \in Token |-> ProofState(x)']
<1>1. CASE ProofState(t)' = ProofState(t)
  BY <1>1 DEF Proofs!vars
<1>2. CASE ProofState(t)' # ProofState(t)
  <2>1. next = [state EXCEPT ![t] = ProofState(t)'] /\ state[t] = ProofState(t)
    OBVIOUS
  <2>2. \/ Proofs!Issue(t) \/ Proofs!Take(t) \/ Proofs!Apply(t) \/ Proofs!Burn(t)
    BY <1>2, <2>1 DEF Proofs!Issue, Proofs!Take, Proofs!Apply, Proofs!Burn, Proofs!Move
  <2> QED BY <2>2 DEF Proofs!Next
<1> QED BY <1>1, <1>2

\* A step that leaves the tokens and what was applied alone leaves their states.
LEMMA Stays ==
  ASSUME UNCHANGED <<tokens, applied>>
  PROVE  UNCHANGED Proofs!vars
BY DEF ProofState, Proofs!vars

LEMMA Others ==
  ASSUME NEW t \in Token,
         \A x \in Token \ {t} : tokens'[x] = tokens[x] /\ (x \in applied' <=> x \in applied)
  PROVE  \A x \in Token : x # t => ProofState(x)' = ProofState(x)
<1> SUFFICES ASSUME NEW x \in Token, x # t PROVE ProofState(x)' = ProofState(x)
  OBVIOUS
<1>1. tokens'[x] = tokens[x] /\ (x \in applied' <=> x \in applied)
  OBVIOUS
<1> QED BY <1>1 DEF ProofState

LEMMA StepImplements ==
  IInv /\ [Next]_vars => [Proofs!Next]_(Proofs!vars)
<1> DEFINE Goal == Proofs!Next \/ UNCHANGED Proofs!vars
<1> SUFFICES ASSUME IInv, [Next]_vars PROVE Goal
  OBVIOUS
<1>1. ASSUME NEW r \in Req, NEW t \in Token, Issue(r, t) PROVE Goal
  <2>1. /\ tokens[t] = None /\ tokens'[t] # None /\ ~tokens'[t].consumed
        /\ \A x \in Token : x # t => tokens'[x] = tokens[x]
        /\ applied' = applied
    <3> DEFINE row == [user_id |-> reqs[r].user, purpose |-> reqs[r].purpose,
                       target |-> reqs[r].address, consumed |-> FALSE,
                       attempt_count |-> 0]
    <3>1. /\ tokens[t] = None /\ tokens' = [tokens EXCEPT ![t] = row]
          /\ applied' = applied /\ reqs[r].pc = "issue" /\ RequestOK(r)
      BY <1>1 DEF Issue, IInv, history
    <3>2. row \in TokenRow /\ ~row.consumed
      BY <3>1, MaxAttemptsAssumption DEF RequestOK, TokenRow
    <3> HIDE DEF row
    <3> QED BY <3>1, <3>2, NoneAssumption DEF IInv, TypeOK
  <2>2. ProofState(t) = "unissued" /\ ProofState(t)' = "issued"
    BY <2>1, ProofStates DEF States
  <2>3. \A x \in Token : x # t => ProofState(x)' = ProofState(x)
    BY <2>1, Others
  <2> HIDE DEF Goal
  <2> QED BY <2>2, <2>3, Moves DEF Goal
<1>2. ASSUME NEW r \in Req, RecordFailure(r), Matches(r, "email_otp") PROVE Goal
  <2>1. PICK t \in Token : t = reqs[r].token /\ tokens[t] \in TokenRow
    BY <1>2 DEF IInv, TypeOK, Request, Matches
  <2>2. /\ tokens[t] # None /\ ~tokens[t].consumed /\ applied' = applied
        /\ tokens' = [tokens EXCEPT ![t].attempt_count = @ + 1,
                        ![t].consumed = tokens[t].attempt_count + 1 >= MaxAttempts]
    BY <1>2, <2>1 DEF RecordFailure, Matches, recordFailure, history
  <2> DEFINE n == tokens[t].attempt_count + 1
             burnt == n >= MaxAttempts
             row == [tokens[t] EXCEPT !.attempt_count = n, !.consumed = burnt]
  <2>3. n \in Nat /\ burnt \in BOOLEAN
    BY <2>1, MaxAttemptsAssumption DEF TokenRow
  <2>12. tokens' = [tokens EXCEPT ![t] = row]
    BY <2>2
  <2>4. row.attempt_count = n /\ row.consumed = burnt
    <3> HIDE DEF n, burnt
    <3> QED BY <2>1, <2>3 DEF TokenRow
  <2>5. n \in 0..MaxAttempts
    BY <1>2, <2>1, MaxAttemptsAssumption DEF TokenRow, Matches
  <2>6. row \in TokenRow
    <3> HIDE DEF n, burnt
    <3> QED BY <2>1, <2>3, <2>5 DEF TokenRow
  <2>7. burnt <=> n >= MaxAttempts
    OBVIOUS
  <2> HIDE DEF row, n, burnt
  <2>8. /\ tokens'[t] = row /\ row # None
        /\ \A x \in Token : x # t => tokens'[x] = tokens[x]
    BY <2>12, <2>6, NoneAssumption DEF IInv, TypeOK
  <2>9. t \notin applied'
    BY <2>2 DEF IInv, Linked
  <2>10. ProofState(t) = "issued" /\ ProofState(t)' \in {"issued", "burnt"}
    BY <2>2, <2>4, <2>7, <2>8, <2>9, ProofStates DEF States
  <2>11. \A x \in Token : x # t => ProofState(x)' = ProofState(x)
    BY <2>2, <2>8, Others
  <2> HIDE DEF Goal
  <2> QED BY <2>10, <2>11, Moves DEF Goal
<1>3. ASSUME NEW r \in Req, NEW t \in Token, t = reqs[r].token,
             tokens[t] # None, ~tokens[t].consumed, tokens[t].attempt_count < MaxAttempts,
             tokens' = consume(t), applied' = applied \/ applied' = applied \cup {t}
      PROVE  Goal
  <2> DEFINE row == [tokens[t] EXCEPT !.consumed = TRUE]
  <2>1. /\ row \in TokenRow /\ row.consumed /\ row.attempt_count = tokens[t].attempt_count
        /\ tokens' = [tokens EXCEPT ![t] = row]
    BY <1>3 DEF IInv, TypeOK, TokenRow, consume
  <2>2. row.attempt_count \in Nat
    BY <2>1, MaxAttemptsAssumption DEF TokenRow
  <2> HIDE DEF row
  <2>3. /\ tokens'[t] = row /\ row # None
        /\ \A x \in Token : x # t => tokens'[x] = tokens[x]
    BY <2>1, NoneAssumption DEF IInv, TypeOK
  <2>4. ProofState(t) = "issued" /\ ProofState(t)' \in {"taken", "applied"}
    BY <1>3, <2>1, <2>2, <2>3, ProofStates, MaxAttemptsAssumption DEF States
  <2>5. \A x \in Token : x # t => ProofState(x)' = ProofState(x)
    BY <1>3, <2>3, Others
  <2> HIDE DEF Goal
  <2> QED BY <2>4, <2>5, Moves DEF Goal
<1>4. ASSUME NEW r \in Req, Verify(r) \/ ResetPassword(r) \/ ConfirmEmailChange(r)
      PROVE  Goal
  <2>1. PICK t \in Token :
          /\ t = reqs[r].token /\ tokens[t] # None /\ ~tokens[t].consumed
          /\ tokens[t].attempt_count < MaxAttempts /\ tokens' = consume(t)
          /\ applied' = applied \/ applied' = applied \cup {t}
    BY <1>4 DEF Verify, ResetPassword, ConfirmEmailChange, Consumable, Matches, IInv,
       TypeOK, Request, history
  <2> QED BY <1>3, <2>1
<1>5. ASSUME NEW r \in Req, NEW s \in Session, OpenSession(r, s) PROVE Goal
  <2>1. CASE reqs[r].token = None
    <3>1. UNCHANGED <<tokens, applied>>
      BY <1>5, <2>1 DEF OpenSession, history
    <3> QED BY <3>1, Stays
  <2>2. CASE reqs[r].token # None
    <3>1. PICK t \in Token : t = reqs[r].token
      BY <2>2 DEF IInv, TypeOK, Request
    <3>2. /\ tokens[t] # None /\ tokens[t].consumed
          /\ tokens[t].attempt_count < MaxAttempts
          /\ tokens[t].attempt_count \in Nat
      <4>1. reqs[r].pc \in Holding /\ RequestOK(r) /\ tokens[t] \in TokenRow \cup {None}
        BY <1>5 DEF OpenSession, IInv, Holding, TypeOK, history
      <4>2. /\ tokens[t] # None /\ tokens[t].consumed
            /\ tokens[t].attempt_count < MaxAttempts
        BY <4>1, <2>2, <3>1 DEF RequestOK
      <4> QED BY <4>1, <4>2, MaxAttemptsAssumption DEF TokenRow
    <3>3. tokens' = tokens /\ applied' = applied \cup {t}
      BY <1>5, <2>2, <3>1 DEF OpenSession, history
    <3>4. ProofState(t) \in {"taken", "applied"} /\ ProofState(t)' = "applied"
      BY <3>2, <3>3, ProofStates, MaxAttemptsAssumption DEF States
    <3>5. \A x \in Token : x # t => ProofState(x)' = ProofState(x)
      BY <3>3, Others
    <3> HIDE DEF Goal
    <3> QED BY <3>4, <3>5, Moves DEF Goal
  <2> QED BY <2>1, <2>2
<1>6. CASE UNCHANGED <<tokens, applied>>
  BY <1>6, Stays
<1>7. \/ UNCHANGED <<tokens, applied>>
      \/ \E r \in Req :
           \/ \E t \in Token : Issue(r, t)
           \/ RecordFailure(r) /\ Matches(r, "email_otp")
           \/ Verify(r) \/ ResetPassword(r) \/ ConfirmEmailChange(r)
           \/ \E s \in Session : OpenSession(r, s)
  <2>1. CASE \E r \in Req : Arrive(r)
    <3>1. \E r \in Req : \E q : Begin(r, q)
      BY <2>1 DEF Arrive, BeginSignUp, BeginSignIn, BeginAsk, BeginVerify,
         BeginResetPassword, BeginConfirmEmailChange, BeginUpdateUser, BeginChangePassword
    <3> QED BY <3>1 DEF Begin, tables, history
  <2>2. ASSUME NEW r \in Req, Serve(r) \/ RecordFailure(r) \/ Stop(r)
        PROVE  \/ UNCHANGED <<tokens, applied>>
               \/ \E t \in Token : Issue(r, t)
               \/ RecordFailure(r) /\ Matches(r, "email_otp")
               \/ Verify(r) \/ ResetPassword(r) \/ ConfirmEmailChange(r)
               \/ \E s \in Session : OpenSession(r, s)
    <3>1. CASE RecordFailure(r) /\ ~Matches(r, "email_otp")
      BY <3>1 DEF RecordFailure, history
    <3>2. CASE SignUpLookup(r) \/ VerifyRefused(r) \/ CheckUser(r) \/ Authorize(r)
                 \/ UpdateUser(r) \/ Mail(r) \/ Stop(r)
      BY <3>2 DEF SignUpLookup, Mail, VerifyRefused, CheckUser, Authorize, UpdateUser, Stop,
         OnlyRequests, tables, history
    <3>3. CASE Confirm(r) \/ ChangePassword(r) \/ \E s \in Session : SignIn(r, s)
      BY <3>3 DEF Confirm, ChangePassword, SignIn, history
    <3>4. CASE \E u \in User : CreateUser(r, u) \/ SignInLookup(r, u) \/ AskLookup(r, u)
      BY <3>4 DEF CreateUser, SignInLookup, AskLookup, OnlyRequests, tables, history
    <3> QED BY <2>2, <3>1, <3>2, <3>3, <3>4 DEF Serve
  <2>3. CASE UNCHANGED vars \/ (\E s \in Session : SignOut(s)) \/ \E u \in User : Admin(u)
    BY <2>3 DEF vars, tables, SignOut, Admin, DeleteUser, AddUser, updateUserById, history
  <2> QED BY <2>1, <2>2, <2>3 DEF Next
<1> HIDE DEF Goal
<1> QED BY <1>1, <1>2, <1>4, <1>5, <1>6, <1>7

LEMMA InitImplements == Init => Proofs!Init
BY DEF Init, Empty, Inhabited, Proofs!Init, ProofState

\* A one-time token is issued once and applied at most once, by one of all the
\* handlers that present it: Accounts implements ProofTokens.
THEOREM Implementation == Spec => ImplementsProofTokens
BY InitInv, StepInv, InitImplements, StepImplements, PTL
   DEF Spec, ImplementsProofTokens, Proofs!Spec

--------------------------------------------------------------------------------

\* No session is opened in this step.
NoneOpened == \A s \in Session : sessions[s] = None => sessions'[s] = None

\* No password changes, no session is opened, and only an administrator's step changes
\* an address.
Quiet ==
  /\ \A u \in User : users[u] # None =>
       /\ users'[u] # None
       /\ passwords'[u] = passwords[u]
       /\ users'[u].email = users[u].email \/ (reqs' = reqs /\ Exists(u))
  /\ NoneOpened

\* Which steps change a password, an address or the set of sessions.
LEMMA Writers ==
  ASSUME IInv, [Next]_vars
  PROVE  \/ Quiet
         \/ \E r \in Req :
              \/ ResetPassword(r) \/ ConfirmEmailChange(r) \/ ChangePassword(r)
              \/ \E s \in Session : SignIn(r, s) \/ OpenSession(r, s)
<1>1. CASE UNCHANGED <<users, passwords, sessions>>
  BY <1>1 DEF Quiet, NoneOpened
<1>2. ASSUME NEW r \in Req, Confirm(r) \/ \E u \in User : CreateUser(r, u) PROVE Quiet
  <2>1. CASE Confirm(r)
    <3> DEFINE u == reqs[r].user
               row == [users[u] EXCEPT !.confirmed = TRUE]
    <3>1. /\ users' = [users EXCEPT ![u] = row] /\ u \in User /\ users[u] \in UserRow
          /\ UNCHANGED <<passwords, sessions>>
      BY <2>1 DEF Confirm, Exists, IInv, TypeOK, RequestOK, Holding
    <3>2. row \in UserRow /\ row.email = users[u].email
      BY <3>1 DEF UserRow
    <3> HIDE DEF row
    <3> QED BY <3>1, <3>2, NoneAssumption DEF IInv, TypeOK, Quiet, NoneOpened
  <2>2. ASSUME NEW u \in User, CreateUser(r, u) PROVE Quiet
    <3>1. /\ users[u] = None /\ UNCHANGED sessions
          /\ \A x \in User : x # u => users'[x] = users[x] /\ passwords'[x] = passwords[x]
      BY <2>2 DEF CreateUser, IInv, TypeOK
    <3> QED BY <3>1 DEF Quiet, NoneOpened
  <2> QED BY <1>2, <2>1, <2>2
<1>3. ASSUME NEW u \in User, Admin(u) PROVE Quiet
  <2>1. CASE DeleteUser(u)
    <3> DEFINE row == [users[u] EXCEPT !.deleted = TRUE]
    <3>1. /\ users' = [users EXCEPT ![u] = row] /\ users[u] \in UserRow
          /\ UNCHANGED passwords /\ sessions' = revoke(SessionsOf(u))
      BY <2>1 DEF DeleteUser, Exists, IInv, TypeOK
    <3>2. row \in UserRow /\ row.email = users[u].email
      BY <3>1 DEF UserRow
    <3> HIDE DEF row
    <3>3. NoneOpened
      BY <3>1 DEF NoneOpened, revoke, SessionsOf
    <3> QED BY <3>1, <3>2, <3>3, NoneAssumption DEF IInv, TypeOK, Quiet
  <2>2. ASSUME NEW a \in Address \cup {None}, NEW confirmed \in BOOLEAN,
               AddUser(u, a, confirmed)
        PROVE  Quiet
    <3>1. /\ users[u] = None /\ UNCHANGED <<passwords, sessions>>
          /\ \A x \in User : x # u => users'[x] = users[x]
      BY <2>2 DEF AddUser, IInv, TypeOK
    <3> QED BY <3>1 DEF Quiet, NoneOpened
  <2>3. ASSUME NEW a \in Address \cup {None}, NEW confirmed \in BOOLEAN,
               NEW banned \in BOOLEAN, updateUserById(u, a, confirmed, banned)
        PROVE  Quiet
    <3> DEFINE row == [users[u] EXCEPT !.email = a, !.confirmed = confirmed,
                                       !.banned = banned]
    <3>1. /\ users' = [users EXCEPT ![u] = row] /\ users[u] \in UserRow
          /\ UNCHANGED <<passwords, sessions, reqs>> /\ Exists(u)
      BY <2>3 DEF updateUserById, Exists, IInv, TypeOK
    <3>2. row \in UserRow
      BY <3>1 DEF UserRow
    <3> HIDE DEF row
    <3> QED BY <3>1, <3>2, NoneAssumption DEF IInv, TypeOK, Quiet, NoneOpened
  <2> QED BY <1>3, <2>1, <2>2, <2>3 DEF Admin
<1>4. ASSUME NEW s \in Session, SignOut(s) PROVE Quiet
  BY <1>4 DEF SignOut, revoke, SessionLive, Quiet, NoneOpened
<1>5. \/ UNCHANGED <<users, passwords, sessions>>
      \/ \E r \in Req : Confirm(r) \/ \E u \in User : CreateUser(r, u)
      \/ \E u \in User : Admin(u)
      \/ \E s \in Session : SignOut(s)
      \/ \E r \in Req :
           \/ ResetPassword(r) \/ ConfirmEmailChange(r) \/ ChangePassword(r)
           \/ \E s \in Session : SignIn(r, s) \/ OpenSession(r, s)
  <2>1. CASE \E r \in Req : Arrive(r)
    <3>1. \E r \in Req : \E q : Begin(r, q)
      BY <2>1 DEF Arrive, BeginSignUp, BeginSignIn, BeginAsk, BeginVerify,
         BeginResetPassword, BeginConfirmEmailChange, BeginUpdateUser, BeginChangePassword
    <3> QED BY <3>1 DEF Begin, tables
  <2>2. CASE \E r \in Req : Serve(r) \/ RecordFailure(r) \/ Stop(r)
    <3>1. CASE \E r \in Req : \/ SignUpLookup(r) \/ VerifyRefused(r) \/ CheckUser(r)
                              \/ Authorize(r) \/ UpdateUser(r) \/ Mail(r) \/ Stop(r)
                              \/ \E u \in User : SignInLookup(r, u) \/ AskLookup(r, u)
      BY <3>1 DEF SignUpLookup, Mail, VerifyRefused, CheckUser, Authorize, UpdateUser, Stop,
         SignInLookup, AskLookup, OnlyRequests, tables
    <3>2. CASE \E r \in Req : Verify(r) \/ RecordFailure(r) \/ \E t \in Token : Issue(r, t)
      BY <3>2 DEF Verify, RecordFailure, Issue
    <3> QED BY <2>2, <3>1, <3>2 DEF Serve
  <2>3. CASE UNCHANGED vars
    BY <2>3 DEF vars, tables, history
  <2> QED BY <2>1, <2>2, <2>3 DEF Next
<1> QED BY <1>1, <1>2, <1>3, <1>4, <1>5

\* The step applies the mailed proof t, for its user and for nobody else: a password by
\* a recovery, or the address the proof was mailed to.
Applies(t) ==
  /\ Active(tokens[t].user_id)
  /\ t \in (applied' \ applied) \cap mailed
  /\ \A u \in User : u # tokens[t].user_id
                       => users'[u] = users[u] /\ passwords'[u] = passwords[u]
  /\ NoneOpened
  /\ \/ /\ tokens[t].purpose = "recovery" /\ tokens[t].target \in Address
        /\ UNCHANGED users
     \/ /\ tokens[t].purpose = "email_change"
        /\ tokens[t].target = users'[tokens[t].user_id].email
        /\ UNCHANGED passwords

LEMMA ProofApplied ==
  ASSUME IInv, NEW r \in Req, ResetPassword(r) \/ ConfirmEmailChange(r)
  PROVE  \E t \in Token : Applies(t)
<1>1. PICK t \in Token : t = reqs[r].token /\ tokens[t] # None /\ tokens[t] \in TokenRow
  BY DEF ResetPassword, ConfirmEmailChange, Consumable, Matches, IInv, TypeOK, Request
<1> DEFINE u == tokens[t].user_id
           a == tokens[t].target
<1>2. /\ Active(u) /\ applied' = applied \cup {t} /\ ~tokens[t].consumed
      /\ sessions' = revoke(SessionsOf(u)) /\ reqs[r].pc = "consume"
  BY <1>1 DEF ResetPassword, ConfirmEmailChange, Consumable, Matches, At
<1>3. u \in User /\ a \in Address /\ users[u] \in UserRow
  BY <1>1, <1>2 DEF TokenRow, IInv, TypeOK, Active, Exists
<1>4. t \in mailed /\ t \notin applied
  BY <1>1, <1>2, NoneAssumption DEF IInv, RequestOK, Linked
<1>5. NoneOpened
  BY <1>2 DEF NoneOpened, revoke, SessionsOf
<1>6. \A x \in User : x # u => users'[x] = users[x] /\ passwords'[x] = passwords[x]
  BY <1>1 DEF ResetPassword, ConfirmEmailChange, IInv, TypeOK
<1>7. \/ tokens[t].purpose = "recovery" /\ UNCHANGED users
      \/ tokens[t].purpose = "email_change" /\ a = users'[u].email /\ UNCHANGED passwords
  <2>1. CASE ResetPassword(r)
    BY <2>1, <1>1 DEF ResetPassword, Consumable, Matches
  <2>2. CASE ConfirmEmailChange(r)
    <3> DEFINE row == [users[u] EXCEPT !.email = a, !.confirmed = TRUE]
    <3>1. /\ users' = [users EXCEPT ![u] = row] /\ UNCHANGED passwords
          /\ tokens[t].purpose = "email_change"
      BY <2>2, <1>1 DEF ConfirmEmailChange, Consumable, Matches
    <3>2. row.email = a
      BY <1>3 DEF UserRow
    <3> HIDE DEF row
    <3> QED BY <1>3, <3>1, <3>2 DEF IInv, TypeOK
  <2> QED BY <2>1, <2>2
<1> QED BY <1>2, <1>3, <1>4, <1>5, <1>6, <1>7 DEF Applies

LEMMA PasswordChanged ==
  ASSUME IInv, NEW r \in Req, ChangePassword(r)
  PROVE  /\ Active(reqs[r].user) /\ Changes(reqs[r].user)
         /\ UNCHANGED users /\ NoneOpened
         /\ \A u \in User : u # reqs[r].user => passwords'[u] = passwords[u]
<1> DEFINE s == reqs[r].session
           u == reqs[r].user
<1>1. s \in Session /\ sessions[s] # None /\ sessions[s].user_id = u
  BY DEF ChangePassword, At, IInv, RequestOK, Signed
<1>2. /\ Active(u) /\ SessionLive(s) /\ UNCHANGED users
      /\ At(r, "authorized", {"changePassword"}) /\ reqs[r].current = passwords[u]
      /\ passwords' = [passwords EXCEPT ![u] = reqs[r].password]
      /\ reqs' = [reqs EXCEPT ![r] = Idle]
      /\ sessions' = [x \in Session |->
           IF x \in Spared(r) THEN [sessions[x] EXCEPT !.password = None]
                              ELSE revoke(SessionsOf(u))[x]]
  BY DEF ChangePassword, Authorized, Finish
<1>3. \A x \in Spared(r) : sessions[x] # None
  BY <1>1 DEF Spared, SessionsOf, IInv, TypeOK, Request
<1>4. NoneOpened
  BY <1>2, <1>3 DEF NoneOpened, revoke, SessionsOf
<1>5. \A x \in User : x # u => passwords'[x] = passwords[x]
  BY <1>2 DEF IInv, TypeOK
<1>6. reqs'[r] # reqs[r]
  BY <1>2 DEF IInv, TypeOK, Idle, At
<1>7. Changes(u)
  BY <1>1, <1>2, <1>6 DEF Changes
<1> QED BY <1>2, <1>4, <1>5, <1>7

LEMMA Opened ==
  ASSUME IInv, NEW r \in Req, NEW s \in Session, SignIn(r, s) \/ OpenSession(r, s)
  PROVE  /\ UNCHANGED <<users, passwords>>
         /\ \A x \in Session : sessions[x] = None /\ sessions'[x] # None
                                 => Active(sessions'[x].user_id)
<1>1. PICK row :
        /\ sessions' = [sessions EXCEPT ![s] = row] /\ row.user_id = reqs[r].user
  <2> DEFINE in == [user_id |-> reqs[r].user, revoked |-> FALSE,
                    password |-> reqs[r].password, proof |-> None]
             opened == [user_id |-> reqs[r].user, revoked |-> FALSE,
                        password |-> None, proof |-> reqs[r].token]
  <2>1. in.user_id = reqs[r].user /\ opened.user_id = reqs[r].user
    OBVIOUS
  <2>2. \/ sessions' = [sessions EXCEPT ![s] = in]
        \/ sessions' = [sessions EXCEPT ![s] = opened]
    BY DEF SignIn, OpenSession, insertSession
  <2> HIDE DEF in, opened
  <2> QED BY <2>1, <2>2
<1>2. Active(reqs[r].user) /\ UNCHANGED <<users, passwords>>
  BY DEF SignIn, OpenSession
<1> QED BY <1>1, <1>2 DEF IInv, TypeOK

\* Sessions, and what a handler writes, are for those who are neither banned nor deleted
\* in that very step; an administrator changes the address of anybody who exists.
THEOREM InactiveStaysOut == Spec => InactiveStayOut
<1>1. ASSUME IInv, [Next]_vars, NEW u \in User,
             \/ \E s \in Session : sessions[s] = None /\ sessions'[s] # None
                                   /\ sessions'[s].user_id = u
             \/ users[u] # None /\ passwords[u] # passwords'[u]
             \/ users[u] # None /\ users[u].email # users'[u].email
      PROVE  IF Handled THEN Active(u) ELSE Exists(u)
  <2>1. Active(u) => IF Handled THEN Active(u) ELSE Exists(u)
    BY DEF Active
  <2>2. CASE Quiet
    BY <1>1, <2>2 DEF Quiet, NoneOpened, Handled
  <2>3. ASSUME NEW r \in Req, ResetPassword(r) \/ ConfirmEmailChange(r) PROVE Active(u)
    BY <1>1, <2>3, ProofApplied DEF Applies, NoneOpened
  <2>4. ASSUME NEW r \in Req, ChangePassword(r) PROVE Active(u)
    BY <1>1, <2>4, PasswordChanged DEF NoneOpened
  <2>5. ASSUME NEW r \in Req, NEW s \in Session, SignIn(r, s) \/ OpenSession(r, s)
        PROVE  Active(u)
    BY <1>1, <2>5, Opened
  <2> QED BY <1>1, <2>1, <2>2, <2>3, <2>4, <2>5, Writers
<1>2. IInv /\ [Next]_vars =>
        [\A u \in User :
           \/ \E s \in Session : sessions[s] = None /\ sessions'[s] # None
                                 /\ sessions'[s].user_id = u
           \/ users[u] # None /\ passwords[u] # passwords'[u]
           \/ users[u] # None /\ users[u].email # users'[u].email
           => IF Handled THEN Active(u) ELSE Exists(u)]_vars
  BY <1>1
<1> QED BY <1>2, InitInv, StepInv, PTL DEF Spec, InactiveStayOut

\* A handler changes an address only by a fresh proof mailed to the new one, and a
\* password only by a fresh recovery proof or through its own session, live in the very
\* step.
THEOREM ChangesProven == Spec => ChangesAreProven
<1>1. ASSUME IInv, [Next]_vars, NEW u \in User, users[u] # None,
             users[u].email # users'[u].email, Handled
      PROVE  Proves(u, "email_change", users'[u].email)
  <2>1. ~Quiet
    BY <1>1 DEF Quiet, Handled
  <2>2. ASSUME NEW r \in Req, ResetPassword(r) \/ ConfirmEmailChange(r)
        PROVE  Proves(u, "email_change", users'[u].email)
    BY <1>1, <2>2, ProofApplied DEF Applies, Proves
  <2> QED BY <1>1, <2>1, <2>2, Writers, PasswordChanged, Opened
<1>2. ASSUME IInv, [Next]_vars, NEW u \in User, users[u] # None,
             passwords[u] # passwords'[u]
      PROVE  Changes(u) \/ \E a \in Address : Proves(u, "recovery", a)
  <2>1. ~Quiet
    BY <1>2 DEF Quiet
  <2>2. ASSUME NEW r \in Req, ResetPassword(r) \/ ConfirmEmailChange(r)
        PROVE  \E a \in Address : Proves(u, "recovery", a)
    BY <1>2, <2>2, ProofApplied DEF Applies, Proves
  <2>3. ASSUME NEW r \in Req, ChangePassword(r) PROVE Changes(u)
    BY <1>2, <2>3, PasswordChanged
  <2> QED BY <1>2, <2>1, <2>2, <2>3, Writers, Opened
<1>3. IInv /\ [Next]_vars =>
        [\A u \in User : users[u] # None =>
           /\ users[u].email # users'[u].email /\ Handled
                => Proves(u, "email_change", users'[u].email)
           /\ passwords[u] # passwords'[u]
                => Changes(u) \/ \E a \in Address : Proves(u, "recovery", a)]_vars
  BY <1>1, <1>2
<1> QED BY <1>3, InitInv, StepInv, PTL DEF Spec, ChangesAreProven
================================================================================
