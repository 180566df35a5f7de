-------------------------- MODULE ClientSessionProof --------------------------
(***************************************************************************)
(* Proofs about ClientSession for every set of tabs and sessions, every    *)
(* number of lanes and every bound on the calls.                           *)
(*                                                                         *)
(* IInv is inductive whatever the lock, the calls and the faults are.      *)
(* HInv adds what Web Locks and calls that never write an old session back *)
(* give: the browser keeps the newest token.                               *)
(***************************************************************************)
EXTENDS ClientSession, FiniteSetTheorems, TLAPS

Pc == {"idle", "waiting", "readSession", "readRevision", "sent", "replied", "queued",
       "writing", "closed"}
TaskRow == [pc : Pc, op : Ops \cup {"refresh"}, token : Token \cup {None}, ok : BOOLEAN,
            event : Event \cup {None}, revision : Revision]

\* What a call still knows at its next step.
Knows(pc, op, token, ok) ==
  /\ pc \in {"idle", "closed"} => op = "refresh" /\ token = None
  /\ pc = "waiting" => op = "refresh"
  /\ pc \in {"readSession", "readRevision"} =>
       op # "signIn" /\ (op # "refresh" => token = None)
  /\ pc \in {"sent", "replied"} => token # None
  /\ pc \in {"queued", "writing"} =>
       /\ op = "signIn" => token # None
       /\ op = "signOut" => token = None
       /\ op = "refresh" => (ok <=> token # None)
  /\ op = "signIn" /\ token # None => token.gen = 0

RowOK(q) == Knows(q.pc, q.op, q.token, q.ok)

Signing(q) == q.op = "signIn" /\ q.pc \in {"sent", "replied", "queued", "writing"}

\* A session is early until the sign-in that opens it has written it.  Nobody else in the
\* browser knows of it, and its refresh token has not been rotated.
Early(s) ==
  \/ server[s].status = "unused"
  \/ \E k \in Task : Signing(tasks[k]) /\ tasks[k].token.sid = s

Known(s) ==
  \/ server[s].gen # 0
  \/ Carries(record.session, s)
  \/ \E t \in Tab : Carries(currentSession[t], s)
  \/ \E token \in strays : token.sid = s
  \/ \E k \in Task : Carries(tasks[k].token, s) /\ ~ Signing(tasks[k])

FreshOK ==
  /\ \A s \in Session : Early(s) => ~ Known(s)
  /\ \A j, k \in Task : /\ Signing(tasks[j]) /\ Signing(tasks[k])
                          /\ tasks[j].token.sid = tasks[k].token.sid => j = k
  /\ \A k \in Task : Signing(tasks[k]) =>
       (tasks[k].pc = "sent" <=> server[tasks[k].token.sid].status = "unused")

\* Every rotation is paid for by a call, and so is every raised revision: the calls that
\* may still send a refresh token, and those that may still write.
Rotating == {k \in Task : /\ tasks[k].op = "refresh"
                          /\ tasks[k].pc \in {"waiting", "readSession", "readRevision", "sent"}}
Writing == {k \in Task : tasks[k].pc \notin {"idle", "writing", "closed"}}

Within(revision) == revision + Cardinality(Writing) <= calls + 1

RotationsOK ==
  /\ IsFiniteSet(Rotating) /\ IsFiniteSet(strays)
  /\ \A s \in Session : server[s].gen + Cardinality(Rotating) + Cardinality(strays) <= calls

RevisionsOK ==
  /\ IsFiniteSet(Writing)
  /\ Within(record.revision)
  /\ \A t \in Tab : Within(localRevision[t])
  /\ \A k \in Task : Within(tasks[k].revision)

IInv ==
  /\ TypeOK
  /\ \A k \in Task : RowOK(tasks[k])
  /\ FreshOK
  /\ RotationsOK
  /\ RevisionsOK

--------------------------------------------------------------------------------
(* How the calls in flight change.                                         *)

\* The step of one call; the event it remembers is left out, and so is the revision of its
\* write.
Becomes(k, pc, op, token, ok) ==
  /\ tasks'[k].pc = pc /\ tasks'[k].op = op /\ tasks'[k].token = token /\ tasks'[k].ok = ok
  /\ pc # "writing" => tasks'[k].revision \in {0, tasks[k].revision}
  /\ \A j \in Task : j # k => tasks'[j] = tasks[j]

LEMMA Tasks == TypeOK => tasks \in [Task -> TaskRow]
BY DEF TypeOK, TaskRow, Pc

LEMMA Starts ==
  ASSUME TypeOK, NEW k \in Task
  PROVE  /\ BeginRefresh(k) => Becomes(k, "waiting", "refresh", currentSession[k[1]], FALSE)
         /\ \A op : BeginLatest(k, op) => Becomes(k, "readSession", op, None, FALSE)
         /\ \A s \in Session : BeginSignIn(k, s) =>
              Becomes(k, "sent", "signIn", [sid |-> s, gen |-> 0], FALSE)
         /\ Return(k) => Becomes(k, "idle", "refresh", None, FALSE)
<1>1. tasks \in [Task -> TaskRow]
  BY Tasks
<1>2. ASSUME NEW q, tasks' = [tasks EXCEPT ![k] = q], q.revision = 0
      PROVE  Becomes(k, q.pc, q.op, q.token, q.ok)
  BY <1>1, <1>2 DEF Becomes
<1>3. ASSUME BeginRefresh(k)
      PROVE  Becomes(k, "waiting", "refresh", currentSession[k[1]], FALSE)
  <2> DEFINE q == [Idle EXCEPT !.pc = "waiting", !.token = currentSession[k[1]]]
  <2>1. Becomes(k, q.pc, q.op, q.token, q.ok)
    <3>1. tasks' = [tasks EXCEPT ![k] = q]
      BY <1>3 DEF BeginRefresh
    <3>2. q.revision = 0
      BY DEF Idle
    <3> QED BY ONLY <1>2, <3>1, <3>2
  <2>2. q.pc = "waiting" /\ q.op = "refresh" /\ q.token = currentSession[k[1]] /\ q.ok = FALSE
    BY DEF Idle
  <2> QED BY <2>1, <2>2 DEF Becomes
<1>4. ASSUME NEW op, BeginLatest(k, op)
      PROVE  Becomes(k, "readSession", op, None, FALSE)
  <2> DEFINE q == [Idle EXCEPT !.pc = "readSession", !.op = op]
  <2>1. Becomes(k, q.pc, q.op, q.token, q.ok)
    <3>1. tasks' = [tasks EXCEPT ![k] = q]
      BY <1>4 DEF BeginLatest
    <3>2. q.revision = 0
      BY DEF Idle
    <3> QED BY ONLY <1>2, <3>1, <3>2
  <2>2. q.pc = "readSession" /\ q.op = op /\ q.token = None /\ q.ok = FALSE
    BY DEF Idle
  <2> QED BY <2>1, <2>2 DEF Becomes
<1>5. ASSUME NEW s \in Session, BeginSignIn(k, s)
      PROVE  Becomes(k, "sent", "signIn", [sid |-> s, gen |-> 0], FALSE)
  <2> DEFINE q == [Idle EXCEPT !.pc = "sent", !.op = "signIn",
                               !.token = [sid |-> s, gen |-> 0]]
  <2>1. Becomes(k, q.pc, q.op, q.token, q.ok)
    <3>1. tasks' = [tasks EXCEPT ![k] = q]
      BY <1>5 DEF BeginSignIn
    <3>2. q.revision = 0
      BY DEF Idle
    <3> QED BY ONLY <1>2, <3>1, <3>2
  <2>2. q.pc = "sent" /\ q.op = "signIn" /\ q.token = [sid |-> s, gen |-> 0] /\ q.ok = FALSE
    BY DEF Idle
  <2> QED BY <2>1, <2>2 DEF Becomes
<1>6. ASSUME Return(k) PROVE Becomes(k, "idle", "refresh", None, FALSE)
  <2>1. tasks' = [tasks EXCEPT ![k] = Idle]
    BY <1>6 DEF Return
  <2>2. Becomes(k, Idle.pc, Idle.op, Idle.token, Idle.ok)
    <3>1. Idle.revision = 0
      BY DEF Idle
    <3> QED BY ONLY <1>2, <2>1, <3>1
  <2> QED BY <2>2 DEF Idle, Becomes
<1> QED BY <1>3, <1>4, <1>5, <1>6

LEMMA Waits ==
  ASSUME TypeOK, NEW k \in Task
  PROVE  /\ \A pc : Goto(k, pc) => Becomes(k, pc, tasks[k].op, tasks[k].token, tasks[k].ok)
         /\ \A ok, token : Reply(k, ok, token) => Becomes(k, "replied", tasks[k].op, token, ok)
         /\ LoseSignOut(k) => Becomes(k, "replied", tasks[k].op, tasks[k].token, FALSE)
         /\ Commit(k) => Becomes(k, "queued", tasks[k].op, tasks[k].token, tasks[k].ok)
         /\ Clear(k) => Becomes(k, "queued", tasks[k].op, None, tasks[k].ok)
         /\ GetRecord(k) => Becomes(k, "writing", tasks[k].op, tasks[k].token, tasks[k].ok)
         /\ \A token : tasks' = [tasks EXCEPT ![k].pc = "sent", ![k].token = token] =>
              Becomes(k, "sent", tasks[k].op, token, tasks[k].ok)
<1>1. tasks \in [Task -> TaskRow]
  BY Tasks
<1>2. ASSUME NEW pc
      PROVE  Goto(k, pc) => Becomes(k, pc, tasks[k].op, tasks[k].token, tasks[k].ok)
  BY <1>1 DEF Goto, Becomes, TaskRow
<1>3. ASSUME NEW ok, NEW token
      PROVE  Reply(k, ok, token) => Becomes(k, "replied", tasks[k].op, token, ok)
  BY <1>1 DEF Reply, Becomes, TaskRow
<1>4. LoseSignOut(k) => Becomes(k, "replied", tasks[k].op, tasks[k].token, FALSE)
  BY <1>1 DEF LoseSignOut, Becomes, TaskRow
<1>5. Commit(k) => Becomes(k, "queued", tasks[k].op, tasks[k].token, tasks[k].ok)
  <2>1. ASSUME NEW event, tasks' = [tasks EXCEPT ![k].pc = "queued", ![k].event = event]
        PROVE  Becomes(k, "queued", tasks[k].op, tasks[k].token, tasks[k].ok)
    BY <1>1, <2>1 DEF Becomes, TaskRow
  <2> QED BY <2>1 DEF Commit
<1>6. Clear(k) => Becomes(k, "queued", tasks[k].op, None, tasks[k].ok)
  BY <1>1 DEF Clear, Becomes, TaskRow
<1>7. GetRecord(k) => Becomes(k, "writing", tasks[k].op, tasks[k].token, tasks[k].ok)
  BY <1>1 DEF GetRecord, Becomes, TaskRow
<1>8. ASSUME NEW token, tasks' = [tasks EXCEPT ![k].pc = "sent", ![k].token = token]
      PROVE  Becomes(k, "sent", tasks[k].op, token, tasks[k].ok)
  BY <1>1, <1>8 DEF Becomes, TaskRow
<1> QED BY <1>2, <1>3, <1>4, <1>5, <1>6, <1>7, <1>8

\* The other calls stay as they are.
LEMMA RowsFrame ==
  ASSUME \A j \in Task : RowOK(tasks[j]), NEW k \in Task, NEW pc, NEW op, NEW token, NEW ok,
         Becomes(k, pc, op, token, ok), Knows(pc, op, token, ok)
  PROVE  \A j \in Task : RowOK(tasks'[j])
<1> SUFFICES ASSUME NEW j \in Task PROVE RowOK(tasks'[j])
  OBVIOUS
<1>1. CASE j = k
  BY <1>1 DEF RowOK, Becomes
<1>2. CASE j # k
  BY <1>2 DEF Becomes
<1> QED BY <1>1, <1>2

\* A call that may still rotate has not been counted as a rotation.
LEMMA Affordable ==
  ASSUME IInv, NEW k \in Rotating, NEW s \in Session
  PROVE  server[s].gen \in Nat /\ server[s].gen + 1 <= calls /\ calls <= MaxCalls
<1>1. Cardinality(Rotating) \in Nat /\ Cardinality(Rotating) # 0 /\ Cardinality(strays) \in Nat
  BY FS_EmptySet, FS_CardinalityType DEF IInv, RotationsOK
<1>2. /\ server[s].gen + Cardinality(Rotating) + Cardinality(strays) <= calls
      /\ server[s].gen \in Nat /\ calls \in Nat /\ calls <= MaxCalls
  BY MaxCallsAssumption DEF IInv, RotationsOK, TypeOK
<1> QED BY <1>1, <1>2

\* The refresh token of the answer.
Answer(token) == IF Rotates(token) THEN [token EXCEPT !.gen = @ + 1] ELSE token

LEMMA Answered ==
  ASSUME IInv, NEW k \in Task, At(k, "sent", {"refresh"})
  PROVE  /\ tasks[k].token \in Token /\ Answer(tasks[k].token) \in Token
         /\ Answer(tasks[k].token).sid = tasks[k].token.sid
<1> DEFINE token == tasks[k].token
<1>1. token \in Token
  BY Tasks DEF IInv, RowOK, Knows, At, TaskRow
<1>2. CASE Rotates(token)
  <2>1. k \in Rotating /\ token.sid \in Session /\ token.gen = server[token.sid].gen
    BY <1>1, <1>2 DEF Rotates, Rotating, At, Token
  <2>2. calls \in Nat
    BY DEF IInv, TypeOK
  <2>3. token.gen + 1 \in 0..MaxCalls
    BY <2>1, <2>2, Affordable, MaxCallsAssumption
  <2> QED BY <1>1, <1>2, <2>3 DEF Token, Answer
<1>3. CASE ~ Rotates(token)
  BY <1>1, <1>3 DEF Answer
<1> QED BY <1>1, <1>2, <1>3

LEMMA RowsStep ==
  ASSUME IInv, Next
  PROVE  \A k \in Task : RowOK(tasks'[k])
<1>1. tasks \in [Task -> TaskRow] /\ TypeOK /\ \A k \in Task : RowOK(tasks[k])
  BY Tasks DEF IInv
<1>2. ASSUME NEW k \in Task
      PROVE  /\ Knows(tasks[k].pc, tasks[k].op, tasks[k].token, tasks[k].ok)
             /\ tasks[k].pc \in Pc /\ tasks[k].op \in Ops \cup {"refresh"}
             /\ tasks[k].token \in Token \cup {None} /\ tasks[k].ok \in BOOLEAN
             /\ Ops \subseteq {"refresh", "signIn", "signOut", "updateUser"}
  BY <1>1, SwitchAssumption DEF RowOK, TaskRow
<1>3. ASSUME NEW k \in Task, Call(k)
      PROVE  \A j \in Task : RowOK(tasks'[j])
  <2>1. CASE BeginRefresh(k)
    <3>1. Knows("waiting", "refresh", currentSession[k[1]], FALSE)
      BY DEF Knows
    <3> QED BY <1>1, <2>1, <3>1, Starts, RowsFrame
  <2>2. ASSUME NEW op \in Ops, BeginLatest(k, op)
        PROVE  \A j \in Task : RowOK(tasks'[j])
    <3>1. Knows("readSession", op, None, FALSE)
      BY <2>2 DEF BeginLatest, Knows
    <3> QED BY <1>1, <2>2, <3>1, Starts, RowsFrame
  <2>3. ASSUME NEW s \in Session, BeginSignIn(k, s)
        PROVE  \A j \in Task : RowOK(tasks'[j])
    <3>1. [sid |-> s, gen |-> 0] # None
      BY NoneAssumption, MaxCallsAssumption DEF Token
    <3>2. Knows("sent", "signIn", [sid |-> s, gen |-> 0], FALSE)
      BY <3>1 DEF Knows
    <3> QED BY <1>1, <2>3, <3>2, Starts, RowsFrame
  <2> QED BY <1>3, <2>1, <2>2, <2>3 DEF Call
<1>4. ASSUME NEW k \in Task, Return(k)
      PROVE  \A j \in Task : RowOK(tasks'[j])
  <2>1. Knows("idle", "refresh", None, FALSE)
    BY DEF Knows
  <2> QED BY <1>1, <1>4, <2>1, Starts, RowsFrame
<1>5. ASSUME NEW k \in Task, LoseSignOut(k) \/ Commit(k) \/ Clear(k) \/ GetRecord(k)
      PROVE  \A j \in Task : RowOK(tasks'[j])
  <2>1. CASE LoseSignOut(k)
    <3>1. Knows("replied", tasks[k].op, tasks[k].token, FALSE)
      BY <1>2, <2>1 DEF LoseSignOut, At, Knows
    <3> QED BY <1>1, <2>1, <3>1, Waits, RowsFrame
  <2>2. CASE Commit(k)
    <3>1. Knows("queued", tasks[k].op, tasks[k].token, tasks[k].ok)
      BY <1>2, <2>2 DEF Commit, Knows
    <3> QED BY <1>1, <2>2, <3>1, Waits, RowsFrame
  <2>3. CASE Clear(k)
    <3>1. Knows("queued", tasks[k].op, None, tasks[k].ok)
      BY <1>2, <2>3 DEF Clear, Knows
    <3> QED BY <1>1, <2>3, <3>1, Waits, RowsFrame
  <2>4. CASE GetRecord(k)
    <3>1. Knows("writing", tasks[k].op, tasks[k].token, tasks[k].ok)
      BY <1>2, <2>4 DEF GetRecord, Knows
    <3> QED BY <1>1, <2>4, <3>1, Waits, RowsFrame
  <2> QED BY <1>5, <2>1, <2>2, <2>3, <2>4
<1>6. ASSUME NEW k \in Task, ServeRefresh(k) \/ ServeSignIn(k) \/ ServeSignOut(k) \/ ServeUpdate(k)
      PROVE  \A j \in Task : RowOK(tasks'[j])
  <2>1. CASE ServeRefresh(k)
    <3>1. Knows("replied", tasks[k].op, Answer(tasks[k].token), Rotates(tasks[k].token))
      BY <1>2, <2>1, Answered, NoneAssumption DEF ServeRefresh, At, Knows
    <3> QED BY <1>1, <2>1, <3>1, Waits, RowsFrame DEF ServeRefresh, Answer
  <2>2. CASE ServeSignIn(k)
    <3>1. Knows("replied", tasks[k].op, tasks[k].token, TRUE)
      BY <1>2, <2>2 DEF ServeSignIn, At, Knows
    <3> QED BY <1>1, <2>2, <3>1, Waits, RowsFrame DEF ServeSignIn
  <2>3. CASE ServeSignOut(k) \/ ServeUpdate(k)
    <3>1. Knows("replied", tasks[k].op, tasks[k].token, Live(tasks[k].token.sid))
      BY <1>2, <2>3 DEF ServeSignOut, ServeUpdate, At, Knows
    <3> QED BY <1>1, <2>3, <3>1, Waits, RowsFrame DEF ServeSignOut, ServeUpdate
  <2> QED BY <1>6, <2>1, <2>2, <2>3
<1>7. ASSUME NEW k \in Task, Goto(k, "readSession"), tasks[k].pc = "waiting"
      PROVE  \A j \in Task : RowOK(tasks'[j])
  <2>1. Knows("readSession", tasks[k].op, tasks[k].token, tasks[k].ok)
    BY <1>2, <1>7 DEF Knows
  <2> QED BY <1>1, <1>7, <2>1, Waits, RowsFrame
<1>8. ASSUME NEW k \in Task, Goto(k, "readRevision"), tasks[k].pc = "readSession"
      PROVE  \A j \in Task : RowOK(tasks'[j])
  <2>1. Knows("readRevision", tasks[k].op, tasks[k].token, tasks[k].ok)
    BY <1>2, <1>8 DEF Knows
  <2> QED BY <1>1, <1>8, <2>1, Waits, RowsFrame
<1>9. ASSUME NEW k \in Task, ReadRevision(k)
      PROVE  \A j \in Task : RowOK(tasks'[j])
  <2> DEFINE token == Candidate(tasks[k].token, currentSession[k[1]])
  <2>1. CASE Return(k)
    BY <1>4, <2>1
  <2>2. CASE ~ Return(k)
    <3>1. /\ tasks' = [tasks EXCEPT ![k].pc = "sent", ![k].token = token]
          /\ tasks[k].pc = "readRevision" /\ token # None
      BY <1>9, <2>2 DEF ReadRevision
    <3>2. Knows("sent", tasks[k].op, token, tasks[k].ok)
      BY <1>2, <3>1 DEF Knows
    <3> QED BY ONLY <1>1, <3>1, <3>2, Waits, RowsFrame
  <2> QED BY <2>1, <2>2
<1>10. ASSUME NEW t \in Tab, Close(t)
       PROVE  \A j \in Task : RowOK(tasks'[j])
  <2> SUFFICES ASSUME NEW j \in Task PROVE RowOK(tasks'[j])
    OBVIOUS
  <2>1. CASE j[1] = t
    <3>1. tasks'[j] = [Idle EXCEPT !.pc = "closed"]
      BY <1>10, <2>1 DEF Close
    <3> QED BY <3>1 DEF Idle, RowOK, Knows
  <2>2. CASE j[1] # t
    BY <1>1, <1>10, <2>2 DEF Close
  <2> QED BY <2>1, <2>2
<1>11. CASE UNCHANGED tasks
  BY <1>1, <1>11
<1>12. ASSUME NEW k \in Task, Work(k) \/ LockTimeout(k) \/ Lose(k) \/ LoseSignOut(k)
       PROVE  \A j \in Task : RowOK(tasks'[j])
  BY <1>4, <1>5, <1>6, <1>7, <1>8, <1>9, <1>12
     DEF Work, Acquire, LockTimeout, ReadSession, UpdateRefused, Lose, SetItem
<1>13. ASSUME NEW t \in Tab, Listen(t)
       PROVE  \A j \in Task : RowOK(tasks'[j])
  BY <1>11, <1>13 DEF Listen, RemoteBegin, RemoteReadSession, RemoteReadRevision
<1> QED BY <1>3, <1>10, <1>11, <1>12, <1>13 DEF Next, ServeStray, Revoke

--------------------------------------------------------------------------------
(* Sessions nobody knows of.                                               *)

\* A step that opens no session and tells nobody of one.
LEMMA FreshFrame ==
  ASSUME IInv,
         \A s \in Session : Known(s)' => Known(s),
         \A k \in Task : Signing(tasks'[k]) =>
           /\ Signing(tasks[k]) /\ tasks'[k].token = tasks[k].token
           /\ tasks'[k].pc = "sent" <=> tasks[k].pc = "sent",
         \A s \in Session :
           server'[s].status = "unused" <=> server[s].status = "unused"
  PROVE  FreshOK'
<1>1. \A s \in Session : Early(s)' => Early(s)
  BY DEF Early
<1>2. \A k \in Task : Signing(tasks[k]) => tasks[k].token.sid \in Session
  BY Tasks DEF IInv, RowOK, Knows, Signing, TaskRow, Token
<1> QED BY <1>1, <1>2 DEF IInv, FreshOK

\* The steps of a call that bring no token into the browser.
LEMMA FreshMove ==
  ASSUME IInv, NEW k \in Task, NEW pc, NEW op, NEW token, NEW ok, Becomes(k, pc, op, token, ok),
         UNCHANGED <<server, record, strays>>,
         \A t \in Tab : currentSession'[t] \in {currentSession[t], record.session},
         \/ op # "signIn" /\ token \in {None, tasks[k].token, currentSession[k[1]]}
                          /\ tasks[k].op # "signIn"
         \/ op = "refresh" /\ token = None
         \/ /\ op = tasks[k].op /\ token = tasks[k].token
            /\ pc \in {"queued", "writing"} /\ tasks[k].pc \in {"replied", "queued"}
  PROVE  FreshOK'
<1>1. k[1] \in Tab
  BY DEF Task
<1>2. \A s \in Session : Known(s)' => Known(s)
  BY <1>1 DEF Known, Becomes, Carries, Signing
<1>3. \A j \in Task : Signing(tasks'[j]) =>
        /\ Signing(tasks[j]) /\ tasks'[j].token = tasks[j].token
        /\ tasks'[j].pc = "sent" <=> tasks[j].pc = "sent"
  BY DEF Becomes, Signing
<1> QED BY <1>2, <1>3, FreshFrame

LEMMA FreshStart == ASSUME IInv, NEW k \in Task, Call(k) PROVE FreshOK'
<1>1. k[1] \in Tab /\ TypeOK /\ Ops \subseteq {"refresh", "signIn", "signOut", "updateUser"}
  BY SwitchAssumption DEF Task, IInv
<1>2. tasks[k].op = "refresh" /\ tasks[k].token = None
      /\ UNCHANGED <<server, record, currentSession, strays>>
  BY DEF Call, BeginRefresh, BeginLatest, BeginSignIn, Begin, IInv, RowOK, Knows, client
<1>3. CASE BeginRefresh(k)
  BY <1>1, <1>2, <1>3, Starts, FreshMove
<1>4. ASSUME NEW op \in Ops, BeginLatest(k, op)
      PROVE  FreshOK'
  <2>1. op # "signIn"
    BY <1>4 DEF BeginLatest
  <2> QED BY <1>1, <1>2, <1>4, <2>1, Starts, FreshMove
<1>5. ASSUME NEW s \in Session, BeginSignIn(k, s)
      PROVE  FreshOK'
  <2> DEFINE token == [sid |-> s, gen |-> 0]
  <2>1. Becomes(k, "sent", "signIn", token, FALSE) /\ token.sid = s
    BY <1>1, <1>5, Starts
  <2>2. server[s].status = "unused" /\ \A j \in Task : ~ Carries(tasks[j].token, s)
    BY <1>5 DEF BeginSignIn
  <2> HIDE DEF token
  <2>3. \A x \in Session : Known(x)' => Known(x)
    BY <1>2, <2>1 DEF Known, Becomes, Carries, Signing
  <2>4. \A x \in Session : Early(x)' => Early(x)
    BY <1>2, <2>1, <2>2 DEF Early, Becomes
  <2>5. ASSUME NEW i \in Task, NEW j \in Task, Signing(tasks'[i]), Signing(tasks'[j]),
               tasks'[i].token.sid = tasks'[j].token.sid
        PROVE  i = j
    <3>1. \A x \in Task : Signing(tasks[x]) => tasks[x].token # None
      BY DEF IInv, RowOK, Knows, Signing
    <3> QED BY <2>1, <2>2, <2>5, <3>1 DEF Becomes, Carries, IInv, FreshOK
  <2>6. ASSUME NEW j \in Task, Signing(tasks'[j])
        PROVE  tasks'[j].pc = "sent" <=> server'[tasks'[j].token.sid].status = "unused"
    BY <1>2, <2>1, <2>2, <2>6 DEF Becomes, IInv, FreshOK
  <2> QED BY <2>3, <2>4, <2>5, <2>6 DEF IInv, FreshOK
<1> QED BY <1>3, <1>4, <1>5 DEF Call

\* A request that reaches the server: a session the browser knows of is rotated or revoked,
\* and the session of a sign-in opens.
LEMMA FreshServe ==
  ASSUME IInv, NEW k \in Task, ServeRefresh(k) \/ ServeSignIn(k) \/ ServeSignOut(k) \/ ServeUpdate(k)
  PROVE  FreshOK'
<1> DEFINE token == tasks[k].token
<1>1. /\ token \in Token /\ token # None /\ token.sid \in Session
      /\ server \in [Session -> [status : {"unused", "live", "revoked"}, gen : 0..MaxCalls]]
      /\ tasks[k].pc = "sent" /\ TypeOK
  BY Tasks DEF ServeRefresh, ServeSignIn, ServeSignOut, ServeUpdate, At, IInv, RowOK, Knows,
               TaskRow, Token, TypeOK
<1>2. UNCHANGED <<record, currentSession, strays>>
  BY DEF ServeRefresh, ServeSignIn, ServeSignOut, ServeUpdate, Reply, client
<1>3. CASE ServeSignIn(k)
  <2>1. /\ Becomes(k, "replied", "signIn", token, TRUE) /\ Signing(tasks[k])
        /\ server' = [server EXCEPT ![token.sid].status = "live"]
    BY <1>1, <1>3, Waits DEF ServeSignIn, At, Signing
  <2>2. /\ \A s \in Session : server'[s].gen = server[s].gen
        /\ \A s \in Session : s # token.sid => server'[s] = server[s]
        /\ server'[token.sid].status = "live"
    BY <1>1, <2>1
  <2>3. \A s \in Session : Known(s)' => Known(s)
    BY <1>2, <2>1, <2>2 DEF Known, Becomes, Carries, Signing
  <2>4. \A s \in Session : Early(s)' => Early(s)
    BY <1>1, <2>1, <2>2 DEF Early, Becomes, Signing
  <2>5. ASSUME NEW i \in Task, NEW j \in Task, Signing(tasks'[i]), Signing(tasks'[j]),
               tasks'[i].token.sid = tasks'[j].token.sid
        PROVE  i = j
    <3>1. \A x \in Task : Signing(tasks'[x]) =>
            Signing(tasks[x]) /\ tasks'[x].token = tasks[x].token
      BY <2>1 DEF Becomes, Signing
    <3> QED BY <2>5, <3>1 DEF IInv, FreshOK
  <2>6. ASSUME NEW j \in Task, Signing(tasks'[j])
        PROVE  tasks'[j].pc = "sent" <=> server'[tasks'[j].token.sid].status = "unused"
    <3>1. CASE j = k
      BY <2>1, <2>2, <3>1 DEF Becomes
    <3>2. CASE j # k
      <4>1. tasks'[j] = tasks[j] /\ tasks[j].token.sid # token.sid
        BY <2>1, <2>6, <3>2 DEF Becomes, IInv, FreshOK
      <4>2. tasks[j].token.sid \in Session
        BY <2>6, <4>1, Tasks DEF IInv, RowOK, Knows, Signing, TaskRow, Token
      <4> QED BY <2>2, <2>6, <4>1, <4>2 DEF IInv, FreshOK
    <3> QED BY <3>1, <3>2
  <2> QED BY <2>3, <2>4, <2>5, <2>6 DEF IInv, FreshOK
<1>4. CASE ServeRefresh(k) \/ ServeSignOut(k) \/ ServeUpdate(k)
  <2>1. tasks[k].op # "signIn" /\ Known(token.sid)
    BY <1>1, <1>4 DEF ServeRefresh, ServeSignOut, ServeUpdate, At, Known, Carries, Signing
  <2>2. PICK after \in {token, Answer(token)} : \E ok : Becomes(k, "replied", tasks[k].op, after, ok)
    BY <1>1, <1>4, Waits DEF ServeRefresh, ServeSignOut, ServeUpdate, Answer
  <2>3. after.sid = token.sid
    BY <1>1, <2>2 DEF Answer, Token
  <2>4. server[token.sid].status # "unused"
    BY <1>1, <2>1 DEF IInv, FreshOK, Early
  <2>5. /\ \A s \in Session : s # token.sid => server'[s] = server[s]
        /\ server'[token.sid].status # "unused"
    BY <1>1, <1>4, <2>4
       DEF ServeRefresh, ServeSignOut, ServeUpdate, refreshed, Rotates, Live
  <2>6. \A s \in Session : Known(s)' => Known(s)
    BY <1>2, <2>1, <2>2, <2>3, <2>5 DEF Known, Becomes, Carries, Signing
  <2>7. \A j \in Task : Signing(tasks'[j]) => j # k /\ tasks'[j] = tasks[j]
    BY <2>1, <2>2 DEF Becomes, Signing
  <2> QED BY <2>4, <2>5, <2>6, <2>7, FreshFrame
<1> QED BY <1>3, <1>4

LEMMA FreshWrite == ASSUME IInv, NEW k \in Task, SetItem(k) PROVE FreshOK'
<1> DEFINE token == tasks[k].token
<1>1. /\ token \in Token \cup {None} /\ tasks[k].pc = "writing" /\ TypeOK
      /\ Becomes(k, "idle", "refresh", None, FALSE) /\ UNCHANGED <<server, strays>>
  BY Tasks, Starts DEF SetItem, IInv, TaskRow
<1>2. /\ record'.session = token
      /\ \A t \in Tab : currentSession'[t] \in {currentSession[t], token}
  BY <1>1 DEF SetItem, TypeOK
<1>3. \A j \in Task : Signing(tasks'[j]) => j # k /\ tasks'[j] = tasks[j]
  BY <1>1 DEF Becomes, Signing
<1>4. CASE ~ Signing(tasks[k])
  <2>1. \A s \in Session : Known(s)' => Known(s)
    BY <1>1, <1>2, <1>4 DEF Known, Becomes, Carries, Signing
  <2> QED BY <1>1, <1>3, <2>1, FreshFrame
<1>5. CASE Signing(tasks[k])
  <2>1. token \in Token /\ token # None
    BY <1>1, <1>5 DEF IInv, RowOK, Knows, Signing
  <2>2. \A s \in Session : Early(s)' => Early(s) /\ s # token.sid
    BY <1>1, <1>3, <1>5 DEF Early, IInv, FreshOK
  <2>3. \A s \in Session : Known(s)' => Known(s) \/ s = token.sid
    BY <1>1, <1>2 DEF Known, Becomes, Carries, Signing
  <2>4. ASSUME NEW i \in Task, NEW j \in Task, Signing(tasks'[i]), Signing(tasks'[j]),
               tasks'[i].token.sid = tasks'[j].token.sid
        PROVE  i = j
    BY <1>3, <2>4 DEF IInv, FreshOK
  <2>5. \A j \in Task : Signing(tasks'[j]) =>
          (tasks'[j].pc = "sent" <=> server'[tasks'[j].token.sid].status = "unused")
    BY <1>1, <1>3 DEF IInv, FreshOK
  <2> QED BY <2>2, <2>3, <2>4, <2>5 DEF IInv, FreshOK
<1> QED BY <1>4, <1>5

\* A request that nobody waits for any more.
LEMMA FreshStray == ASSUME IInv, NEW token \in strays, ServeStray(token) PROVE FreshOK'
<1>1. /\ token \in Token /\ token.sid \in Session
      /\ server \in [Session -> [status : {"unused", "live", "revoked"}, gen : 0..MaxCalls]]
      /\ strays' \subseteq strays /\ UNCHANGED <<record, currentSession, tasks>>
  BY DEF IInv, TypeOK, Token, ServeStray, client
<1>2. Known(token.sid) /\ server[token.sid].status # "unused"
  BY <1>1 DEF Known, IInv, FreshOK, Early
<1>3. /\ \A s \in Session : s # token.sid => server'[s] = server[s]
      /\ server'[token.sid].status # "unused"
  BY <1>1, <1>2 DEF ServeStray, refreshed, Rotates, Live
<1>4. \A s \in Session : Known(s)' => Known(s)
  BY <1>1, <1>2, <1>3 DEF Known
<1> QED BY <1>1, <1>2, <1>3, <1>4, FreshFrame

LEMMA FreshRevoke == ASSUME IInv, NEW s \in Session, Revoke(s) PROVE FreshOK'
<1>1. /\ server \in [Session -> [status : {"unused", "live", "revoked"}, gen : 0..MaxCalls]]
      /\ server[s].status = "live" /\ UNCHANGED <<record, currentSession, strays, tasks>>
      /\ server' = [server EXCEPT ![s].status = "revoked"]
  BY DEF IInv, TypeOK, Revoke, Live, client
<1>2. \A x \in Session : /\ server'[x].gen = server[x].gen
                         /\ server'[x].status = "unused" <=> server[x].status = "unused"
  BY <1>1
<1>3. \A x \in Session : Known(x)' => Known(x)
  BY <1>1, <1>2 DEF Known
<1> QED BY <1>1, <1>2, <1>3, FreshFrame

\* A request is given up: its refresh token may still arrive.
LEMMA FreshLose == ASSUME IInv, NEW k \in Task, Lose(k) PROVE FreshOK'
<1>1. /\ tasks[k].token # None /\ UNCHANGED <<server, record, currentSession>>
      /\ Becomes(k, "idle", "refresh", None, FALSE)
  BY Starts DEF IInv, Lose, client, RowOK, Knows
<1>2. /\ strays' \subseteq strays \cup {tasks[k].token}
      /\ strays' = strays \/ ~ Signing(tasks[k])
  BY DEF Lose, At, Signing
<1>3. \A s \in Session : Known(s)' => Known(s)
  BY <1>1, <1>2 DEF Known, Becomes, Carries, Signing
<1>4. \A j \in Task : Signing(tasks'[j]) => tasks'[j] = tasks[j]
  BY <1>1 DEF Becomes, Signing
<1> QED BY <1>1, <1>3, <1>4, FreshFrame

LEMMA FreshClose == ASSUME IInv, NEW t \in Tab, Close(t) PROVE FreshOK'
<1>1. /\ UNCHANGED <<server, record, currentSession>>
      /\ \A j \in Task : tasks'[j] = IF j[1] = t THEN [Idle EXCEPT !.pc = "closed"] ELSE tasks[j]
  BY DEF Close, client
<1>2. \A j \in Task : \/ tasks'[j] = tasks[j]
                      \/ tasks'[j].token = None /\ ~ Signing(tasks'[j])
  BY <1>1 DEF Idle, Signing
<1>3. \A token \in strays' : \/ token \in strays
                             \/ \E k \in Task : token = tasks[k].token /\ At(k, "sent", {"refresh"})
  BY DEF Close
<1>4. \A k \in Task : At(k, "sent", {"refresh"}) => tasks[k].token # None /\ ~ Signing(tasks[k])
  BY DEF At, Signing, IInv, RowOK, Knows
<1>5. \A s \in Session : Known(s)' => Known(s)
  BY <1>1, <1>2, <1>3, <1>4 DEF Known, Carries
<1> QED BY <1>1, <1>2, <1>5, FreshFrame

LEMMA FreshStep == ASSUME IInv, Next PROVE FreshOK'
<1>1. TypeOK /\ \A k \in Task : k[1] \in Tab
  BY DEF IInv, Task
<1>2. ASSUME NEW k \in Task, Return(k), UNCHANGED <<server, record, strays>>,
             \A t \in Tab : currentSession'[t] \in {currentSession[t], record.session}
      PROVE  FreshOK'
  BY <1>1, <1>2, Starts, FreshMove
<1>3. ASSUME NEW k \in Task, Acquire(k) \/ ReadSession(k)
      PROVE  FreshOK'
  <2>1. tasks[k].op # "signIn"
    BY <1>3 DEF Acquire, ReadSession, IInv, RowOK, Knows
  <2>2. /\ UNCHANGED <<server, record, strays>>
        /\ \A t \in Tab : currentSession'[t] \in {currentSession[t], record.session}
    BY <1>1, <1>3 DEF Acquire, ReadSession, readSession, client, TypeOK
  <2>3. PICK pc : Becomes(k, pc, tasks[k].op, tasks[k].token, tasks[k].ok)
    BY <1>1, <1>3, Waits DEF Acquire, ReadSession
  <2> QED BY <2>1, <2>2, <2>3, FreshMove
<1>4. ASSUME NEW k \in Task, ReadRevision(k)
      PROVE  FreshOK'
  <2> DEFINE token == Candidate(tasks[k].token, currentSession[k[1]])
  <2>1. /\ UNCHANGED <<server, record, strays>>
        /\ \A t \in Tab : currentSession'[t] \in {currentSession[t], record.session}
    BY <1>4 DEF ReadRevision, readRevision
  <2>2. CASE Return(k)
    BY <1>2, <2>1, <2>2
  <2>3. CASE ~ Return(k)
    <3>1. tasks' = [tasks EXCEPT ![k].pc = "sent", ![k].token = token]
          /\ tasks[k].pc = "readRevision"
      BY <1>4, <2>3 DEF ReadRevision
    <3>2. Becomes(k, "sent", tasks[k].op, token, tasks[k].ok)
      BY ONLY <1>1, <3>1, Waits
    <3>3. tasks[k].op # "signIn" /\ token \in {tasks[k].token, currentSession[k[1]]}
      BY <3>1 DEF IInv, RowOK, Knows, Candidate
    <3> QED BY <2>1, <3>2, <3>3, FreshMove
  <2> QED BY <2>2, <2>3
<1>5. ASSUME NEW k \in Task, Commit(k) \/ Clear(k) \/ GetRecord(k) \/ LoseSignOut(k)
      PROVE  FreshOK'
  <2>1. UNCHANGED <<server, record, currentSession, strays>>
    BY <1>5 DEF Commit, Clear, GetRecord, LoseSignOut, client
  <2>2. CASE Commit(k) \/ GetRecord(k)
    <3>1. PICK pc \in {"queued", "writing"} :
            Becomes(k, pc, tasks[k].op, tasks[k].token, tasks[k].ok)
      BY <1>1, <2>2, Waits
    <3>2. tasks[k].pc \in {"replied", "queued"}
      BY <2>2 DEF Commit, GetRecord
    <3> QED BY <2>1, <3>1, <3>2, FreshMove
  <2>3. CASE Clear(k) \/ LoseSignOut(k)
    <3>1. tasks[k].op # "signIn"
      BY <2>3 DEF Clear, LoseSignOut, At
    <3> QED BY <1>1, <2>1, <2>3, <3>1, Waits, FreshMove
  <2> QED BY <1>5, <2>2, <2>3
<1>6. ASSUME NEW t \in Tab, Listen(t)
      PROVE  FreshOK'
  <2>1. /\ UNCHANGED <<server, record, strays, tasks>>
        /\ \A u \in Tab : currentSession'[u] \in {currentSession[u], record.session}
    BY <1>1, <1>6 DEF Listen, RemoteBegin, RemoteReadSession, RemoteReadRevision, readSession,
                      readRevision, client, TypeOK
  <2>2. \A s \in Session : Known(s)' => Known(s)
    BY <2>1 DEF Known
  <2> QED BY <2>1, <2>2, FreshFrame
<1>7. ASSUME NEW k \in Task, LockTimeout(k) \/ UpdateRefused(k)
      PROVE  FreshOK'
  BY <1>2, <1>7 DEF LockTimeout, UpdateRefused, client
<1>8. ASSUME NEW k \in Task, Work(k)
      PROVE  FreshOK'
  BY <1>3, <1>4, <1>5, <1>7, <1>8, FreshServe, FreshWrite DEF Work
<1>9. ASSUME NEW token \in strays, ServeStray(token)
      PROVE  FreshOK'
  BY <1>9, FreshStray
<1> QED BY <1>5, <1>6, <1>7, <1>8, <1>9, FreshStart, FreshLose, FreshClose, FreshRevoke DEF Next

--------------------------------------------------------------------------------
(* Rotations and writes are paid for by calls.                             *)

LEMMA RotationTypes ==
  IInv => /\ Cardinality(Rotating) \in Nat /\ Cardinality(strays) \in Nat /\ calls \in Nat
          /\ \A s \in Session : server[s].gen \in Nat
BY FS_CardinalityType DEF IInv, RotationsOK, TypeOK

\* A step that sends nothing new.
LEMMA RotationsFrame ==
  ASSUME IInv, Rotating' \subseteq Rotating, strays' \subseteq strays, calls' = calls,
         \A s \in Session : server'[s].gen = server[s].gen
  PROVE  RotationsOK'
<1>1. /\ IsFiniteSet(Rotating') /\ Cardinality(Rotating') <= Cardinality(Rotating)
      /\ IsFiniteSet(strays') /\ Cardinality(strays') <= Cardinality(strays)
  BY FS_Subset DEF IInv, RotationsOK
<1>2. Cardinality(Rotating') \in Nat /\ Cardinality(strays') \in Nat
  BY <1>1, FS_CardinalityType
<1> QED BY <1>1, <1>2, RotationTypes DEF IInv, RotationsOK

\* A call that gives up its own request, to a rotation or to nobody.
LEMMA RotationsSpent ==
  ASSUME IInv, NEW k \in Rotating, Rotating' = Rotating \ {k}, calls' = calls,
         IsFiniteSet(strays'),
         \A s \in Session :
           /\ server'[s].gen \in Nat
           /\ server'[s].gen + Cardinality(strays') <= server[s].gen + Cardinality(strays) + 1
  PROVE  RotationsOK'
<1>1. IsFiniteSet(Rotating') /\ Cardinality(Rotating') = Cardinality(Rotating) - 1
  BY FS_RemoveElement DEF IInv, RotationsOK
<1>2. Cardinality(strays') \in Nat
  BY FS_CardinalityType
<1>3. ASSUME NEW s \in Session
      PROVE  server'[s].gen + Cardinality(Rotating') + Cardinality(strays') <= calls'
  <2>1. server[s].gen + Cardinality(Rotating) + Cardinality(strays) <= calls
    BY DEF IInv, RotationsOK
  <2> QED BY <1>1, <1>2, <2>1, RotationTypes
<1> QED BY <1>1, <1>3 DEF RotationsOK

LEMMA RotationsStart == ASSUME IInv, NEW k \in Task, Call(k) PROVE RotationsOK'
<1>1. /\ UNCHANGED <<server, strays>> /\ calls' = calls + 1 /\ TypeOK
      /\ \A j \in Task : j # k => tasks'[j] = tasks[j]
  BY Starts DEF Call, BeginRefresh, BeginLatest, BeginSignIn, Begin, Becomes, IInv
<1>2. Rotating' \subseteq Rotating \cup {k}
  BY <1>1 DEF Rotating
<1>3. /\ IsFiniteSet(Rotating \cup {k})
      /\ Cardinality(Rotating \cup {k}) \in {Cardinality(Rotating), Cardinality(Rotating) + 1}
  BY FS_AddElement DEF IInv, RotationsOK
<1>4. IsFiniteSet(Rotating') /\ Cardinality(Rotating') <= Cardinality(Rotating \cup {k})
  BY <1>2, <1>3, FS_Subset
<1>5. Cardinality(Rotating') \in Nat
  BY <1>4, FS_CardinalityType
<1> QED BY <1>1, <1>3, <1>4, <1>5, RotationTypes DEF IInv, RotationsOK

LEMMA RotationsServe ==
  ASSUME IInv, NEW k \in Task, ServeRefresh(k)
  PROVE  RotationsOK'
<1> DEFINE token == tasks[k].token
<1>1. /\ k \in Rotating /\ UNCHANGED <<strays, calls>> /\ token.sid \in Session
      /\ server \in [Session -> [status : {"unused", "live", "revoked"}, gen : 0..MaxCalls]]
  BY Answered DEF ServeRefresh, Reply, At, Rotating, IInv, TypeOK, Token
<1>2. PICK ok, after : Becomes(k, "replied", tasks[k].op, after, ok)
  BY Waits DEF ServeRefresh, IInv
<1>3. Rotating' = Rotating \ {k}
  BY <1>2 DEF Becomes, Rotating
<1>4. \A s \in Session : server'[s].gen \in {server[s].gen, server[s].gen + 1}
  BY <1>1 DEF ServeRefresh, refreshed
<1>5. IsFiniteSet(strays') /\ Cardinality(strays') = Cardinality(strays)
  BY <1>1 DEF IInv, RotationsOK
<1> QED BY <1>1, <1>3, <1>4, <1>5, RotationTypes, RotationsSpent

LEMMA RotationsLose == ASSUME IInv, NEW k \in Task, Lose(k) PROVE RotationsOK'
<1>1. Becomes(k, "idle", "refresh", None, FALSE) /\ UNCHANGED <<server, calls>>
  BY Starts DEF Lose, IInv
<1>2. CASE strays' = strays
  <2>1. Rotating' \subseteq Rotating
    BY <1>1 DEF Becomes, Rotating
  <2> QED BY <1>1, <1>2, <2>1, RotationsFrame
<1>3. CASE At(k, "sent", {"refresh"}) /\ strays' = strays \cup {tasks[k].token}
  <2>1. k \in Rotating /\ Rotating' = Rotating \ {k}
    BY <1>1, <1>3 DEF Becomes, Rotating, At
  <2>2. IsFiniteSet(strays') /\ Cardinality(strays') \in {Cardinality(strays), Cardinality(strays) + 1}
    BY <1>3, FS_AddElement DEF IInv, RotationsOK
  <2> QED BY <1>1, <2>1, <2>2, RotationTypes, RotationsSpent
<1> QED BY <1>2, <1>3 DEF Lose

LEMMA RotationsStray == ASSUME IInv, NEW token \in strays, ServeStray(token) PROVE RotationsOK'
<1>1. /\ UNCHANGED <<tasks, calls>> /\ strays' = strays \ {token} /\ token.sid \in Session
      /\ server \in [Session -> [status : {"unused", "live", "revoked"}, gen : 0..MaxCalls]]
  BY DEF ServeStray, IInv, TypeOK, Token
<1>2. Rotating' = Rotating
  BY <1>1 DEF Rotating
<1>3. IsFiniteSet(strays') /\ Cardinality(strays') = Cardinality(strays) - 1
  BY <1>1, FS_RemoveElement DEF IInv, RotationsOK
<1>4. \A s \in Session : server'[s].gen \in {server[s].gen, server[s].gen + 1}
  BY <1>1 DEF ServeStray, refreshed
<1>5. ASSUME NEW s \in Session
      PROVE  server'[s].gen + Cardinality(Rotating') + Cardinality(strays') <= calls'
  <2>1. server[s].gen + Cardinality(Rotating) + Cardinality(strays) <= calls
    BY DEF IInv, RotationsOK
  <2> QED BY <1>1, <1>2, <1>3, <1>4, <2>1, RotationTypes
<1> QED BY <1>2, <1>3, <1>5 DEF IInv, RotationsOK

\* The requests that outlive their tab are no more than the calls it made.
LEMMA RotationsClose == ASSUME IInv, NEW t \in Tab, Close(t) PROVE RotationsOK'
<1> DEFINE mine == {k \in Task : k[1] = t}
<1>1. PICK S \in SUBSET {k \in mine : At(k, "sent", {"refresh"})} :
        strays' = strays \cup {tasks[k].token : k \in S}
  BY DEF Close
<1> DEFINE lost == {tasks[k].token : k \in S}
           rest == Rotating \ S
<1>2. S \subseteq Rotating /\ IsFiniteSet(Rotating) /\ IsFiniteSet(strays)
  BY <1>1 DEF At, Rotating, IInv, RotationsOK
<1>3. IsFiniteSet(S) /\ IsFiniteSet(rest) /\ Cardinality(S) \in Nat /\ Cardinality(rest) \in Nat
  BY <1>2, FS_Subset, FS_CardinalityType
<1>4. Cardinality(Rotating) = Cardinality(S) + Cardinality(rest)
  <2>1. S \cup rest = Rotating /\ S \cap rest = {}
    BY <1>2
  <2> HIDE DEF rest
  <2> QED BY <1>3, <2>1, FS_Union, FS_EmptySet
<1>5. IsFiniteSet(lost) /\ Cardinality(lost) <= Cardinality(S) /\ Cardinality(lost) \in Nat
  <2> DEFINE f == [k \in S |-> tasks[k].token]
  <2>1. f \in Surjection(S, lost)
    BY DEF Surjection
  <2> HIDE DEF f, lost
  <2> QED BY <1>3, <2>1, FS_Surjection, FS_CardinalityType
<1>6. Rotating' \subseteq rest
  <2>1. \A k \in Task : tasks'[k] = IF k[1] = t THEN [Idle EXCEPT !.pc = "closed"] ELSE tasks[k]
    BY DEF Close
  <2>2. [Idle EXCEPT !.pc = "closed"].pc = "closed"
    BY DEF Idle
  <2> QED BY <1>1, <2>1, <2>2 DEF Rotating
<1>7. IsFiniteSet(Rotating') /\ Cardinality(Rotating') <= Cardinality(rest)
  BY <1>3, <1>6, FS_Subset
<1>8. Cardinality(Rotating') \in Nat
  BY <1>7, FS_CardinalityType
<1>9. /\ IsFiniteSet(strays') /\ Cardinality(strays') \in Nat
      /\ Cardinality(strays') <= Cardinality(strays) + Cardinality(lost)
  <2>1. Cardinality(strays \cap lost) \in Nat
    <3> HIDE DEF lost
    <3> QED BY <1>2, FS_Subset, FS_CardinalityType
  <2> HIDE DEF lost
  <2>2. strays' = strays \cup lost
    BY <1>1 DEF lost
  <2>3. /\ IsFiniteSet(strays \cup lost)
        /\ Cardinality(strays \cup lost) =
             Cardinality(strays) + Cardinality(lost) - Cardinality(strays \cap lost)
    BY <1>2, <1>5, FS_Union
  <2>4. Cardinality(strays \cup lost) \in Nat
    BY <2>3, FS_CardinalityType
  <2> QED BY <1>5, <2>1, <2>2, <2>3, <2>4, RotationTypes
<1>10. server' = server /\ calls' = calls
  BY DEF Close
<1> HIDE DEF rest, lost, mine
<1> QED BY <1>3, <1>4, <1>5, <1>7, <1>8, <1>9, <1>10, RotationTypes DEF IInv, RotationsOK

LEMMA RotationsMove ==
  ASSUME IInv, NEW k \in Task, NEW pc, NEW op, NEW token, NEW ok, Becomes(k, pc, op, token, ok),
         UNCHANGED <<strays, calls>>, \A s \in Session : server'[s].gen = server[s].gen,
         \/ op # "refresh"
         \/ pc \notin {"waiting", "readSession", "readRevision", "sent"}
         \/ k \in Rotating
  PROVE  RotationsOK'
<1>1. Rotating' \subseteq Rotating
  BY DEF Becomes, Rotating
<1> QED BY <1>1, RotationsFrame

LEMMA RotationsStep == ASSUME IInv, Next PROVE RotationsOK'
<1>1. TypeOK
  BY DEF IInv
<1>2. ASSUME NEW k \in Task, Return(k), UNCHANGED <<server, strays, calls>>
      PROVE  RotationsOK'
  BY <1>1, <1>2, Starts, RotationsMove
<1>3. ASSUME NEW k \in Task, Acquire(k) \/ ReadSession(k)
      PROVE  RotationsOK'
  <2>1. PICK pc : Becomes(k, pc, tasks[k].op, tasks[k].token, tasks[k].ok)
    BY <1>1, <1>3, Waits DEF Acquire, ReadSession
  <2>2. UNCHANGED <<server, strays, calls>> /\ tasks[k].pc \in {"waiting", "readSession"}
    BY <1>3 DEF Acquire, ReadSession
  <2>3. tasks[k].op # "refresh" \/ k \in Rotating
    BY <2>2 DEF Rotating
  <2> QED BY <2>1, <2>2, <2>3, RotationsMove
<1>4. ASSUME NEW k \in Task, ReadRevision(k)
      PROVE  RotationsOK'
  <2> DEFINE token == Candidate(tasks[k].token, currentSession[k[1]])
  <2>1. UNCHANGED <<server, strays, calls>>
    BY <1>4 DEF ReadRevision
  <2>2. CASE Return(k)
    BY <1>2, <2>1, <2>2
  <2>3. CASE ~ Return(k)
    <3>1. tasks' = [tasks EXCEPT ![k].pc = "sent", ![k].token = token]
          /\ tasks[k].pc = "readRevision"
      BY <1>4, <2>3 DEF ReadRevision
    <3>2. Becomes(k, "sent", tasks[k].op, token, tasks[k].ok)
      BY ONLY <1>1, <3>1, Waits
    <3>3. tasks[k].op # "refresh" \/ k \in Rotating
      BY <3>1 DEF Rotating
    <3> QED BY <2>1, <3>2, <3>3, RotationsMove
  <2> QED BY <2>2, <2>3
<1>5. ASSUME NEW k \in Task, Commit(k) \/ Clear(k) \/ GetRecord(k) \/ LoseSignOut(k)
      PROVE  RotationsOK'
  <2>1. PICK pc \in {"queued", "writing", "replied"} :
          \E token, ok : Becomes(k, pc, tasks[k].op, token, ok)
    BY <1>1, <1>5, Waits
  <2>2. UNCHANGED <<server, strays, calls>>
    BY <1>5 DEF Commit, Clear, GetRecord, LoseSignOut
  <2> QED BY <2>1, <2>2, RotationsMove
<1>6. ASSUME NEW k \in Task, ServeSignIn(k) \/ ServeSignOut(k) \/ ServeUpdate(k)
      PROVE  RotationsOK'
  <2>1. PICK token, ok : Becomes(k, "replied", tasks[k].op, token, ok)
    BY <1>1, <1>6, Waits DEF ServeSignIn, ServeSignOut, ServeUpdate
  <2>2. UNCHANGED <<strays, calls>> /\ \A s \in Session : server'[s].gen = server[s].gen
    <3>1. UNCHANGED <<strays, calls>>
      BY <1>6 DEF ServeSignIn, ServeSignOut, ServeUpdate, Reply
    <3>2. server' = server \/ \E s, status : server' = [server EXCEPT ![s].status = status]
      BY <1>6 DEF ServeSignIn, ServeSignOut, ServeUpdate
    <3>3. ASSUME NEW s, NEW status, server' = [server EXCEPT ![s].status = status]
          PROVE  \A x \in Session : server'[x].gen = server[x].gen
      BY <1>1, <3>3 DEF TypeOK
    <3> QED BY <3>1, <3>2, <3>3
  <2> QED BY <2>1, <2>2, RotationsMove
<1>7. ASSUME UNCHANGED <<tasks, strays, calls>>, \A s \in Session : server'[s].gen = server[s].gen
      PROVE  RotationsOK'
  <2>1. Rotating' = Rotating
    BY <1>7 DEF Rotating
  <2> QED BY <1>7, <2>1, RotationsFrame
<1>8. ASSUME NEW t \in Tab, Listen(t)
      PROVE  RotationsOK'
  BY <1>7, <1>8 DEF Listen, RemoteBegin, RemoteReadSession, RemoteReadRevision
<1>9. ASSUME NEW s \in Session, Revoke(s)
      PROVE  RotationsOK'
  BY <1>1, <1>7, <1>9 DEF Revoke, TypeOK
<1>10. ASSUME NEW k \in Task, LockTimeout(k) \/ UpdateRefused(k) \/ SetItem(k)
       PROVE  RotationsOK'
  BY <1>2, <1>10 DEF LockTimeout, UpdateRefused, SetItem
<1>11. ASSUME NEW k \in Task, Work(k)
       PROVE  RotationsOK'
  BY <1>3, <1>4, <1>5, <1>6, <1>10, <1>11, RotationsServe DEF Work
<1> QED BY <1>5, <1>8, <1>9, <1>10, <1>11, RotationsStart, RotationsLose, RotationsStray,
           RotationsClose DEF Next

\* What the raised revisions may be.
Paid == {x \in Nat : Within(x)}

LEMMA PaidNow ==
  IInv => /\ calls \in Nat /\ Cardinality(Writing) \in Nat /\ 0 \in Paid
          /\ record.revision \in Paid /\ \A t \in Tab : localRevision[t] \in Paid
          /\ \A k \in Task : tasks[k].revision \in Paid
<1> SUFFICES ASSUME IInv
             PROVE  /\ calls \in Nat /\ Cardinality(Writing) \in Nat /\ 0 \in Paid
                    /\ record.revision \in Paid /\ \A t \in Tab : localRevision[t] \in Paid
                    /\ \A k \in Task : tasks[k].revision \in Paid
  OBVIOUS
<1>1. calls \in Nat /\ Cardinality(Writing) \in Nat
  BY FS_CardinalityType DEF IInv, RevisionsOK, TypeOK
<1>2. record.revision \in Paid /\ \A t \in Tab : localRevision[t] \in Paid
  BY MaxCallsAssumption DEF IInv, RevisionsOK, TypeOK, Revision, Paid
<1>3. \A k \in Task : tasks[k].revision \in Paid
  BY Tasks, MaxCallsAssumption DEF IInv, RevisionsOK, TaskRow, Revision, Paid
<1>4. 0 \in Paid
  BY <1>1, <1>2 DEF Paid, Within
<1> QED BY <1>1, <1>2, <1>3, <1>4

LEMMA LargerPaid ==
  ASSUME NEW a \in Paid, NEW b \in Paid PROVE Larger(a, b) \in Paid
BY DEF Larger

LEMMA RevisionsFrame ==
  ASSUME IInv, Writing' \subseteq Writing, calls' = calls, record'.revision \in Paid,
         \A t \in Tab : localRevision'[t] \in Paid, \A k \in Task : tasks'[k].revision \in Paid
  PROVE  RevisionsOK'
<1>1. IsFiniteSet(Writing') /\ Cardinality(Writing') <= Cardinality(Writing)
  BY FS_Subset DEF IInv, RevisionsOK
<1>2. Cardinality(Writing') \in Nat
  BY <1>1, FS_CardinalityType
<1>3. \A x \in Paid : x + Cardinality(Writing') <= calls' + 1
  BY <1>1, <1>2, PaidNow DEF Paid, Within
<1> QED BY <1>1, <1>3 DEF RevisionsOK, Within

\* A step of a call that was already counted, or that ends.
LEMMA RevisionsMove ==
  ASSUME IInv, NEW k \in Task, NEW pc, NEW op, NEW token, NEW ok, Becomes(k, pc, op, token, ok),
         pc = "idle" \/ (pc # "writing" /\ k \in Writing),
         calls' = calls, record'.revision \in Paid, \A t \in Tab : localRevision'[t] \in Paid
  PROVE  RevisionsOK'
<1>1. Writing' \subseteq Writing
  BY DEF Becomes, Writing
<1>2. \A j \in Task : tasks'[j].revision \in Paid
  BY PaidNow DEF Becomes
<1> QED BY <1>1, <1>2, RevisionsFrame

LEMMA ReadPaid ==
  ASSUME IInv, NEW t \in Tab, readRecord(t)
  PROVE  \A u \in Tab : localRevision'[u] \in Paid
<1>1. localRevision' = [localRevision EXCEPT ![t] = Larger(localRevision[t], record.revision)]
  BY DEF readRecord
<1>2. Larger(localRevision[t], record.revision) \in Paid
  BY PaidNow, LargerPaid
<1> QED BY <1>1, <1>2, PaidNow DEF IInv, TypeOK

LEMMA RevisionsStart == ASSUME IInv, NEW k \in Task, Call(k) PROVE RevisionsOK'
<1>1. /\ UNCHANGED <<record, localRevision>> /\ calls' = calls + 1 /\ TypeOK
      /\ \A j \in Task : j # k => tasks'[j] = tasks[j]
      /\ tasks'[k].revision \in {0, tasks[k].revision}
  BY Starts DEF Call, BeginRefresh, BeginLatest, BeginSignIn, Begin, Becomes, IInv, client
<1>2. Writing' \subseteq Writing \cup {k}
  BY <1>1 DEF Writing
<1>3. /\ IsFiniteSet(Writing \cup {k})
      /\ Cardinality(Writing \cup {k}) \in {Cardinality(Writing), Cardinality(Writing) + 1}
  BY FS_AddElement DEF IInv, RevisionsOK
<1>4. IsFiniteSet(Writing') /\ Cardinality(Writing') <= Cardinality(Writing \cup {k})
  BY <1>2, <1>3, FS_Subset
<1>5. Cardinality(Writing') \in Nat
  BY <1>4, FS_CardinalityType
<1>6. \A x \in Paid : x + Cardinality(Writing') <= calls' + 1
  BY <1>1, <1>3, <1>4, <1>5, PaidNow DEF Paid, Within
<1>7. \A j \in Task : tasks'[j].revision \in Paid
  BY <1>1, PaidNow
<1> QED BY <1>1, <1>4, <1>6, <1>7, PaidNow DEF RevisionsOK, Within

\* The revision of the write is one more, and the call is not counted any more.
LEMMA RevisionsRaised == ASSUME IInv, NEW k \in Task, GetRecord(k) PROVE RevisionsOK'
<1> DEFINE seen == Larger(localRevision[k[1]], record.revision)
<1>1. k[1] \in Tab /\ seen \in Paid
  BY PaidNow, LargerPaid DEF Task
<1>2. /\ UNCHANGED <<record, calls>> /\ tasks[k].pc = "queued"
      /\ tasks' = [tasks EXCEPT ![k].pc = "writing", ![k].revision = seen + 1]
  BY DEF GetRecord
<1>3. \A t \in Tab : localRevision'[t] \in Paid
  BY <1>1, ReadPaid DEF GetRecord
<1> HIDE DEF seen
<1>4. /\ tasks'[k].pc = "writing" /\ tasks'[k].revision = seen + 1
      /\ \A j \in Task : j # k => tasks'[j] = tasks[j]
  BY <1>2, Tasks DEF IInv, TaskRow
<1>5. k \in Writing /\ Writing' = Writing \ {k}
  BY <1>2, <1>4 DEF Writing
<1>6. IsFiniteSet(Writing') /\ Cardinality(Writing') = Cardinality(Writing) - 1
  BY <1>5, FS_RemoveElement DEF IInv, RevisionsOK
<1>7. \A x \in Paid : x + 1 + Cardinality(Writing') <= calls' + 1 /\ x + Cardinality(Writing') <= calls' + 1
  BY <1>2, <1>6, PaidNow DEF Paid, Within
<1>8. \A j \in Task : tasks'[j].revision + Cardinality(Writing') <= calls' + 1
  BY <1>1, <1>4, <1>7, PaidNow
<1> QED BY <1>2, <1>3, <1>6, <1>7, <1>8, PaidNow DEF RevisionsOK, Within

LEMMA RevisionsWritten == ASSUME IInv, NEW k \in Task, SetItem(k) PROVE RevisionsOK'
<1>1. Becomes(k, "idle", "refresh", None, FALSE) /\ calls' = calls /\ k[1] \in Tab
  BY Starts DEF SetItem, IInv, Task
<1>2. record'.revision \in Paid
  BY PaidNow DEF SetItem
<1>3. localRevision' = [localRevision EXCEPT ![k[1]] = tasks[k].revision]
  BY DEF SetItem
<1>4. \A t \in Tab : localRevision'[t] \in Paid
  BY <1>1, <1>3, PaidNow DEF IInv, TypeOK
<1> QED BY <1>1, <1>2, <1>4, RevisionsMove

LEMMA RevisionsClose == ASSUME IInv, NEW t \in Tab, Close(t) PROVE RevisionsOK'
<1>1. /\ UNCHANGED <<record, localRevision, calls>>
      /\ \A j \in Task : tasks'[j] = IF j[1] = t THEN [Idle EXCEPT !.pc = "closed"] ELSE tasks[j]
  BY DEF Close, client
<1>2. [Idle EXCEPT !.pc = "closed"].pc = "closed" /\ [Idle EXCEPT !.pc = "closed"].revision = 0
  BY DEF Idle
<1>3. Writing' \subseteq Writing
  BY <1>1, <1>2 DEF Writing
<1>4. \A j \in Task : tasks'[j].revision \in Paid
  BY <1>1, <1>2, PaidNow
<1> QED BY <1>1, <1>3, <1>4, PaidNow, RevisionsFrame

LEMMA RevisionsStep == ASSUME IInv, Next PROVE RevisionsOK'
<1>1. TypeOK /\ \A k \in Task : k[1] \in Tab
  BY DEF IInv, Task
<1>2. ASSUME NEW k \in Task, Return(k), UNCHANGED <<record, localRevision, calls>>
      PROVE  RevisionsOK'
  <2>1. Becomes(k, "idle", "refresh", None, FALSE)
    BY <1>1, <1>2, Starts
  <2>2. record'.revision \in Paid /\ \A t \in Tab : localRevision'[t] \in Paid
    BY <1>2, PaidNow
  <2> QED BY <1>2, <2>1, <2>2, RevisionsMove
<1>3. ASSUME NEW k \in Task, Acquire(k) \/ ReadSession(k)
      PROVE  RevisionsOK'
  <2>1. PICK pc \in {"readSession", "readRevision"} :
          Becomes(k, pc, tasks[k].op, tasks[k].token, tasks[k].ok)
    BY <1>1, <1>3, Waits DEF Acquire, ReadSession
  <2>2. UNCHANGED <<record, calls>> /\ k \in Writing
    BY <1>3 DEF Acquire, ReadSession, Writing
  <2>3. \A t \in Tab : localRevision'[t] \in Paid
    BY <1>1, <1>3, PaidNow, ReadPaid DEF Acquire, ReadSession, readSession, client
  <2> QED BY <2>1, <2>2, <2>3, PaidNow, RevisionsMove
<1>4. ASSUME NEW k \in Task, ReadRevision(k)
      PROVE  RevisionsOK'
  <2> DEFINE token == Candidate(tasks[k].token, currentSession[k[1]])
  <2>1. UNCHANGED <<record, calls>> /\ k \in Writing
    BY <1>4 DEF ReadRevision, Writing
  <2>2. \A t \in Tab : localRevision'[t] \in Paid
    BY <1>1, <1>4, ReadPaid DEF ReadRevision, readRevision
  <2>3. PICK pc \in {"idle", "sent"} : \E op, x, ok : Becomes(k, pc, op, x, ok)
    <3>1. CASE Return(k)
      BY <1>1, <3>1, Starts
    <3>2. CASE ~ Return(k)
      <4>1. tasks' = [tasks EXCEPT ![k].pc = "sent", ![k].token = token]
        BY <1>4, <3>2 DEF ReadRevision
      <4>2. Becomes(k, "sent", tasks[k].op, token, tasks[k].ok)
        BY ONLY <1>1, <4>1, Waits
      <4> QED BY <4>2
    <3> QED BY <3>1, <3>2
  <2> QED BY <2>1, <2>2, <2>3, PaidNow, RevisionsMove
<1>5. ASSUME NEW k \in Task, Commit(k) \/ Clear(k) \/ LoseSignOut(k)
      PROVE  RevisionsOK'
  <2>1. PICK pc \in {"queued", "replied"} :
          \E token, ok : Becomes(k, pc, tasks[k].op, token, ok)
    BY <1>1, <1>5, Waits
  <2>2. UNCHANGED <<record, localRevision, calls>> /\ k \in Writing
    BY <1>5 DEF Commit, Clear, LoseSignOut, client, At, Writing
  <2> QED BY <2>1, <2>2, PaidNow, RevisionsMove
<1>6. ASSUME NEW k \in Task,
             ServeRefresh(k) \/ ServeSignIn(k) \/ ServeSignOut(k) \/ ServeUpdate(k)
      PROVE  RevisionsOK'
  <2>1. PICK token, ok : Becomes(k, "replied", tasks[k].op, token, ok)
    BY <1>1, <1>6, Waits DEF ServeRefresh, ServeSignIn, ServeSignOut, ServeUpdate
  <2>2. UNCHANGED <<record, localRevision, calls>> /\ k \in Writing
    BY <1>6 DEF ServeRefresh, ServeSignIn, ServeSignOut, ServeUpdate, Reply, client, At, Writing
  <2> QED BY <2>1, <2>2, PaidNow, RevisionsMove
<1>7. ASSUME UNCHANGED <<tasks, record, calls>>, \A t \in Tab : localRevision'[t] \in Paid
      PROVE  RevisionsOK'
  <2>1. Writing' = Writing
    BY <1>7 DEF Writing
  <2>2. record'.revision \in Paid /\ \A k \in Task : tasks'[k].revision \in Paid
    BY <1>7, PaidNow
  <2> QED BY <1>7, <2>1, <2>2, RevisionsFrame
<1>8. ASSUME NEW t \in Tab, Listen(t)
      PROVE  RevisionsOK'
  <2>1. localRevision' = localRevision \/ readRecord(t)
    BY <1>8 DEF Listen, RemoteBegin, RemoteReadSession, RemoteReadRevision, readSession,
                readRevision, client
  <2>2. UNCHANGED <<tasks, record, calls>>
    BY <1>8 DEF Listen, RemoteBegin, RemoteReadSession, RemoteReadRevision
  <2> QED BY <1>7, <2>1, <2>2, PaidNow, ReadPaid
<1>9. ASSUME NEW k \in Task, LockTimeout(k) \/ UpdateRefused(k) \/ Lose(k)
      PROVE  RevisionsOK'
  BY <1>2, <1>9 DEF LockTimeout, UpdateRefused, Lose, client
<1>10. ASSUME NEW k \in Task, Work(k)
       PROVE  RevisionsOK'
  BY <1>3, <1>4, <1>5, <1>6, <1>9, <1>10, RevisionsRaised, RevisionsWritten DEF Work
<1>11. ASSUME UNCHANGED <<tasks, record, calls, localRevision>>
       PROVE  RevisionsOK'
  <2>1. \A t \in Tab : localRevision'[t] \in Paid
    BY <1>11, PaidNow
  <2> QED BY <1>7, <1>11, <2>1
<1> QED BY <1>5, <1>8, <1>9, <1>10, <1>11, RevisionsStart, RevisionsClose
        DEF Next, ServeStray, Revoke, client

--------------------------------------------------------------------------------
(* Types.                                                                  *)

Told == [event : Event, revision : Revision]
ServerRow == [status : {"unused", "live", "revoked"}, gen : 0..MaxCalls]

\* The parts of TypeOK, by what the actions change together.
ServerTyped == server \in [Session -> ServerRow] /\ strays \subseteq Token /\ adrift \subseteq Session
StoreTyped ==
  /\ record \in [revision : Revision, session : Token \cup {None}]
  /\ currentSession \in [Tab -> Token \cup {None}]
  /\ lastRevision \in [Tab -> Revision]
  /\ localRevision \in [Tab -> Revision]
BusTyped ==
  /\ lastEvent \in [Tab -> [event : Event \cup {None}, revision : Revision]]
  /\ channel \in [Tab \X Tab -> Seq(Told)]
RemoteTyped ==
  remote \in [Tab -> [pc : {"idle", "readSession", "readRevision", "closed"},
                      event : Event \cup {None}, previous : Revision]]
CallsTyped ==
  /\ lockQueue \subseteq Task \X Task
  /\ writeQueue \in [Tab -> SUBSET (Task \X Task)]
  /\ tasks \in [Task -> TaskRow]
  /\ calls \in 0..MaxCalls

LEMMA TypeParts == TypeOK <=> ServerTyped /\ StoreTyped /\ BusTyped /\ RemoteTyped /\ CallsTyped
BY DEF TypeOK, ServerTyped, StoreTyped, BusTyped, RemoteTyped, CallsTyped, TaskRow, Pc, ServerRow, Told

LEMMA TypeNext == ServerTyped' /\ StoreTyped' /\ BusTyped' /\ RemoteTyped' /\ CallsTyped' => TypeOK'
BY DEF TypeOK, ServerTyped, StoreTyped, BusTyped, RemoteTyped, CallsTyped, TaskRow, Pc, ServerRow, Told

LEMMA Dispatched ==
  ASSUME BusTyped, NEW t \in Tab, NEW event \in Event, NEW revision \in Revision, NEW publish,
         dispatch(t, event, revision, publish)
  PROVE  BusTyped'
<1> DEFINE told == [event |-> event, revision |-> revision]
<1>1. told \in Told /\ told \in [event : Event \cup {None}, revision : Revision]
  BY DEF Told
<1>2. lastEvent' = [lastEvent EXCEPT ![t] = told]
  BY DEF dispatch
<1>3. \/ channel' = channel
      \/ channel' = [p \in Tab \X Tab |-> IF p[1] = t /\ p[2] # t THEN Append(channel[p], told)
                                          ELSE channel[p]]
  BY DEF dispatch
<1> HIDE DEF told
<1>4. \A p \in Tab \X Tab : Append(channel[p], told) \in Seq(Told)
  BY <1>1 DEF BusTyped
<1>5. channel' \in [Tab \X Tab -> Seq(Told)]
  BY <1>3, <1>4 DEF BusTyped
<1>6. lastEvent' \in [Tab -> [event : Event \cup {None}, revision : Revision]]
  BY <1>1, <1>2 DEF BusTyped
<1> QED BY <1>5, <1>6 DEF BusTyped

LEMMA ReadTypes ==
  ASSUME StoreTyped, NEW t \in Tab, UNCHANGED record,
         \/ readSession(t) \/ readRevision(t)
         \/ readRecord(t) /\ UNCHANGED <<currentSession, lastRevision>>
  PROVE  StoreTyped'
BY DEF StoreTyped, readSession, readRevision, readRecord, Larger

LEMMA Queues ==
  /\ \A queue \in SUBSET (Task \X Task), k \in Task : Joined(queue, k) \in SUBSET (Task \X Task)
  /\ \A queue \in SUBSET (Task \X Task) : \A gone : Without(queue, gone) \in SUBSET (Task \X Task)
<1>1. ASSUME NEW queue \in SUBSET (Task \X Task), NEW k \in Task
      PROVE  Joined(queue, k) \subseteq Task \X Task
  <2> DEFINE ahead == {i \in Task : <<i, i>> \in queue} \cup {k}
  <2>1. Joined(queue, k) = queue \cup {<<j, k>> : j \in ahead}
    BY DEF Joined
  <2>2. \A j \in ahead : <<j, k>> \in Task \X Task
    OBVIOUS
  <2> HIDE DEF ahead
  <2> QED BY <2>1, <2>2
<1>2. ASSUME NEW queue \in SUBSET (Task \X Task), NEW gone
      PROVE  Without(queue, gone) \subseteq Task \X Task
  BY DEF Without
<1> QED BY <1>1, <1>2

LEMMA Returned ==
  ASSUME CallsTyped, NEW k \in Task, Return(k), UNCHANGED <<writeQueue, calls>>
  PROVE  CallsTyped'
<1>1. Idle \in TaskRow
  BY MaxCallsAssumption DEF Idle, TaskRow, Pc, Revision
<1> QED BY <1>1, Queues DEF Return, CallsTyped

\* A step of a call that stays in its queues.
LEMMA Moved ==
  ASSUME CallsTyped, NEW k \in Task, UNCHANGED <<lockQueue, writeQueue, calls>>,
         tasks' \in [Task -> TaskRow]
  PROVE  CallsTyped'
BY DEF CallsTyped

LEMMA RevisionBound ==
  ASSUME IInv, NEW k \in Task, tasks[k].pc = "queued"
  PROVE  Larger(localRevision[k[1]], record.revision) + 1 \in Revision
<1>1. k \in Writing /\ k[1] \in Tab
  BY DEF Writing, Task
<1>2. Cardinality(Writing) \in Nat /\ Cardinality(Writing) # 0
  BY <1>1, FS_EmptySet, FS_CardinalityType DEF IInv, RevisionsOK
<1>3. Larger(localRevision[k[1]], record.revision) \in Paid
  BY <1>1, PaidNow, LargerPaid
<1>4. calls \in Nat /\ calls <= MaxCalls
  BY MaxCallsAssumption DEF IInv, TypeOK
<1> QED BY <1>2, <1>3, <1>4, MaxCallsAssumption DEF Paid, Within, Revision

LEMMA TypeStart == ASSUME IInv, NEW k \in Task, Call(k) PROVE TypeOK'
<1>1. ServerTyped /\ StoreTyped /\ BusTyped /\ RemoteTyped /\ CallsTyped /\ k[1] \in Tab
  BY TypeParts DEF IInv, Task
<1>2. /\ UNCHANGED <<server, record, client, bus, remote, writeQueue, strays, adrift>>
      /\ calls' = calls + 1 /\ calls < MaxCalls
  BY DEF Call, BeginRefresh, BeginLatest, BeginSignIn, Begin
<1>3. calls' \in 0..MaxCalls
  BY <1>1, <1>2, MaxCallsAssumption DEF CallsTyped
<1>4. lockQueue' \subseteq Task \X Task
  BY <1>1, Queues DEF Call, BeginRefresh, BeginLatest, BeginSignIn, CallsTyped
<1>5. ASSUME NEW q \in TaskRow, tasks' = [tasks EXCEPT ![k] = q]
      PROVE  CallsTyped'
  BY <1>1, <1>2, <1>3, <1>4, <1>5 DEF CallsTyped
<1>6. Idle \in TaskRow
  BY MaxCallsAssumption DEF Idle, TaskRow, Pc, Revision
<1>7. ASSUME BeginRefresh(k) PROVE CallsTyped'
  <2>1. [Idle EXCEPT !.pc = "waiting", !.token = currentSession[k[1]]] \in TaskRow
    BY <1>1, <1>6 DEF StoreTyped, TaskRow, Pc
  <2> QED BY <1>5, <1>7, <2>1 DEF BeginRefresh
<1>8. ASSUME NEW op \in Ops, BeginLatest(k, op)
      PROVE  CallsTyped'
  <2>1. [Idle EXCEPT !.pc = "readSession", !.op = op] \in TaskRow
    BY <1>6 DEF TaskRow, Pc
  <2> QED BY <1>5, <1>8, <2>1 DEF BeginLatest
<1>9. ASSUME NEW s \in Session, BeginSignIn(k, s)
      PROVE  CallsTyped'
  <2>1. "signIn" \in Ops /\ [sid |-> s, gen |-> 0] \in Token
    BY <1>9, MaxCallsAssumption DEF BeginSignIn, Begin, Token
  <2>2. [Idle EXCEPT !.pc = "sent", !.op = "signIn", !.token = [sid |-> s, gen |-> 0]] \in TaskRow
    BY <1>6, <2>1 DEF TaskRow, Pc
  <2> QED BY <1>5, <1>9, <2>2 DEF BeginSignIn
<1>10. CallsTyped'
  BY <1>7, <1>8, <1>9 DEF Call
<1>11. ServerTyped' /\ StoreTyped' /\ BusTyped' /\ RemoteTyped'
  BY <1>1, <1>2 DEF ServerTyped, StoreTyped, BusTyped, RemoteTyped, client, bus
<1> QED BY <1>10, <1>11, TypeNext

LEMMA TypeRead ==
  ASSUME IInv, NEW k \in Task, Acquire(k) \/ LockTimeout(k) \/ ReadSession(k) \/ ReadRevision(k)
  PROVE  TypeOK'
<1>1. ServerTyped /\ StoreTyped /\ BusTyped /\ RemoteTyped /\ CallsTyped /\ k[1] \in Tab
  BY TypeParts DEF IInv, Task
<1>2. UNCHANGED <<server, record, remote, writeQueue, strays, adrift, calls>>
  BY DEF Acquire, LockTimeout, ReadSession, ReadRevision
<1>3. StoreTyped'
  <2>1. UNCHANGED client \/ readSession(k[1]) \/ readRevision(k[1])
    BY DEF Acquire, LockTimeout, ReadSession, ReadRevision
  <2> QED BY <1>1, <1>2, <2>1, ReadTypes DEF StoreTyped, client
<1>4. ASSUME NEW pc \in Pc, Goto(k, pc), UNCHANGED lockQueue
      PROVE  CallsTyped'
  <2>1. tasks' \in [Task -> TaskRow]
    BY <1>1, <1>4 DEF Goto, CallsTyped, TaskRow
  <2> QED BY <1>1, <1>2, <1>4, <2>1, Moved
<1>5. CASE Acquire(k) \/ LockTimeout(k) \/ ReadSession(k)
  <2>1. CallsTyped'
    BY <1>1, <1>2, <1>4, <1>5, Returned DEF Acquire, LockTimeout, ReadSession, Pc
  <2>2. UNCHANGED bus
    BY <1>5 DEF Acquire, LockTimeout, ReadSession
  <2> QED BY <1>1, <1>2, <1>3, <2>1, <2>2, TypeNext
          DEF ServerTyped, BusTyped, RemoteTyped, bus
<1>6. CASE ReadRevision(k)
  <2> DEFINE token == Candidate(tasks[k].token, currentSession[k[1]])
  <2>1. CASE Return(k)
    <3>1. CallsTyped'
      BY <1>1, <1>2, <2>1, Returned
    <3>2. BusTyped'
      <4>1. UNCHANGED bus \/ dispatch(k[1], "TOKEN_REFRESHED", record.revision, FALSE)
        BY <1>6 DEF ReadRevision
      <4>2. record.revision \in Revision /\ "TOKEN_REFRESHED" \in Event
        BY <1>1 DEF StoreTyped, Event
      <4> QED BY <1>1, <4>1, <4>2, Dispatched DEF BusTyped, bus
    <3> QED BY <1>1, <1>2, <1>3, <3>1, <3>2, TypeNext DEF ServerTyped, RemoteTyped
  <2>2. CASE ~ Return(k)
    <3>1. tasks' = [tasks EXCEPT ![k].pc = "sent", ![k].token = token] /\ UNCHANGED <<bus, lockQueue>>
      BY <1>6, <2>2 DEF ReadRevision
    <3>2. token \in Token \cup {None}
      BY <1>1 DEF Candidate, StoreTyped, CallsTyped, TaskRow
    <3> HIDE DEF token
    <3>3. tasks' \in [Task -> TaskRow]
      <4>1. [tasks[k] EXCEPT !.pc = "sent", !.token = token] \in TaskRow
        BY <1>1, <3>2 DEF CallsTyped, TaskRow, Pc
      <4>2. tasks' = [tasks EXCEPT ![k] = [tasks[k] EXCEPT !.pc = "sent", !.token = token]]
        BY <1>1, <3>1 DEF CallsTyped
      <4> QED BY <1>1, <4>1, <4>2 DEF CallsTyped
    <3>4. CallsTyped'
      BY <1>1, <1>2, <3>1, <3>3, Moved
    <3> QED BY <1>1, <1>2, <1>3, <3>1, <3>4, TypeNext DEF ServerTyped, BusTyped, RemoteTyped, bus
  <2> QED BY <2>1, <2>2
<1> QED BY <1>5, <1>6

\* A request reaches the server, or is given up.
LEMMA TypeReply ==
  ASSUME IInv, NEW k \in Task, NEW ok \in BOOLEAN, NEW token \in Token \cup {None},
         Reply(k, ok, token), ServerTyped'
  PROVE  TypeOK'
<1>1. StoreTyped /\ BusTyped /\ RemoteTyped /\ CallsTyped
  BY TypeParts DEF IInv
<1>2. [tasks[k] EXCEPT !.pc = "replied", !.ok = ok, !.token = token] \in TaskRow
  BY <1>1 DEF CallsTyped, TaskRow, Pc
<1>3. tasks' = [tasks EXCEPT ![k] = [tasks[k] EXCEPT !.pc = "replied", !.ok = ok, !.token = token]]
  BY <1>1 DEF Reply, CallsTyped
<1>4. tasks' \in [Task -> TaskRow]
  BY <1>1, <1>2, <1>3 DEF CallsTyped
<1>5. CallsTyped'
  BY <1>1, <1>4 DEF Reply, CallsTyped
<1> QED BY <1>1, <1>5, TypeNext DEF Reply, StoreTyped, BusTyped, RemoteTyped, client, bus

LEMMA TypeServe ==
  ASSUME IInv, NEW k \in Task,
         ServeRefresh(k) \/ ServeSignIn(k) \/ ServeSignOut(k) \/ ServeUpdate(k)
  PROVE  TypeOK'
<1> DEFINE token == tasks[k].token
<1>1. ServerTyped /\ CallsTyped /\ token \in Token \cup {None}
  BY TypeParts DEF IInv, CallsTyped, TaskRow
<1>2. \A s : Live(s) \in BOOLEAN
  BY DEF Live
<1>3. CASE ServeRefresh(k)
  <2>1. At(k, "sent", {"refresh"}) /\ Reply(k, Rotates(token), Answer(token)) /\ server' = refreshed(token)
    BY <1>3 DEF ServeRefresh, Answer
  <2>2. token \in Token /\ Answer(token) \in Token /\ Rotates(token) \in BOOLEAN
    BY <2>1, Answered DEF Rotates, Live
  <2>3. Rotates(token) => server[token.sid].gen + 1 \in 0..MaxCalls
    BY <2>2, MaxCallsAssumption DEF Answer, Rotates, Token
  <2>4. refreshed(token) \in [Session -> ServerRow]
    BY <1>1, <2>2, <2>3 DEF refreshed, ServerTyped, ServerRow, Token
  <2>5. ServerTyped'
    BY <1>1, <2>1, <2>4 DEF Reply, ServeRefresh, ServerTyped
  <2> QED BY <2>1, <2>2, <2>5, TypeReply
<1>4. CASE ServeSignIn(k)
  <2>1. ServerTyped' /\ Reply(k, TRUE, token)
    BY <1>1, <1>4 DEF ServeSignIn, Reply, ServerTyped, ServerRow
  <2> QED BY <1>1, <2>1, TypeReply
<1>5. CASE ServeSignOut(k) \/ ServeUpdate(k)
  <2>1. ServerTyped' /\ Reply(k, Live(token.sid), token)
    BY <1>1, <1>5 DEF ServeSignOut, ServeUpdate, Reply, ServerTyped, ServerRow
  <2> QED BY <1>1, <1>2, <2>1, TypeReply
<1> QED BY <1>3, <1>4, <1>5

LEMMA StrayAffordable ==
  ASSUME IInv, NEW token \in strays
  PROVE  server[token.sid].gen + 1 \in 0..MaxCalls
<1>1. Cardinality(strays) # 0 /\ Cardinality(strays) \in Nat /\ Cardinality(Rotating) \in Nat
  BY FS_EmptySet, RotationTypes DEF IInv, RotationsOK
<1>2. token.sid \in Session /\ calls \in 0..MaxCalls
  BY DEF IInv, TypeOK, Token
<1>3. /\ server[token.sid].gen + Cardinality(Rotating) + Cardinality(strays) <= calls
      /\ server[token.sid].gen \in Nat
  BY <1>2, RotationTypes DEF IInv, RotationsOK
<1> QED BY <1>1, <1>2, <1>3, MaxCallsAssumption

LEMMA TypeStray == ASSUME IInv, NEW token \in strays, ServeStray(token) PROVE TypeOK'
<1>1. ServerTyped /\ StoreTyped /\ BusTyped /\ RemoteTyped /\ CallsTyped /\ token \in Token
  BY TypeParts DEF IInv, ServerTyped
<1>2. server[token.sid].gen + 1 \in 0..MaxCalls
  BY StrayAffordable
<1>3. refreshed(token) \in [Session -> ServerRow]
  BY <1>1, <1>2 DEF refreshed, ServerTyped, ServerRow, Token
<1>4. ServerTyped'
  BY <1>1, <1>3 DEF ServeStray, ServerTyped
<1> QED BY <1>1, <1>4, TypeNext DEF ServeStray, StoreTyped, BusTyped, RemoteTyped, CallsTyped, client, bus

LEMMA TypeRevoke == ASSUME IInv, NEW s \in Session, Revoke(s) PROVE TypeOK'
<1>1. ServerTyped /\ StoreTyped /\ BusTyped /\ RemoteTyped /\ CallsTyped
  BY TypeParts DEF IInv
<1>2. ServerTyped'
  BY <1>1 DEF Revoke, ServerTyped, ServerRow
<1> QED BY <1>1, <1>2, TypeNext DEF Revoke, StoreTyped, BusTyped, RemoteTyped, CallsTyped, client, bus

LEMMA TypeLose == ASSUME IInv, NEW k \in Task, Lose(k) PROVE TypeOK'
<1>1. ServerTyped /\ StoreTyped /\ BusTyped /\ RemoteTyped /\ CallsTyped
  BY TypeParts DEF IInv
<1>2. tasks[k].token \in Token /\ tasks[k].token.sid \in Session
  BY <1>1 DEF Lose, IInv, RowOK, Knows, CallsTyped, TaskRow, Token
<1>3. ServerTyped'
  BY <1>1, <1>2 DEF Lose, ServerTyped
<1>4. CallsTyped'
  BY <1>1, Returned DEF Lose
<1> QED BY <1>1, <1>3, <1>4, TypeNext DEF Lose, StoreTyped, BusTyped, RemoteTyped, client, bus

\* The answer is received.
LEMMA TypeAnswer ==
  ASSUME IInv, NEW k \in Task, Commit(k) \/ Clear(k) \/ UpdateRefused(k) \/ LoseSignOut(k)
  PROVE  TypeOK'
<1>1. ServerTyped /\ StoreTyped /\ BusTyped /\ RemoteTyped /\ CallsTyped /\ k[1] \in Tab
  BY TypeParts DEF IInv, Task
<1>2. CallsTyped'
  <2>1. ASSUME NEW q \in TaskRow, tasks' = [tasks EXCEPT ![k] = q], UNCHANGED <<lockQueue, calls>>,
               writeQueue' \in [Tab -> SUBSET (Task \X Task)]
        PROVE  CallsTyped'
    BY <1>1, <2>1 DEF CallsTyped
  <2>2. Joined(writeQueue[k[1]], k) \in SUBSET (Task \X Task)
    BY <1>1, Queues DEF CallsTyped
  <2>3. [writeQueue EXCEPT ![k[1]] = Joined(@, k)] \in [Tab -> SUBSET (Task \X Task)]
    BY <1>1, <2>2 DEF CallsTyped
  <2>4. ASSUME NEW event \in Event, Commit(k),
               tasks' = [tasks EXCEPT ![k].pc = "queued", ![k].event = event]
        PROVE  CallsTyped'
    <3>1. [tasks[k] EXCEPT !.pc = "queued", !.event = event] \in TaskRow
      BY <1>1 DEF CallsTyped, TaskRow, Pc
    <3>2. tasks' = [tasks EXCEPT ![k] = [tasks[k] EXCEPT !.pc = "queued", !.event = event]]
      BY <1>1, <2>4 DEF CallsTyped
    <3> QED BY <2>1, <2>3, <2>4, <3>1, <3>2 DEF Commit
  <2>5. ASSUME Commit(k) PROVE CallsTyped'
    <3>1. tasks[k].op \in {"refresh", "signIn", "updateUser"}
      BY <1>1, <2>5, SwitchAssumption DEF Commit, CallsTyped, TaskRow
    <3>2. CommitEvent[tasks[k].op] \in Event
      BY <3>1 DEF CommitEvent, Event
    <3> QED BY <2>4, <2>5, <3>2 DEF Commit
  <2>6. ASSUME Clear(k), NEW event \in Event \cup {None},
               tasks' = [tasks EXCEPT ![k].pc = "queued", ![k].token = None, ![k].event = event]
        PROVE  CallsTyped'
    <3>1. [tasks[k] EXCEPT !.pc = "queued", !.token = None, !.event = event] \in TaskRow
      BY <1>1 DEF CallsTyped, TaskRow, Pc
    <3>2. tasks' = [tasks EXCEPT ![k] =
                      [tasks[k] EXCEPT !.pc = "queued", !.token = None, !.event = event]]
      BY <1>1, <2>6 DEF CallsTyped
    <3> QED BY <2>1, <2>3, <2>6, <3>1, <3>2 DEF Clear
  <2>7. ASSUME Clear(k) PROVE CallsTyped'
    BY <2>6, <2>7 DEF Clear, Event
  <2>8. ASSUME LoseSignOut(k) PROVE CallsTyped'
    <3>1. [tasks[k] EXCEPT !.pc = "replied", !.ok = FALSE] \in TaskRow
      BY <1>1 DEF CallsTyped, TaskRow, Pc
    <3>2. tasks' = [tasks EXCEPT ![k] = [tasks[k] EXCEPT !.pc = "replied", !.ok = FALSE]]
      BY <1>1, <2>8 DEF LoseSignOut, CallsTyped
    <3> QED BY <1>1, <2>1, <2>8, <3>1, <3>2 DEF LoseSignOut, CallsTyped
  <2>9. ASSUME UpdateRefused(k) PROVE CallsTyped'
    BY <1>1, <2>9, Returned DEF UpdateRefused
  <2> QED BY <2>5, <2>7, <2>8, <2>9
<1>3. UNCHANGED <<server, record, client, bus, remote, strays, adrift>>
  BY DEF Commit, Clear, UpdateRefused, LoseSignOut
<1> QED BY <1>1, <1>2, <1>3, TypeNext
        DEF ServerTyped, StoreTyped, BusTyped, RemoteTyped, client, bus

LEMMA TypeGetRecord == ASSUME IInv, NEW k \in Task, GetRecord(k) PROVE TypeOK'
<1> DEFINE revision == Larger(localRevision[k[1]], record.revision) + 1
<1>1. ServerTyped /\ StoreTyped /\ BusTyped /\ RemoteTyped /\ CallsTyped /\ k[1] \in Tab
  BY TypeParts DEF IInv, Task
<1>2. /\ revision \in Revision /\ tasks' = [tasks EXCEPT ![k].pc = "writing", ![k].revision = revision]
      /\ readRecord(k[1]) /\ UNCHANGED <<record, currentSession, lastRevision>>
      /\ UNCHANGED <<server, bus, remote, lockQueue, writeQueue, strays, adrift, calls>>
  BY RevisionBound DEF GetRecord
<1> HIDE DEF revision
<1>3. [tasks[k] EXCEPT !.pc = "writing", !.revision = revision] \in TaskRow
  BY <1>1, <1>2 DEF CallsTyped, TaskRow, Pc
<1>4. tasks' = [tasks EXCEPT ![k] = [tasks[k] EXCEPT !.pc = "writing", !.revision = revision]]
  BY <1>1, <1>2 DEF CallsTyped
<1>5. tasks' \in [Task -> TaskRow]
  BY <1>1, <1>3, <1>4 DEF CallsTyped
<1>6. CallsTyped' /\ StoreTyped'
  BY <1>1, <1>2, <1>5, Moved, ReadTypes
<1> QED BY <1>1, <1>2, <1>6, TypeNext DEF ServerTyped, BusTyped, RemoteTyped, bus

LEMMA TypeSetItem == ASSUME IInv, NEW k \in Task, SetItem(k) PROVE TypeOK'
<1> DEFINE task == tasks[k]
<1>1. ServerTyped /\ StoreTyped /\ BusTyped /\ RemoteTyped /\ CallsTyped /\ k[1] \in Tab
  BY TypeParts DEF IInv, Task
<1>2. /\ task.token \in Token \cup {None} /\ task.revision \in Revision
      /\ task.event \in Event \cup {None}
  BY <1>1 DEF CallsTyped, TaskRow
<1>3. StoreTyped'
  BY <1>1, <1>2 DEF SetItem, StoreTyped
<1>4. BusTyped'
  <2>1. UNCHANGED bus \/ (task.event # None /\ dispatch(k[1], task.event, task.revision, TRUE))
    BY DEF SetItem
  <2> QED BY <1>1, <1>2, <2>1, Dispatched DEF BusTyped, bus
<1>5. CallsTyped'
  <2>1. Idle \in TaskRow
    BY MaxCallsAssumption DEF Idle, TaskRow, Pc, Revision
  <2>2. /\ lockQueue' = Without(lockQueue, {k}) /\ tasks' = [tasks EXCEPT ![k] = Idle] /\ calls' = calls
        /\ writeQueue' = [writeQueue EXCEPT ![k[1]] = Without(writeQueue[k[1]], {k})]
    BY DEF SetItem, Return
  <2>3. /\ Without(lockQueue, {k}) \in SUBSET (Task \X Task)
        /\ Without(writeQueue[k[1]], {k}) \in SUBSET (Task \X Task)
    BY <1>1, Queues DEF CallsTyped
  <2> QED BY <1>1, <2>1, <2>2, <2>3 DEF CallsTyped
<1>6. ServerTyped' /\ RemoteTyped'
  BY <1>1 DEF SetItem, ServerTyped, RemoteTyped
<1> QED BY <1>3, <1>4, <1>5, <1>6, TypeNext

LEMMA TypeListen == ASSUME IInv, NEW t \in Tab, Listen(t) PROVE TypeOK'
<1>1. ServerTyped /\ StoreTyped /\ BusTyped /\ RemoteTyped /\ CallsTyped
  BY TypeParts DEF IInv
<1>2. UNCHANGED <<server, record, lockQueue, writeQueue, tasks, strays, adrift, calls>>
  BY DEF Listen, RemoteBegin, RemoteReadSession, RemoteReadRevision
<1>3. ServerTyped' /\ CallsTyped'
  BY <1>1, <1>2 DEF ServerTyped, CallsTyped
<1>4. StoreTyped'
  <2>1. UNCHANGED client \/ readSession(t) \/ readRevision(t)
    BY DEF Listen, RemoteBegin, RemoteReadSession, RemoteReadRevision
  <2> QED BY <1>1, <1>2, <2>1, ReadTypes DEF StoreTyped, client
<1>5. ASSUME NEW u \in Tab, RemoteBegin(u, t)
      PROVE  BusTyped' /\ RemoteTyped'
  <2>1. channel[<<u, t>>] \in Seq(Told) /\ channel[<<u, t>>] # <<>>
    BY <1>1, <1>5 DEF RemoteBegin, BusTyped
  <2>2. Head(channel[<<u, t>>]) \in Told /\ Tail(channel[<<u, t>>]) \in Seq(Told)
    BY <2>1
  <2>3. BusTyped'
    BY <1>1, <1>5, <2>2 DEF RemoteBegin, BusTyped
  <2>4. RemoteTyped'
    <3>1. [pc |-> "readSession", event |-> Head(channel[<<u, t>>]).event, previous |-> lastRevision[t]]
            \in [pc : {"idle", "readSession", "readRevision", "closed"}, event : Event \cup {None},
                 previous : Revision]
      BY <1>1, <2>2 DEF StoreTyped, Told
    <3> QED BY <1>1, <1>5, <3>1 DEF RemoteBegin, RemoteTyped
  <2> QED BY <2>3, <2>4
<1>6. CASE RemoteReadSession(t)
  <2>1. BusTyped' /\ RemoteTyped'
    BY <1>1, <1>6 DEF RemoteReadSession, BusTyped, RemoteTyped, bus
  <2> QED BY <1>3, <1>4, <2>1, TypeNext
<1>7. CASE RemoteReadRevision(t)
  <2> DEFINE event == EffectiveEvent(remote[t].event, currentSession[t])
  <2>1. RemoteTyped'
    <3>1. Quiet \in [pc : {"idle", "readSession", "readRevision", "closed"}, event : Event \cup {None},
                     previous : Revision]
      BY MaxCallsAssumption DEF Quiet, Revision
    <3> QED BY <1>1, <1>7, <3>1 DEF RemoteReadRevision, RemoteTyped
  <2>2. UNCHANGED bus \/ dispatch(t, event, record.revision, FALSE)
    BY <1>7 DEF RemoteReadRevision
  <2>3. event \in Event \cup {None} /\ record.revision \in Revision
    BY <1>1 DEF EffectiveEvent, Event, RemoteTyped, StoreTyped
  <2> HIDE DEF event
  <2>4. BusTyped'
    BY <1>1, <2>2, <2>3 DEF dispatch, BusTyped, bus
  <2> QED BY <1>3, <1>4, <2>1, <2>4, TypeNext
<1> QED BY <1>3, <1>4, <1>5, <1>6, <1>7, TypeNext DEF Listen

LEMMA TypeClose == ASSUME IInv, NEW t \in Tab, Close(t) PROVE TypeOK'
<1> DEFINE mine == {k \in Task : k[1] = t}
           inDoubt == {k \in mine : Unanswered(k) \/
                         (tasks[k].op = "refresh" /\ tasks[k].ok
                            /\ tasks[k].pc \in {"queued", "writing"})}
<1>1. ServerTyped /\ StoreTyped /\ BusTyped /\ RemoteTyped /\ CallsTyped
  BY TypeParts DEF IInv
<1>2. \A k \in inDoubt : tasks[k].token \in Token /\ tasks[k].token.sid \in Session
  BY <1>1 DEF Unanswered, At, IInv, RowOK, Knows, CallsTyped, TaskRow, Token
<1>3. ServerTyped'
  <2>1. PICK S \in SUBSET {k \in mine : At(k, "sent", {"refresh"})} :
          strays' = strays \cup {tasks[k].token : k \in S}
    BY DEF Close
  <2>2. S \subseteq inDoubt
    BY <2>1 DEF Unanswered
  <2>3. adrift' = adrift \cup {tasks[k].token.sid : k \in inDoubt} /\ server' = server
    BY DEF Close
  <2> HIDE DEF inDoubt, mine
  <2> QED BY <1>1, <1>2, <2>1, <2>2, <2>3 DEF ServerTyped
<1>4. CallsTyped'
  <2>1. [Idle EXCEPT !.pc = "closed"] \in TaskRow
    <3>1. Idle \in TaskRow
      BY MaxCallsAssumption DEF Idle, TaskRow, Pc, Revision
    <3> QED BY <3>1 DEF TaskRow, Pc
  <2>2. /\ tasks' = [k \in Task |-> IF k \in mine THEN [Idle EXCEPT !.pc = "closed"] ELSE tasks[k]]
        /\ lockQueue' = Without(lockQueue, mine) /\ writeQueue' = [writeQueue EXCEPT ![t] = {}]
        /\ calls' = calls
    BY DEF Close
  <2> HIDE DEF inDoubt, mine
  <2> QED BY <1>1, <2>1, <2>2, Queues DEF CallsTyped
<1>5. StoreTyped' /\ BusTyped'
  BY <1>1 DEF Close, StoreTyped, BusTyped, client
<1>6. RemoteTyped'
  <2>1. [Quiet EXCEPT !.pc = "closed"] \in [pc : {"idle", "readSession", "readRevision", "closed"},
                                           event : Event \cup {None}, previous : Revision]
    BY MaxCallsAssumption DEF Quiet, Revision
  <2> QED BY <1>1, <2>1 DEF Close, RemoteTyped
<1> QED BY <1>3, <1>4, <1>5, <1>6, TypeNext

LEMMA TypeStep == ASSUME IInv, Next PROVE TypeOK'
BY TypeStart, TypeRead, TypeServe, TypeStray, TypeRevoke, TypeLose, TypeAnswer, TypeGetRecord,
   TypeSetItem, TypeListen, TypeClose DEF Next, Work

--------------------------------------------------------------------------------
(* The inductive invariant.                                                *)

LEMMA InitInv == Init => IInv
<1> SUFFICES ASSUME NEW token \in Token \cup {None}, InitWith(token) PROVE IInv
  <2>1. \A s \in Session : [sid |-> s, gen |-> 0] \in Token
    BY MaxCallsAssumption DEF Token
  <2>2. CASE InitWith(None)
    BY <2>2
  <2>3. ASSUME NEW s \in Session, InitWith([sid |-> s, gen |-> 0]) PROVE IInv
    <3> DEFINE token == [sid |-> s, gen |-> 0]
    <3>1. token \in Token /\ InitWith(token)
      BY <2>1, <2>3
    <3> HIDE DEF token
    <3> QED BY <3>1
  <2> QED BY <2>2, <2>3 DEF Init
<1>1. \A k \in Task : tasks[k] = Idle
  BY DEF InitWith
<1>2. TypeOK
  <2>1. Idle \in TaskRow
    BY MaxCallsAssumption DEF Idle, TaskRow, Pc, Revision
  <2>2. 0 \in Revision /\ 1 \in Revision /\ 0 \in 0..MaxCalls
    BY MaxCallsAssumption DEF Revision
  <2>3. ServerTyped
    BY <2>2 DEF InitWith, ServerTyped, ServerRow
  <2>4. StoreTyped /\ BusTyped /\ RemoteTyped
    BY <2>2 DEF InitWith, StoreTyped, BusTyped, RemoteTyped, Quiet
  <2>5. CallsTyped
    BY <2>1, <2>2 DEF InitWith, CallsTyped
  <2> QED BY <2>3, <2>4, <2>5, TypeParts
<1>3. \A k \in Task : RowOK(tasks[k]) /\ ~ Signing(tasks[k])
  BY <1>1 DEF Idle, RowOK, Knows, Signing
<1>4. FreshOK
  <2>1. \A s \in Session : Early(s) => token = None \/ token.sid # s
    BY <1>3 DEF InitWith, Early
  <2>2. \A k \in Task : tasks[k].token = None
    BY <1>1 DEF Idle
  <2>3. \A s \in Session : Early(s) => ~ Known(s)
    BY <2>1, <2>2 DEF InitWith, Known, Carries
  <2> QED BY <1>3, <2>3 DEF FreshOK
<1>5. Rotating = {} /\ Writing = {}
  BY <1>1 DEF Idle, Rotating, Writing
<1>6. RotationsOK
  BY <1>5, FS_EmptySet DEF InitWith, RotationsOK
<1>7. RevisionsOK
  BY <1>1, <1>5, FS_EmptySet DEF InitWith, RevisionsOK, Within, Idle
<1> QED BY <1>2, <1>3, <1>4, <1>6, <1>7 DEF IInv

LEMMA StepInv == IInv /\ [Next]_vars => IInv'
<1> SUFFICES ASSUME IInv, [Next]_vars PROVE IInv'
  OBVIOUS
<1>1. CASE Next
  BY <1>1, TypeStep, RowsStep, FreshStep, RotationsStep, RevisionsStep DEF IInv
<1>2. CASE UNCHANGED vars
  <2>1. TypeOK' /\ (\A k \in Task : RowOK(tasks'[k])) /\ RotationsOK' /\ RevisionsOK'
    BY <1>2 DEF vars, client, bus, IInv, TypeOK, RotationsOK, RevisionsOK, Rotating, Writing, Within
  <2>2. FreshOK'
    BY <1>2 DEF vars, client, IInv, FreshOK, Early, Known
  <2> QED BY <2>1, <2>2 DEF IInv
<1> QED BY <1>1, <1>2

\* Every variable keeps its type: no refresh token and no revision outgrows the bound, since
\* each rotation and each raised revision is paid for by a call.
THEOREM TypeCorrect == Spec => []TypeOK
<1>1. IInv => TypeOK
  BY DEF IInv
<1> QED BY <1>1, InitInv, StepInv, PTL DEF Spec

--------------------------------------------------------------------------------
(* The server implements the family specification.                         *)

\* The variables of the family, as the instance maps them.
opened == {s \in Session : server[s].status # "unused"}
revoked == {s \in Session : server[s].status = "revoked"}
current == [s \in Session |-> IF Live(s) THEN {[sid |-> s, gen |-> server[s].gen]} ELSE {}]
spent == {token \in Token : \/ token.gen < server[token.sid].gen
                           \/ /\ server[token.sid].status = "revoked"
                              /\ token.gen = server[token.sid].gen}

LEMMA Opens ==
  ASSUME TypeOK, NEW s \in Session, server[s].status = "unused", server[s].gen = 0,
         server' = [server EXCEPT ![s].status = "live"]
  PROVE  Family!Next
<1> DEFINE token == [sid |-> s, gen |-> 0]
<1>1. token \in Token /\ token.sid = s /\ token.gen = 0
  BY MaxCallsAssumption DEF Token
<1>2. /\ server \in [Session -> ServerRow] /\ server'[s].status = "live" /\ server'[s].gen = 0
      /\ \A x \in Session : x # s => server'[x] = server[x]
  BY DEF TypeOK, ServerRow
<1> HIDE DEF token
<1>3. opened' = opened \cup {s} /\ s \notin opened /\ revoked' = revoked
  BY <1>2 DEF opened, revoked
<1>4. spent' = spent /\ token \notin spent
  <2>1. \A x \in Token : x.sid \in Session /\ x.gen \in Nat
    BY DEF Token
  <2> QED BY <1>1, <1>2, <2>1 DEF spent
<1>5. \A x \in Session : token \notin current[x]
  BY <1>1, <1>2 DEF current, Live
<1>6. current' = [current EXCEPT ![s] = {token}]
  <2>1. current' = [x \in Session |-> IF x = s THEN {token} ELSE current[x]]
    BY <1>2 DEF current, Live, token
  <2> QED BY <2>1 DEF current
<1> QED BY <1>1, <1>3, <1>4, <1>5, <1>6
        DEF Family!Next, Family!Open, Family!Fresh, opened, revoked, current, spent

LEMMA Rotations ==
  ASSUME TypeOK, NEW s \in Session, Live(s), server[s].gen + 1 \in 0..MaxCalls,
         server' = [server EXCEPT ![s].gen = @ + 1]
  PROVE  Family!Next
<1> DEFINE old == [sid |-> s, gen |-> server[s].gen]
           new == [sid |-> s, gen |-> server[s].gen + 1]
<1>1. /\ old \in Token /\ old.sid = s /\ old.gen = server[s].gen
      /\ new \in Token /\ new.sid = s /\ new.gen = server[s].gen + 1
      /\ server[s].gen \in Nat
  BY DEF Token, TypeOK
<1>2. /\ server'[s].status = "live" /\ server[s].status = "live" /\ server'[s].gen = server[s].gen + 1
      /\ \A x \in Session : x # s => server'[x] = server[x]
  BY DEF TypeOK, Live
<1>3. current[s] = {old}
  BY DEF current
<1>4. current' = [current EXCEPT ![s] = {new}]
  <2>1. current' = [x \in Session |-> IF x = s THEN {new} ELSE current[x]]
    BY <1>2 DEF current, Live
  <2> QED BY <2>1 DEF current
<1>5. \A x \in Token : x.sid \in Session /\ x.gen \in Nat /\ x = [sid |-> x.sid, gen |-> x.gen]
  BY DEF Token
<1>6. \A x \in Token : x = old <=> x.sid = s /\ x.gen = server[s].gen
  BY <1>5
<1> HIDE DEF old, new
<1>7. opened' = opened /\ revoked' = revoked /\ s \in opened \ revoked
  BY <1>2 DEF opened, revoked
<1>8. spent' = spent \cup {old}
  <2>1. \A x \in Token : x \in spent' <=> x \in spent \/ x = old
    BY <1>1, <1>2, <1>5, <1>6 DEF spent
  <2>2. spent \subseteq Token /\ spent' \subseteq Token
    BY DEF spent
  <2> QED BY <1>1, <2>1, <2>2
<1>9. new \notin spent /\ \A x \in Session : new \notin current[x]
  BY <1>1, <1>2 DEF spent, current
<1> QED BY <1>1, <1>3, <1>4, <1>7, <1>8, <1>9
        DEF Family!Next, Family!HandOver, Family!Fresh, opened, revoked, current, spent

LEMMA Revocations ==
  ASSUME TypeOK, NEW s \in Session, server[s].status # "unused",
         server' = [server EXCEPT ![s].status = "revoked"]
  PROVE  Family!Next
<1>1. /\ server'[s].status = "revoked" /\ server'[s].gen = server[s].gen /\ server[s].gen \in 0..MaxCalls
      /\ server[s].status \in {"unused", "live", "revoked"}
      /\ \A x \in Session : x # s => server'[x] = server[x]
  BY DEF TypeOK
<1>2. opened' = opened /\ {s} \subseteq opened /\ revoked' = revoked \cup {s}
  BY <1>1 DEF opened, revoked
<1>3. current' = [x \in Session |-> IF x \in {s} THEN {} ELSE current[x]]
  BY <1>1 DEF current, Live
<1>4. \A x \in Token : x.sid \in Session /\ x.gen \in Nat /\ x = [sid |-> x.sid, gen |-> x.gen]
  BY DEF Token
<1>5. \A x \in Token : x \in current[s] <=> Live(s) /\ x.sid = s /\ x.gen = server[s].gen
  BY <1>4 DEF current
<1>6. current[s] \subseteq Token
  BY <1>1 DEF current, Token
<1>7. spent' = spent \cup UNION {current[x] : x \in {s}}
  <2>1. \A x \in Token : x \in spent' <=> x \in spent \/ x \in current[s]
    BY <1>1, <1>4, <1>5 DEF spent, Live
  <2>2. spent \subseteq Token /\ spent' \subseteq Token
    BY DEF spent
  <2> QED BY <1>6, <2>1, <2>2
<1>8. Family!Revoke({s})
  BY <1>2, <1>3, <1>7 DEF Family!Revoke, opened, revoked, current, spent
<1>9. {s} \in SUBSET Session
  OBVIOUS
<1> QED BY <1>8, <1>9 DEF Family!Next

LEMMA Silence == ASSUME server' = server PROVE UNCHANGED Family!vars
BY DEF Family!vars, Live

\* What a refresh token that arrives does, from a call or from none.
LEMMA Arrival ==
  ASSUME IInv, NEW token \in Token, server[token.sid].status # "unused",
         Rotates(token) => server[token.sid].gen + 1 \in 0..MaxCalls, server' = refreshed(token)
  PROVE  Family!Next \/ UNCHANGED Family!vars
<1>1. token.sid \in Session /\ TypeOK
  BY DEF Token, IInv
<1> QED BY <1>1, Rotations, Revocations, Silence DEF refreshed, Rotates

LEMMA StepImplements == IInv /\ [Next]_vars => [Family!Next]_(Family!vars)
<1> SUFFICES ASSUME IInv, [Next]_vars PROVE Family!Next \/ UNCHANGED Family!vars
  OBVIOUS
<1>1. TypeOK
  BY DEF IInv
<1>2. \A k \in Task : tasks[k].pc = "sent" => tasks[k].token \in Token /\ tasks[k].token.sid \in Session
  BY Tasks DEF IInv, RowOK, Knows, TaskRow, Token
<1>3. \A k \in Task : tasks[k].pc = "sent" /\ tasks[k].op # "signIn" =>
        server[tasks[k].token.sid].status # "unused"
  BY <1>2 DEF IInv, RowOK, Knows, FreshOK, Early, Known, Carries, Signing
<1>4. ASSUME NEW k \in Task, ServeRefresh(k)
      PROVE  Family!Next \/ UNCHANGED Family!vars
  <2>1. /\ tasks[k].token \in Token /\ server' = refreshed(tasks[k].token)
        /\ server[tasks[k].token.sid].status # "unused"
    BY <1>2, <1>3, <1>4 DEF ServeRefresh, At
  <2>2. Rotates(tasks[k].token) => server[tasks[k].token.sid].gen + 1 \in 0..MaxCalls
    BY <1>4, <2>1, Answered, MaxCallsAssumption DEF ServeRefresh, Answer, Rotates, Token
  <2> QED BY <2>1, <2>2, Arrival
<1>5. ASSUME NEW token \in strays, ServeStray(token)
      PROVE  Family!Next \/ UNCHANGED Family!vars
  <2>1. token \in Token /\ token.sid \in Session
    BY <1>1 DEF TypeOK, Token
  <2>2. server[token.sid].status # "unused"
    BY <2>1 DEF IInv, FreshOK, Early, Known
  <2>3. server[token.sid].gen + 1 \in 0..MaxCalls
    BY <2>1, StrayAffordable
  <2> QED BY <1>5, <2>1, <2>2, <2>3, Arrival DEF ServeStray
<1>6. ASSUME NEW k \in Task, ServeSignIn(k)
      PROVE  Family!Next
  <2>1. Signing(tasks[k]) /\ tasks[k].pc = "sent" /\ tasks[k].token.sid \in Session
    BY <1>2, <1>6 DEF ServeSignIn, At, Signing
  <2>2. server[tasks[k].token.sid].status = "unused" /\ server[tasks[k].token.sid].gen = 0
    BY <2>1 DEF IInv, FreshOK, Early, Known
  <2> QED BY <1>1, <1>6, <2>1, <2>2, Opens DEF ServeSignIn
<1>7. ASSUME NEW k \in Task, ServeSignOut(k)
      PROVE  Family!Next
  BY <1>1, <1>2, <1>3, <1>7, Revocations DEF ServeSignOut, At
<1>8. ASSUME NEW s \in Session, Revoke(s)
      PROVE  Family!Next
  BY <1>1, <1>8, Revocations DEF Revoke, Live
<1>9. CASE server' = server
  BY <1>9, Silence
<1>10. CASE UNCHANGED vars
  BY <1>9, <1>10 DEF vars
<1>11. ASSUME NEW k \in Task, Work(k)
       PROVE  Family!Next \/ UNCHANGED Family!vars
  BY <1>4, <1>6, <1>7, <1>9, <1>11
     DEF Work, Acquire, ReadSession, ReadRevision, ServeUpdate, Commit, Clear, UpdateRefused,
         GetRecord, SetItem
<1>12. ASSUME NEW k \in Task, Call(k) \/ LockTimeout(k) \/ Lose(k) \/ LoseSignOut(k)
       PROVE  Family!Next \/ UNCHANGED Family!vars
  BY <1>9, <1>12 DEF Call, BeginRefresh, BeginLatest, BeginSignIn, Begin, LockTimeout, Lose, LoseSignOut
<1>13. ASSUME NEW t \in Tab, Listen(t) \/ Close(t)
       PROVE  Family!Next \/ UNCHANGED Family!vars
  BY <1>9, <1>13 DEF Listen, RemoteBegin, RemoteReadSession, RemoteReadRevision, Close
<1> QED BY <1>5, <1>8, <1>10, <1>11, <1>12, <1>13 DEF Next

\* Whatever the calls, the lock and the faults, each step of the server is one of the
\* family specification: a late or repeated refresh never brings a spent token back.
THEOREM PromiseKept == Spec => ServerKeepsPromise
<1> QED BY InitInv, StepInv, StepImplements, PTL DEF Spec, ServerKeepsPromise

--------------------------------------------------------------------------------
(* The lock, shared by the tabs or not.                                    *)

Refreshing(q) == q.op = "refresh" /\ q.pc \notin {"idle", "closed"}
Holding(q) == Refreshing(q) /\ q.pc # "waiting"

\* The queue orders exactly the refreshes under way, and who holds the lock is the first of
\* those that exclude him.
LockOK ==
  /\ \A k \in Task : Refreshing(tasks[k]) <=> <<k, k>> \in lockQueue
  /\ \A j, k \in Task :
       /\ <<j, k>> \in lockQueue => <<j, j>> \in lockQueue /\ <<k, k>> \in lockQueue
       /\ <<j, k>> \in lockQueue /\ <<k, j>> \in lockQueue => j = k
       /\ <<j, j>> \in lockQueue /\ <<k, k>> \in lockQueue =>
            <<j, k>> \in lockQueue \/ <<k, j>> \in lockQueue
  /\ \A k \in Task : Holding(tasks[k]) => Granted(k)

LEMMA OneHolder ==
  ASSUME LockOK, NEW j \in Task, NEW k \in Task, Holding(tasks[j]), Holding(tasks[k]),
         Excludes(j, k)
  PROVE  j = k
<1>1. <<j, j>> \in lockQueue /\ <<k, k>> \in lockQueue
  BY DEF LockOK, Holding
<1>2. <<j, k>> \in lockQueue \/ <<k, j>> \in lockQueue
  BY <1>1 DEF LockOK
<1>3. Granted(j) /\ Granted(k) /\ Excludes(k, j)
  BY DEF LockOK, Excludes
<1> QED BY <1>2, <1>3 DEF Granted, Ahead

\* Nobody joins or leaves; a call may take the lock when it is granted.
LEMMA LockKept ==
  ASSUME LockOK, lockQueue' = lockQueue,
         \A k \in Task : /\ Refreshing(tasks'[k]) <=> Refreshing(tasks[k])
                         /\ Holding(tasks'[k]) => Holding(tasks[k]) \/ Granted(k)
  PROVE  LockOK'
<1>1. \A k \in Task : Granted(k)' <=> Granted(k)
  BY DEF Granted, Ahead
<1> QED BY <1>1 DEF LockOK

LEMMA LockLeft ==
  ASSUME LockOK, NEW gone, lockQueue' = Without(lockQueue, gone),
         \A k \in Task : IF k \in gone THEN ~ Refreshing(tasks'[k]) ELSE tasks'[k] = tasks[k]
  PROVE  LockOK'
<1>1. \A j, k \in Task : <<j, k>> \in lockQueue' <=>
        <<j, k>> \in lockQueue /\ j \notin gone /\ k \notin gone
  BY DEF Without
<1>2. \A k \in Task : Refreshing(tasks'[k]) <=> <<k, k>> \in lockQueue'
  BY <1>1 DEF LockOK
<1>3. ASSUME NEW j \in Task, NEW k \in Task
      PROVE  /\ <<j, k>> \in lockQueue' => <<j, j>> \in lockQueue' /\ <<k, k>> \in lockQueue'
             /\ <<j, k>> \in lockQueue' /\ <<k, j>> \in lockQueue' => j = k
             /\ <<j, j>> \in lockQueue' /\ <<k, k>> \in lockQueue' =>
                  <<j, k>> \in lockQueue' \/ <<k, j>> \in lockQueue'
  BY <1>1 DEF LockOK
<1>4. ASSUME NEW k \in Task, Holding(tasks'[k])
      PROVE  \A j \in Ahead(lockQueue', k) : ~ Excludes(j, k)
  <2>1. k \notin gone /\ Holding(tasks[k])
    BY <1>4 DEF Holding
  <2>2. Granted(k)
    BY <2>1 DEF LockOK
  <2> QED BY <1>1, <2>2 DEF Granted, Ahead
<1> QED BY <1>2, <1>3, <1>4 DEF LockOK, Granted, Ahead

LEMMA LockJoined ==
  ASSUME IInv, LockOK, NEW k \in Task, BeginRefresh(k)
  PROVE  LockOK'
<1>1. Becomes(k, "waiting", "refresh", currentSession[k[1]], FALSE) /\ tasks[k].pc = "idle"
  BY Starts DEF IInv, BeginRefresh, Begin
<1>2. <<k, k>> \notin lockQueue
  BY <1>1 DEF LockOK, Refreshing
<1>3. \A i, j \in Task : <<i, j>> \in lockQueue' <=>
        \/ <<i, j>> \in lockQueue
        \/ j = k /\ (i = k \/ <<i, i>> \in lockQueue)
  BY DEF BeginRefresh, Joined
<1>4. \A j \in Task : Refreshing(tasks'[j]) <=> j = k \/ Refreshing(tasks[j])
  BY <1>1 DEF Becomes, Refreshing
<1>5. \A j \in Task : <<j, k>> \notin lockQueue /\ <<k, j>> \notin lockQueue
  BY <1>2 DEF LockOK
<1>6. \A j \in Task : Refreshing(tasks'[j]) <=> <<j, j>> \in lockQueue'
  BY <1>3, <1>4 DEF LockOK
<1>7. ASSUME NEW i \in Task, NEW j \in Task
      PROVE  /\ <<i, j>> \in lockQueue' => <<i, i>> \in lockQueue' /\ <<j, j>> \in lockQueue'
             /\ <<i, j>> \in lockQueue' /\ <<j, i>> \in lockQueue' => i = j
             /\ <<i, i>> \in lockQueue' /\ <<j, j>> \in lockQueue' =>
                  <<i, j>> \in lockQueue' \/ <<j, i>> \in lockQueue'
  BY <1>3, <1>5 DEF LockOK
<1>8. ASSUME NEW j \in Task, Holding(tasks'[j])
      PROVE  \A i \in Ahead(lockQueue', j) : ~ Excludes(i, j)
  <2>1. j # k /\ Holding(tasks[j])
    BY <1>1, <1>8 DEF Becomes, Holding
  <2>2. Granted(j)
    BY <2>1 DEF LockOK
  <2> QED BY <1>3, <2>1, <2>2 DEF Granted, Ahead
<1> QED BY <1>6, <1>7, <1>8 DEF LockOK, Granted, Ahead

\* A call goes on with what it holds.
LEMMA LockMove ==
  ASSUME LockOK, NEW k \in Task, NEW pc, NEW token, NEW ok, Becomes(k, pc, tasks[k].op, token, ok),
         lockQueue' = lockQueue, tasks[k].pc \notin {"idle", "waiting", "closed"},
         pc \notin {"idle", "closed"}
  PROVE  LockOK'
<1>1. \A j \in Task : /\ Refreshing(tasks'[j]) <=> Refreshing(tasks[j])
                      /\ Holding(tasks'[j]) => Holding(tasks[j])
  BY DEF Becomes, Refreshing, Holding
<1> QED BY <1>1, LockKept

LEMMA LockStep == ASSUME IInv, LockOK, Next PROVE LockOK'
<1>1. TypeOK
  BY DEF IInv
<1>2. ASSUME NEW k \in Task, Return(k)
      PROVE  LockOK'
  <2>1. Becomes(k, "idle", "refresh", None, FALSE) /\ lockQueue' = Without(lockQueue, {k})
    BY <1>1, <1>2, Starts DEF Return
  <2>2. \A j \in Task : IF j \in {k} THEN ~ Refreshing(tasks'[j]) ELSE tasks'[j] = tasks[j]
    BY <2>1 DEF Becomes, Refreshing
  <2> QED BY <2>1, <2>2, LockLeft
<1>3. ASSUME NEW k \in Task, Call(k)
      PROVE  LockOK'
  <2>1. ASSUME NEW pc, NEW op, NEW token, NEW ok, Becomes(k, pc, op, token, ok), op # "refresh",
               tasks[k].pc = "idle", lockQueue' = lockQueue
        PROVE  LockOK'
    <3>1. \A j \in Task : /\ Refreshing(tasks'[j]) <=> Refreshing(tasks[j])
                          /\ Holding(tasks'[j]) => Holding(tasks[j])
      BY <2>1 DEF Becomes, Refreshing, Holding
    <3> QED BY <2>1, <3>1, LockKept
  <2>2. ASSUME NEW op \in Ops, BeginLatest(k, op)
        PROVE  LockOK'
    <3>1. PICK ok : Becomes(k, "readSession", op, None, ok)
      BY <1>1, <2>2, Starts
    <3> QED BY <2>1, <2>2, <3>1 DEF BeginLatest, Begin
  <2>3. ASSUME NEW s \in Session, BeginSignIn(k, s)
        PROVE  LockOK'
    <3>1. PICK token, ok : Becomes(k, "sent", "signIn", token, ok)
      BY <1>1, <2>3, Starts
    <3> QED BY <2>1, <2>3, <3>1 DEF BeginSignIn, Begin
  <2> QED BY <1>3, <2>2, <2>3, LockJoined DEF Call
<1>4. ASSUME NEW k \in Task, Acquire(k)
      PROVE  LockOK'
  <2>1. Becomes(k, "readSession", tasks[k].op, tasks[k].token, tasks[k].ok) /\ tasks[k].pc = "waiting"
    BY <1>1, <1>4, Waits DEF Acquire
  <2>2. Granted(k)
    BY <1>4 DEF Acquire
  <2>3. \A j \in Task : /\ Refreshing(tasks'[j]) <=> Refreshing(tasks[j])
                        /\ Holding(tasks'[j]) => Holding(tasks[j]) \/ Granted(j)
    BY <2>1, <2>2 DEF Becomes, Refreshing, Holding
  <2> QED BY <1>4, <2>3, LockKept DEF Acquire
<1>5. ASSUME NEW k \in Task, ReadSession(k) \/ Commit(k) \/ Clear(k) \/ GetRecord(k) \/ LoseSignOut(k)
      PROVE  LockOK'
  <2>1. PICK pc \in {"readRevision", "queued", "writing", "replied"} :
          \E token, ok : Becomes(k, pc, tasks[k].op, token, ok)
    BY <1>1, <1>5, Waits DEF ReadSession
  <2>2. lockQueue' = lockQueue /\ tasks[k].pc \notin {"idle", "waiting", "closed"}
    BY <1>5 DEF ReadSession, Commit, Clear, GetRecord, LoseSignOut, At
  <2> QED BY <2>1, <2>2, LockMove
<1>6. ASSUME NEW k \in Task, ReadRevision(k)
      PROVE  LockOK'
  <2> DEFINE token == Candidate(tasks[k].token, currentSession[k[1]])
  <2>1. CASE Return(k)
    BY <1>2, <2>1
  <2>2. CASE ~ Return(k)
    <3>1. tasks' = [tasks EXCEPT ![k].pc = "sent", ![k].token = token]
      BY <1>6, <2>2 DEF ReadRevision
    <3>2. tasks[k].pc \notin {"idle", "waiting", "closed"} /\ lockQueue' = lockQueue
      BY <1>6, <2>2 DEF ReadRevision
    <3>3. PICK x, ok : Becomes(k, "sent", tasks[k].op, x, ok)
      BY ONLY <1>1, <3>1, Waits
    <3> QED BY <3>2, <3>3, LockMove
  <2> QED BY <2>1, <2>2
<1>7. ASSUME NEW k \in Task,
             ServeRefresh(k) \/ ServeSignIn(k) \/ ServeSignOut(k) \/ ServeUpdate(k)
      PROVE  LockOK'
  <2>1. PICK token, ok : Becomes(k, "replied", tasks[k].op, token, ok)
    BY <1>1, <1>7, Waits DEF ServeRefresh, ServeSignIn, ServeSignOut, ServeUpdate
  <2>2. lockQueue' = lockQueue /\ tasks[k].pc \notin {"idle", "waiting", "closed"}
    BY <1>7 DEF ServeRefresh, ServeSignIn, ServeSignOut, ServeUpdate, Reply, At
  <2> QED BY <2>1, <2>2, LockMove
<1>8. CASE UNCHANGED <<tasks, lockQueue>>
  BY <1>8, LockKept
<1>9. ASSUME NEW t \in Tab, Close(t)
      PROVE  LockOK'
  <2> DEFINE mine == {k \in Task : k[1] = t}
  <2>1. lockQueue' = Without(lockQueue, mine)
    BY <1>9 DEF Close
  <2>2. \A j \in Task : IF j \in mine THEN ~ Refreshing(tasks'[j]) ELSE tasks'[j] = tasks[j]
    BY <1>9 DEF Close, Idle, Refreshing
  <2> HIDE DEF mine
  <2> QED BY <2>1, <2>2, LockLeft
<1>10. ASSUME NEW t \in Tab, Listen(t)
       PROVE  LockOK'
  BY <1>8, <1>10 DEF Listen, RemoteBegin, RemoteReadSession, RemoteReadRevision
<1>11. ASSUME NEW k \in Task, LockTimeout(k) \/ UpdateRefused(k) \/ Lose(k) \/ SetItem(k)
       PROVE  LockOK'
  BY <1>2, <1>11 DEF LockTimeout, UpdateRefused, Lose, SetItem
<1>12. ASSUME NEW k \in Task, Work(k)
       PROVE  LockOK'
  BY <1>4, <1>5, <1>6, <1>7, <1>11, <1>12 DEF Work
<1> QED BY <1>3, <1>5, <1>8, <1>9, <1>10, <1>11, <1>12 DEF Next, ServeStray, Revoke

LEMMA InitLock == Init => LockOK
<1> SUFFICES ASSUME Init PROVE LockOK
  OBVIOUS
<1>1. lockQueue = {} /\ \A k \in Task : tasks[k] = Idle
  BY DEF Init, InitWith
<1> QED BY <1>1 DEF LockOK, Refreshing, Holding, Idle

LEMMA StepLock == IInv /\ LockOK /\ [Next]_vars => LockOK'
<1>1. ASSUME LockOK, UNCHANGED vars PROVE LockOK'
  BY <1>1, LockKept DEF vars
<1> QED BY <1>1, LockStep

\* Two refreshes that exclude each other are never both past the lock, whatever fails, is
\* closed or times out (createLockController in client/lock.ts): all of the browser under Web Locks, and
\* those of one tab with the fallback lock.
THEOREM LockExclusive ==
  Spec => [](\A j, k \in Task :
    Holding(tasks[j]) /\ Holding(tasks[k]) /\ Excludes(j, k) => j = k)
<1> DEFINE Exclusive == \A j, k \in Task :
      Holding(tasks[j]) /\ Holding(tasks[k]) /\ Excludes(j, k) => j = k
<1>1. LockOK => Exclusive
  BY OneHolder
<1> QED BY <1>1, InitInv, StepInv, InitLock, StepLock, PTL DEF Spec

--------------------------------------------------------------------------------
(* The browser keeps the newest token.                                     *)

\* Either the tabs share the lock manager, or there is one tab.
OneLock == \A j, k \in Task : Excludes(j, k)

Tracked(s) == Live(s) /\ s \notin adrift
Newest(token) == token.gen = server[token.sid].gen
Presenting(q) == q.op = "refresh" /\ q.pc \in {"sent", "replied", "queued", "writing"}
Handed(q) == q.op = "refresh" /\ q.pc \in {"replied", "queued", "writing"}
Adopting(q) == q.op = "refresh" /\ q.pc = "readRevision"

\* A request nobody waits for is of a session the browser lost track of.
StraysOK == \A token \in strays : token.sid \in adrift

\* Whoever holds a token of a tracked session, the record is of that session.
Rooted(token) == token # None /\ Tracked(token.sid) => Carries(record.session, token.sid)
RootsOK ==
  /\ \A t \in Tab : Rooted(currentSession[t])
  /\ \A k \in Task : tasks[k].op # "signIn" => Rooted(tasks[k].token)

\* A refused refresh was of a session that ended.
RefusedOK ==
  \A k \in Task : At(k, "replied", {"refresh"}) /\ ~ tasks[k].ok => ~ Live(tasks[k].token.sid)

\* The holder of the lock presents and stores newest tokens, and adopts no others.
HolderOK ==
  \A k \in Task : LET token == tasks[k].token  seen == currentSession[k[1]] IN
    /\ Presenting(tasks[k]) /\ token # None /\ Tracked(token.sid) => Newest(token)
    /\ Adopting(tasks[k]) =>
         /\ seen # None /\ Tracked(seen.sid) => Newest(seen)
         /\ seen = None /\ token # None => ~ Tracked(token.sid)

TrackOK == StraysOK /\ RootsOK /\ RefusedOK /\ HolderOK /\ NewestTokenKept

\* Live and tracked after the step.
StillTracked(s) == server'[s].status = "live" /\ s \notin adrift'

\* What a step may make of a call: its token comes from where the browser keeps one, a token
\* of a tracked session is presented only when it is the newest, and only the end of the
\* session takes the newest token out of the hands of its holder.
Sound(k) ==
  LET old == tasks[k]  new == tasks'[k] IN
  /\ new.op # "signIn" /\ new.token # None =>
       old.op # "signIn" /\ new.token \in {old.token, currentSession[k[1]]}
  /\ new.op = "refresh" /\ new.pc = "replied" /\ ~ new.ok =>
       server'[new.token.sid].status # "live"
  /\ Presenting(new) /\ new.token # None /\ Tracked(new.token.sid) => Newest(new.token)
  /\ Adopting(new) =>
       currentSession'[k[1]] = record.session /\ Holding(old) /\ ~ Handed(old)
  /\ Handed(old) /\ old.token # None /\ StillTracked(old.token.sid) =>
       Handed(new) /\ new.token = old.token

\* A step that rotates no tracked session and writes no record.
LEMMA TrackFrame ==
  ASSUME OneLock, IInv, LockOK, TrackOK, record' = record, adrift \subseteq adrift',
         \A s \in Session : /\ server'[s].status = "live" => Live(s) \/ ~ Known(s)
                            /\ StillTracked(s) => server'[s].gen = server[s].gen,
         \A token \in strays' : token.sid \in adrift',
         \A t \in Tab : currentSession'[t] \in {currentSession[t], record.session},
         \A k \in Task : tasks'[k] = tasks[k] \/ Sound(k)
  PROVE  TrackOK'
<1>1. /\ \A t \in Tab : currentSession[t] # None =>
           currentSession[t].sid \in Session /\ Known(currentSession[t].sid)
      /\ record.session # None => record.session.sid \in Session /\ Known(record.session.sid)
      /\ \A k \in Task : tasks[k].token # None => tasks[k].token.sid \in Session
      /\ \A k \in Task : tasks[k].token # None /\ tasks[k].op # "signIn" => Known(tasks[k].token.sid)
      /\ \A k \in Task : k[1] \in Tab
  BY Tasks DEF IInv, TypeOK, Token, TaskRow, Known, Carries, Signing, Task
<1>2. \A s \in Session : Known(s) /\ StillTracked(s) => Tracked(s) /\ server'[s].gen = server[s].gen
  BY DEF Tracked, StillTracked
<1>3. StraysOK'
  BY DEF StraysOK
<1>4. ASSUME NEW token, token # None, token.sid \in Session, Known(token.sid), Rooted(token),
             StillTracked(token.sid)
      PROVE  Carries(record'.session, token.sid)
  BY <1>2, <1>4 DEF Rooted
<1>5. RootsOK'
  <2>1. ASSUME NEW t \in Tab, currentSession'[t] # None, StillTracked(currentSession'[t].sid)
        PROVE  Carries(record'.session, currentSession'[t].sid)
    BY <1>1, <1>4, <2>1 DEF TrackOK, RootsOK, Carries
  <2>2. ASSUME NEW k \in Task, tasks'[k].op # "signIn", tasks'[k].token # None,
               StillTracked(tasks'[k].token.sid)
        PROVE  Carries(record'.session, tasks'[k].token.sid)
    <3>1. \/ tasks[k].op # "signIn" /\ tasks'[k].token = tasks[k].token
          \/ tasks'[k].token = currentSession[k[1]]
      BY <2>2 DEF Sound
    <3> QED BY <1>1, <1>4, <2>2, <3>1 DEF TrackOK, RootsOK
  <2> QED BY <2>1, <2>2 DEF RootsOK, Rooted, Tracked, StillTracked, Live
<1>6. RefusedOK'
  <2> SUFFICES ASSUME NEW k \in Task, tasks'[k].pc = "replied", tasks'[k].op = "refresh", ~ tasks'[k].ok
               PROVE  server'[tasks'[k].token.sid].status # "live"
    BY DEF RefusedOK, At, Live
  <2>1. CASE Sound(k)
    BY <2>1 DEF Sound
  <2>2. CASE tasks'[k] = tasks[k]
    <3>1. tasks[k].token # None /\ ~ Live(tasks[k].token.sid)
      BY <2>2 DEF At, TrackOK, RefusedOK, IInv, RowOK, Knows
    <3> QED BY <1>1, <2>2, <3>1
  <2> QED BY <2>1, <2>2
\* Nobody but the reader itself is at work on the record while it reads.
<1>7. ASSUME NEW k \in Task, Holding(tasks[k]), ~ Handed(tasks[k]), record.session # None,
             Tracked(record.session.sid)
      PROVE  Newest(record.session)
  <2>1. \A j \in Task : ~ Handed(tasks[j])
    BY <1>7, OneHolder DEF OneLock, Handed, Holding, Refreshing
  <2>2. PICK s \in Session : s = record.session.sid
    BY <1>1, <1>7
  <2>3. record.session = [sid |-> s, gen |-> server[s].gen]
    BY <1>7, <2>1, <2>2 DEF TrackOK, NewestTokenKept, Carries, Tracked, At, Handed
  <2> QED BY <2>2, <2>3 DEF Newest
<1>8. HolderOK'
  <2>1. ASSUME NEW k \in Task, Presenting(tasks'[k]), tasks'[k].token # None,
               StillTracked(tasks'[k].token.sid)
        PROVE  tasks'[k].token.gen = server'[tasks'[k].token.sid].gen
    <3>1. /\ tasks'[k].token.sid \in Session /\ Known(tasks'[k].token.sid)
      <4>1. \/ tasks[k].op # "signIn" /\ tasks'[k].token = tasks[k].token
            \/ tasks'[k].token = currentSession[k[1]]
        BY <2>1 DEF Presenting, Sound
      <4> QED BY <1>1, <2>1, <4>1
    <3>2. Tracked(tasks'[k].token.sid) /\ server'[tasks'[k].token.sid].gen = server[tasks'[k].token.sid].gen
      BY <1>2, <2>1, <3>1
    <3>3. Newest(tasks'[k].token)
      BY <2>1, <3>2 DEF Sound, TrackOK, HolderOK
    <3> QED BY <3>2, <3>3 DEF Newest
  <2>2. ASSUME NEW k \in Task, Adopting(tasks'[k])
        PROVE  /\ currentSession'[k[1]] # None /\ StillTracked(currentSession'[k[1]].sid) =>
                    currentSession'[k[1]].gen = server'[currentSession'[k[1]].sid].gen
               /\ currentSession'[k[1]] = None /\ tasks'[k].token # None =>
                    ~ StillTracked(tasks'[k].token.sid)
    <3>1. Holding(tasks[k]) /\ ~ Handed(tasks[k])
      BY <2>2 DEF Sound, Adopting, Holding, Refreshing, Handed
    <3>2. record.session # None /\ Tracked(record.session.sid) => Newest(record.session)
      BY <1>7, <3>1
    <3>3. CASE currentSession'[k[1]] = record.session
      <4>1. ASSUME record.session # None, StillTracked(record.session.sid)
            PROVE  record.session.gen = server'[record.session.sid].gen
        BY <1>1, <1>2, <3>2, <4>1 DEF Newest
      <4>2. ASSUME record.session = None, tasks'[k].token # None
            PROVE  ~ StillTracked(tasks'[k].token.sid)
        BY <1>5, <2>2, <4>2 DEF RootsOK, Rooted, Adopting, Carries, Tracked, StillTracked, Live
      <4> QED BY <3>3, <4>1, <4>2
    <3>4. CASE currentSession'[k[1]] # record.session
      <4>1. tasks'[k] = tasks[k] /\ currentSession'[k[1]] = currentSession[k[1]]
        BY <1>1, <2>2, <3>4 DEF Sound
      <4>2. Adopting(tasks[k])
        BY <2>2, <4>1
      <4>3. ASSUME currentSession[k[1]] # None, StillTracked(currentSession[k[1]].sid)
            PROVE  currentSession[k[1]].gen = server'[currentSession[k[1]].sid].gen
        <5>1. currentSession[k[1]].sid \in Session /\ Known(currentSession[k[1]].sid)
          BY <1>1, <4>3
        <5>2. Tracked(currentSession[k[1]].sid)
              /\ server'[currentSession[k[1]].sid].gen = server[currentSession[k[1]].sid].gen
          BY <1>2, <4>3, <5>1
        <5>3. Newest(currentSession[k[1]])
          BY <4>2, <4>3, <5>2 DEF TrackOK, HolderOK
        <5> QED BY <5>2, <5>3 DEF Newest
      <4>4. ASSUME currentSession[k[1]] = None, tasks[k].token # None
            PROVE  ~ StillTracked(tasks[k].token.sid)
        <5>1. ~ Tracked(tasks[k].token.sid)
          BY <4>2, <4>4 DEF TrackOK, HolderOK
        <5>2. tasks[k].token.sid \in Session /\ Known(tasks[k].token.sid)
          BY <1>1, <4>2, <4>4 DEF Adopting
        <5> QED BY <1>2, <5>1, <5>2
      <4> QED BY <4>1, <4>3, <4>4
    <3> QED BY <3>3, <3>4
  <2> QED BY <2>1, <2>2 DEF HolderOK, Newest, Tracked, StillTracked, Live
<1>9. NewestTokenKept'
  <2> SUFFICES ASSUME NEW s \in Session, StillTracked(s), Carries(record'.session, s),
                      record.session # [sid |-> s, gen |-> server'[s].gen]
               PROVE  \E k \in Task : /\ tasks'[k].op = "refresh" /\ tasks'[k].pc \in {"replied", "queued", "writing"}
                                       /\ tasks'[k].token = [sid |-> s, gen |-> server'[s].gen]
    BY DEF NewestTokenKept, StillTracked, Live, At
  <2> DEFINE newest == [sid |-> s, gen |-> server[s].gen]
  <2>1. Known(s)
    BY DEF Known
  <2>2. Tracked(s) /\ server'[s].gen = server[s].gen
    BY <1>2, <2>1
  <2>3. PICK k \in Task : Handed(tasks[k]) /\ tasks[k].token = newest
    BY <2>2 DEF TrackOK, NewestTokenKept, Tracked, At, Handed
  <2>4. newest # None
    <3>1. server[s].gen \in 0..MaxCalls
      BY DEF IInv, TypeOK
    <3> QED BY <3>1, NoneAssumption DEF Token
  <2>5. Handed(tasks'[k]) /\ tasks'[k].token = newest
    BY <2>3, <2>4 DEF Sound
  <2> QED BY <2>2, <2>5 DEF Handed
<1> QED BY <1>3, <1>5, <1>6, <1>8, <1>9 DEF TrackOK

\* The steps of one call that leave the server and the record alone.
LEMMA TrackMove ==
  ASSUME OneLock, IInv, LockOK, TrackOK, NEW k \in Task, NEW pc, NEW op, NEW token, NEW ok,
         Becomes(k, pc, op, token, ok), Sound(k), UNCHANGED <<server, record, strays, adrift>>,
         currentSession' \in {currentSession, [currentSession EXCEPT ![k[1]] = record.session]}
  PROVE  TrackOK'
<1>1. currentSession \in [Tab -> Token \cup {None}]
  BY DEF IInv, TypeOK
<1>2. \A t \in Tab : currentSession'[t] \in {currentSession[t], record.session}
  BY <1>1
<1>3. \A j \in Task : tasks'[j] = tasks[j] \/ Sound(j)
  BY DEF Becomes
<1>4. \A s \in Session : /\ server'[s].status = "live" => Live(s) \/ ~ Known(s)
                         /\ StillTracked(s) => server'[s].gen = server[s].gen
  BY DEF Live
<1>5. \A x \in strays' : x.sid \in adrift'
  BY DEF TrackOK, StraysOK
<1> QED BY <1>2, <1>3, <1>4, <1>5, TrackFrame

LEMMA TrackStart ==
  ASSUME OneLock, IInv, LockOK, TrackOK, NEW k \in Task, Call(k)
  PROVE  TrackOK'
<1>1. TypeOK /\ RowOK(tasks[k])
  BY DEF IInv
<1>2. /\ tasks[k].pc = "idle" /\ tasks[k].op = "refresh"
      /\ UNCHANGED <<server, record, strays, adrift, currentSession>>
  BY <1>1 DEF Call, BeginRefresh, BeginLatest, BeginSignIn, Begin, client, RowOK, Knows
<1>3. ASSUME NEW pc, NEW op, NEW token, NEW ok, Becomes(k, pc, op, token, ok),
             pc \in {"waiting", "readSession", "sent"}, pc = "sent" => op = "signIn",
             op = "signIn" \/ token \in {None, currentSession[k[1]]}
      PROVE  TrackOK'
  <2>1. Sound(k)
    BY <1>2, <1>3 DEF Sound, Becomes, Presenting, Adopting, Handed
  <2> QED BY <1>2, <1>3, <2>1, TrackMove
<1>4. ASSUME BeginRefresh(k) PROVE TrackOK'
  <2>1. PICK ok : Becomes(k, "waiting", "refresh", currentSession[k[1]], ok)
    BY <1>1, <1>4, Starts
  <2> QED BY <1>3, <2>1
<1>5. ASSUME NEW op \in Ops, BeginLatest(k, op) PROVE TrackOK'
  <2>1. PICK ok : Becomes(k, "readSession", op, None, ok)
    BY <1>1, <1>5, Starts
  <2> QED BY <1>3, <2>1
<1>6. ASSUME NEW s \in Session, BeginSignIn(k, s) PROVE TrackOK'
  <2>1. PICK token, ok : Becomes(k, "sent", "signIn", token, ok)
    BY <1>1, <1>6, Starts
  <2> QED BY <1>3, <2>1
<1> QED BY <1>4, <1>5, <1>6 DEF Call

LEMMA TrackRead ==
  ASSUME OneLock, IInv, LockOK, TrackOK, NEW k \in Task,
         Acquire(k) \/ LockTimeout(k) \/ ReadSession(k) \/ ReadRevision(k)
  PROVE  TrackOK'
<1>1. TypeOK /\ RowOK(tasks[k])
  BY DEF IInv
<1>2. UNCHANGED <<server, record, strays, adrift>>
  BY DEF Acquire, LockTimeout, ReadSession, ReadRevision
<1>3. ASSUME Return(k), tasks[k].pc \in {"waiting", "readRevision"}, currentSession' = currentSession
      PROVE  TrackOK'
  <2>1. PICK ok : Becomes(k, "idle", "refresh", None, ok)
    BY <1>1, <1>3, Starts
  <2>2. Sound(k)
    BY <1>3, <2>1 DEF Sound, Becomes, Presenting, Adopting, Handed
  <2> QED BY <1>2, <1>3, <2>1, <2>2, TrackMove
<1>4. ASSUME Acquire(k) PROVE TrackOK'
  <2>1. PICK ok : Becomes(k, "readSession", tasks[k].op, tasks[k].token, ok)
    BY <1>1, <1>4, Waits DEF Acquire
  <2>2. tasks[k].pc = "waiting" /\ currentSession' = currentSession
    BY <1>4 DEF Acquire, client
  <2>3. Sound(k)
    BY <1>1, <2>1, <2>2 DEF Sound, Becomes, Presenting, Adopting, Handed, RowOK, Knows
  <2> QED BY <1>2, <2>1, <2>2, <2>3, TrackMove
<1>5. ASSUME LockTimeout(k) PROVE TrackOK'
  BY <1>3, <1>5 DEF LockTimeout, client
<1>6. ASSUME ReadSession(k) PROVE TrackOK'
  <2>1. PICK ok : Becomes(k, "readRevision", tasks[k].op, tasks[k].token, ok)
    BY <1>1, <1>6, Waits DEF ReadSession
  <2>2. /\ tasks[k].pc = "readSession"
        /\ currentSession' = [currentSession EXCEPT ![k[1]] = record.session]
    BY <1>6 DEF ReadSession, readSession
  <2>3. currentSession'[k[1]] = record.session
    <3>1. k[1] \in Tab /\ currentSession \in [Tab -> Token \cup {None}]
      BY <1>1 DEF Task, TypeOK
    <3> QED BY <2>2, <3>1
  <2>4. Sound(k)
    BY <1>1, <2>1, <2>2, <2>3
       DEF Sound, Becomes, Presenting, Adopting, Handed, Holding, Refreshing, RowOK, Knows
  <2> QED BY <1>2, <2>1, <2>2, <2>4, TrackMove
<1>7. ASSUME ReadRevision(k) PROVE TrackOK'
  <2> DEFINE token == Candidate(tasks[k].token, currentSession[k[1]])
  <2>1. tasks[k].pc = "readRevision" /\ currentSession' = currentSession
    BY <1>7 DEF ReadRevision, readRevision
  <2>2. CASE Return(k)
    BY <1>3, <2>1, <2>2
  <2>3. CASE ~ Return(k)
    <3>1. tasks' = [tasks EXCEPT ![k].pc = "sent", ![k].token = token]
      BY <1>7, <2>3 DEF ReadRevision
    <3>2. PICK ok : Becomes(k, "sent", tasks[k].op, token, ok)
      BY ONLY <1>1, <3>1, Waits
    <3>3. token \in {tasks[k].token, currentSession[k[1]]}
      BY DEF Candidate
    <3>4. ASSUME tasks[k].op = "refresh", token # None, Tracked(token.sid)
          PROVE  Newest(token)
      <4>1. Adopting(tasks[k])
        BY <2>1, <3>4 DEF Adopting
      <4>2. currentSession[k[1]] = None => token = tasks[k].token
        BY DEF Candidate
      <4>3. currentSession[k[1]] # None => token = currentSession[k[1]]
        BY DEF Candidate
      <4> QED BY <3>4, <4>1, <4>2, <4>3 DEF TrackOK, HolderOK
    <3>5. tasks[k].op # "signIn"
      BY <1>1, <2>1 DEF RowOK, Knows
    <3> HIDE DEF token
    <3>6. Sound(k)
      BY <2>1, <3>2, <3>3, <3>4, <3>5 DEF Sound, Becomes, Presenting, Adopting, Handed
    <3> QED BY <1>2, <2>1, <3>2, <3>6, TrackMove
  <2> QED BY <2>2, <2>3
<1> QED BY <1>4, <1>5, <1>6, <1>7

\* What every step does to the server that rotates no tracked session: a session it opens was
\* early, and so not known to anybody.
LEMMA TrackOpened ==
  ASSUME IInv, NEW k \in Task, ServeSignIn(k)
  PROVE  \A s \in Session : /\ server'[s].status = "live" => Live(s) \/ ~ Known(s)
                            /\ server'[s].gen = server[s].gen
<1> DEFINE new == tasks[k].token.sid
<1>1. server \in [Session -> ServerRow] /\ RowOK(tasks[k]) /\ tasks[k].token \in Token
  BY Tasks DEF IInv, TypeOK, ServerRow, TaskRow, RowOK, Knows, ServeSignIn, At
<1>2. new \in Session /\ Signing(tasks[k]) /\ tasks[k].pc = "sent"
  BY <1>1 DEF Token, ServeSignIn, At, Signing
<1>3. ~ Known(new)
  <2>1. Early(new)
    BY <1>2 DEF Early
  <2> QED BY <1>2, <2>1 DEF IInv, FreshOK
<1>4. server' = [server EXCEPT ![new].status = "live"]
  BY DEF ServeSignIn
<1> HIDE DEF new
<1> QED BY <1>1, <1>2, <1>3, <1>4 DEF ServerRow, Live

LEMMA TrackServe ==
  ASSUME OneLock, IInv, LockOK, TrackOK, "updateUser" \notin Ops, NEW k \in Task,
         ServeSignIn(k) \/ ServeSignOut(k) \/ ServeUpdate(k) \/ UpdateRefused(k)
  PROVE  TrackOK'
<1>1. TypeOK /\ tasks \in [Task -> TaskRow]
  BY Tasks DEF IInv
<1>2. tasks[k].op \in {"signIn", "signOut"} /\ (ServeSignIn(k) \/ ServeSignOut(k))
  BY <1>1 DEF ServeSignIn, ServeSignOut, ServeUpdate, UpdateRefused, At, TaskRow
<1>3. PICK ok : Becomes(k, "replied", tasks[k].op, tasks[k].token, ok)
  BY <1>1, <1>2, Waits DEF ServeSignIn, ServeSignOut
<1>4. Sound(k)
  BY <1>2, <1>3 DEF Sound, Becomes, Presenting, Adopting, Handed
<1>5. UNCHANGED <<record, strays, adrift, currentSession>>
  BY <1>2 DEF ServeSignIn, ServeSignOut, Reply, client
<1>6. \A s \in Session : /\ server'[s].status = "live" => Live(s) \/ ~ Known(s)
                         /\ StillTracked(s) => server'[s].gen = server[s].gen
  <2>1. CASE ServeSignIn(k)
    BY <2>1, TrackOpened
  <2>2. CASE ServeSignOut(k)
    <3>1. server' = [server EXCEPT ![tasks[k].token.sid].status = "revoked"]
      BY <2>2 DEF ServeSignOut
    <3> QED BY <1>1, <3>1 DEF TypeOK, Live
  <2> QED BY <1>2, <2>1, <2>2
<1>7. \A j \in Task : tasks'[j] = tasks[j] \/ Sound(j)
  BY <1>3, <1>4 DEF Becomes
<1>8. \A x \in strays' : x.sid \in adrift'
  BY <1>5 DEF TrackOK, StraysOK
<1> QED BY <1>5, <1>6, <1>7, <1>8, TrackFrame

LEMMA TrackAnswer ==
  ASSUME OneLock, IInv, LockOK, TrackOK, NEW k \in Task,
         Commit(k) \/ Clear(k) \/ GetRecord(k) \/ LoseSignOut(k)
  PROVE  TrackOK'
<1>1. TypeOK /\ RowOK(tasks[k])
  BY DEF IInv
<1>2. UNCHANGED <<server, record, strays, adrift, currentSession>>
  BY DEF Commit, Clear, GetRecord, LoseSignOut, client
<1>3. ASSUME NEW pc \in {"queued", "writing"}, NEW ok, tasks[k].pc \in {"replied", "queued"},
             Becomes(k, pc, tasks[k].op, tasks[k].token, ok)
      PROVE  TrackOK'
  <2>1. tasks[k].op = "refresh" /\ tasks[k].token # None /\ Tracked(tasks[k].token.sid) =>
          Newest(tasks[k].token)
    BY <1>3 DEF TrackOK, HolderOK, Presenting
  <2>2. Sound(k)
    BY <1>3, <2>1 DEF Sound, Becomes, Presenting, Adopting, Handed
  <2> QED BY <1>2, <1>3, <2>2, TrackMove
<1>4. ASSUME Commit(k) PROVE TrackOK'
  <2>1. PICK ok : Becomes(k, "queued", tasks[k].op, tasks[k].token, ok)
    BY <1>1, <1>4, Waits
  <2> QED BY <1>3, <1>4, <2>1 DEF Commit
<1>5. ASSUME GetRecord(k) PROVE TrackOK'
  <2>1. PICK ok : Becomes(k, "writing", tasks[k].op, tasks[k].token, ok)
    BY <1>1, <1>5, Waits
  <2> QED BY <1>3, <1>5, <2>1 DEF GetRecord
<1>6. ASSUME Clear(k) PROVE TrackOK'
  <2>1. PICK ok : Becomes(k, "queued", tasks[k].op, None, ok)
    BY <1>1, <1>6, Waits
  <2>2. tasks[k].op = "refresh" => ~ Live(tasks[k].token.sid)
    BY <1>6 DEF Clear, TrackOK, RefusedOK, At
  <2>3. Sound(k)
    BY <1>2, <2>1, <2>2 DEF Sound, Becomes, Presenting, Adopting, Handed, StillTracked, Live
  <2> QED BY <1>2, <2>1, <2>3, TrackMove
<1>7. ASSUME LoseSignOut(k) PROVE TrackOK'
  <2>1. PICK ok : Becomes(k, "replied", tasks[k].op, tasks[k].token, ok)
    BY <1>1, <1>7, Waits
  <2>2. tasks[k].op = "signOut"
    BY <1>7 DEF LoseSignOut, At
  <2>3. Sound(k)
    BY <2>1, <2>2 DEF Sound, Becomes, Presenting, Adopting, Handed
  <2> QED BY <1>2, <2>1, <2>3, TrackMove
<1> QED BY <1>4, <1>5, <1>6, <1>7

\* The browser loses track of the session of a call that ends without its answer.
LEMMA TrackLose ==
  ASSUME OneLock, IInv, LockOK, TrackOK, NEW k \in Task, Lose(k)
  PROVE  TrackOK'
<1>1. TypeOK /\ tasks \in [Task -> TaskRow]
  BY Tasks DEF IInv
<1>2. PICK ok : Becomes(k, "idle", "refresh", None, ok)
  BY <1>1, Starts DEF Lose
<1>3. UNCHANGED <<server, record, currentSession>> /\ adrift \subseteq adrift'
  BY DEF Lose, client
<1>4. \A x \in strays' : x.sid \in adrift'
  BY DEF Lose, Unanswered, TrackOK, StraysOK
<1>5. Handed(tasks[k]) => ~ StillTracked(tasks[k].token.sid)
  <2> SUFFICES ASSUME Handed(tasks[k]) PROVE ~ StillTracked(tasks[k].token.sid)
    OBVIOUS
  <2>1. At(k, "replied", {"refresh"})
    BY DEF Lose, At, Handed
  <2>2. CASE tasks[k].ok
    BY <2>1, <2>2 DEF Lose, Unanswered, StillTracked
  <2>3. CASE ~ tasks[k].ok
    BY <1>3, <2>1, <2>3 DEF TrackOK, RefusedOK, StillTracked, Live
  <2> QED BY <2>2, <2>3
<1>6. Sound(k)
  BY <1>2, <1>5 DEF Sound, Becomes, Presenting, Adopting
<1>7. \A j \in Task : tasks'[j] = tasks[j] \/ Sound(j)
  BY <1>2, <1>6 DEF Becomes
<1>8. \A s \in Session : /\ server'[s].status = "live" => Live(s) \/ ~ Known(s)
                         /\ StillTracked(s) => server'[s].gen = server[s].gen
  BY <1>3 DEF Live
<1> QED BY <1>3, <1>4, <1>7, <1>8, TrackFrame

LEMMA TrackClose ==
  ASSUME OneLock, IInv, LockOK, TrackOK, NEW t \in Tab, Close(t)
  PROVE  TrackOK'
<1>1. UNCHANGED <<server, record, currentSession>> /\ adrift \subseteq adrift'
  BY DEF Close, client
<1>2. \A x \in strays' : x.sid \in adrift'
  <2>1. PICK S \in SUBSET {k \in Task : k[1] = t /\ At(k, "sent", {"refresh"})} :
          strays' = strays \cup {tasks[k].token : k \in S}
    BY DEF Close
  <2>2. \A k \in Task : k[1] = t /\ At(k, "sent", {"refresh"}) => tasks[k].token.sid \in adrift'
    BY DEF Close, Unanswered
  <2> QED BY <1>1, <2>1, <2>2 DEF TrackOK, StraysOK
<1>3. ASSUME NEW k \in Task, k[1] = t
      PROVE  Sound(k)
  <2>1. tasks'[k].pc = "closed" /\ tasks'[k].op = "refresh" /\ tasks'[k].token = None
    BY <1>3 DEF Close, Idle
  <2>2. Handed(tasks[k]) /\ tasks[k].token # None => ~ StillTracked(tasks[k].token.sid)
    <3> SUFFICES ASSUME Handed(tasks[k]), tasks[k].token # None
                 PROVE  ~ StillTracked(tasks[k].token.sid)
      OBVIOUS
    <3>1. CASE tasks[k].ok
      BY <1>3, <3>1 DEF Close, Unanswered, StillTracked, Handed, At
    <3>2. CASE ~ tasks[k].ok
      <4>1. At(k, "replied", {"refresh"})
        BY <3>2 DEF Handed, At, IInv, RowOK, Knows
      <4> QED BY <1>1, <3>2, <4>1 DEF TrackOK, RefusedOK, StillTracked, Live
    <3> QED BY <3>1, <3>2
  <2> QED BY <2>1, <2>2 DEF Sound, Presenting, Adopting
<1>4. \A k \in Task : tasks'[k] = tasks[k] \/ Sound(k)
  <2>1. \A k \in Task : k[1] # t => tasks'[k] = tasks[k]
    BY DEF Close
  <2> QED BY <1>3, <2>1
<1>5. \A s \in Session : /\ server'[s].status = "live" => Live(s) \/ ~ Known(s)
                         /\ StillTracked(s) => server'[s].gen = server[s].gen
  BY <1>1 DEF Live
<1> QED BY <1>1, <1>2, <1>4, <1>5, TrackFrame

LEMMA TrackOutside ==
  ASSUME OneLock, IInv, LockOK, TrackOK,
         \/ \E token \in strays : ServeStray(token)
         \/ \E s \in Session : Revoke(s)
         \/ \E t \in Tab : Listen(t)
  PROVE  TrackOK'
<1>1. server \in [Session -> ServerRow] /\ strays \subseteq Token
      /\ currentSession \in [Tab -> Token \cup {None}]
  BY DEF IInv, TypeOK, ServerRow
<1>2. UNCHANGED <<record, tasks, adrift>> /\ strays' \subseteq strays
  BY DEF ServeStray, Revoke, Listen, RemoteBegin, RemoteReadSession, RemoteReadRevision
<1>3. \A t \in Tab : currentSession'[t] \in {currentSession[t], record.session}
  BY <1>1 DEF ServeStray, Revoke, Listen, RemoteBegin, RemoteReadSession, RemoteReadRevision,
            readSession, readRevision, client
<1>4. \A s \in Session : /\ server'[s].status = "live" => Live(s)
                         /\ StillTracked(s) => server'[s].gen = server[s].gen
  <2>1. ASSUME NEW token \in strays, ServeStray(token), NEW s \in Session
        PROVE  /\ server'[s].status = "live" => Live(s)
               /\ StillTracked(s) => server'[s].gen = server[s].gen
    <3>1. token.sid \in adrift /\ token.sid \in Session
      BY <1>1 DEF TrackOK, StraysOK, Token
    <3>2. server' = refreshed(token)
      BY <2>1 DEF ServeStray
    <3> QED BY <1>1, <1>2, <3>1, <3>2 DEF refreshed, Rotates, Live, StillTracked, ServerRow
  <2>2. ASSUME NEW x \in Session, Revoke(x), NEW s \in Session
        PROVE  /\ server'[s].status = "live" => Live(s)
               /\ StillTracked(s) => server'[s].gen = server[s].gen
    BY <1>1, <2>2 DEF Revoke, Live, ServerRow
  <2>3. ASSUME NEW t \in Tab, Listen(t), NEW s \in Session
        PROVE  /\ server'[s].status = "live" => Live(s)
               /\ StillTracked(s) => server'[s].gen = server[s].gen
    BY <2>3 DEF Listen, RemoteBegin, RemoteReadSession, RemoteReadRevision, Live
  <2> QED BY <2>1, <2>2, <2>3
<1>5. \A x \in strays' : x.sid \in adrift'
  BY <1>2 DEF TrackOK, StraysOK
<1> QED BY <1>2, <1>3, <1>4, <1>5, TrackFrame

\* A refused refresh is of a session that ended, or ends with it; a granted one leaves the
\* newest token in the hands of its call, the holder of the lock.
LEMMA TrackRefresh ==
  ASSUME OneLock, IInv, LockOK, TrackOK, NEW k \in Task, ServeRefresh(k)
  PROVE  TrackOK'
<1> DEFINE token == tasks[k].token
           s0 == tasks[k].token.sid
<1>1. TypeOK /\ server \in [Session -> ServerRow]
  BY DEF IInv, TypeOK, ServerRow
<1>2. token \in Token /\ s0 \in Session /\ token # None
  BY Answered, NoneAssumption DEF ServeRefresh, Token
<1>3. Becomes(k, "replied", "refresh", Answer(token), Rotates(token))
  <2>1. Becomes(k, "replied", tasks[k].op, Answer(token), Rotates(token))
    BY <1>1, Waits DEF ServeRefresh, Answer
  <2> QED BY <2>1 DEF ServeRefresh, At
<1>4. /\ UNCHANGED <<record, strays, adrift, currentSession>> /\ server' = refreshed(token)
      /\ tasks[k].pc = "sent" /\ tasks[k].op = "refresh"
  BY DEF ServeRefresh, Reply, At, client
<1>5. Tracked(s0) => Newest(token)
  BY <1>2, <1>4 DEF TrackOK, HolderOK, Presenting
<1>6. CASE ~ Rotates(token)
  <2>1. \A s \in Session : /\ server'[s].status = "live" => Live(s)
                           /\ server'[s].gen = server[s].gen
    BY <1>1, <1>2, <1>4, <1>6 DEF refreshed, Live, ServerRow
  <2>2. server'[s0].status # "live"
    BY <1>1, <1>2, <1>4, <1>6 DEF refreshed, Live, ServerRow
  <2>3. Answer(token) = token
    BY <1>6 DEF Answer
  <2> HIDE DEF token
  <2>4. Sound(k)
    BY <1>3, <1>4, <1>5, <2>2, <2>3 DEF Sound, Becomes, Presenting, Adopting, Handed, token
  <2>5. \A j \in Task : tasks'[j] = tasks[j] \/ Sound(j)
    BY <1>3, <2>4 DEF Becomes
  <2>6. \A x \in strays' : x.sid \in adrift'
    BY <1>4 DEF TrackOK, StraysOK
  <2> QED BY <1>4, <2>1, <2>5, <2>6, TrackFrame
<1>7. CASE Rotates(token)
  <2>1. /\ \A s \in Session : server'[s].status = server[s].status
        /\ \A s \in Session : s # s0 => server'[s].gen = server[s].gen
        /\ server'[s0].gen = server[s0].gen + 1
    BY <1>1, <1>2, <1>4, <1>7 DEF refreshed, ServerRow
  <2>2. /\ Answer(token) = [sid |-> s0, gen |-> server'[s0].gen]
        /\ Answer(token) # None
    <3>1. Answer(token) = [token EXCEPT !.gen = @ + 1] /\ token.gen = server[s0].gen
      BY <1>7 DEF Answer, Rotates
    <3>2. Answer(token) \in Token
      BY <1>4, Answered DEF At
    <3> QED BY <1>2, <2>1, <3>1, <3>2, NoneAssumption DEF Token
  <2>3. \A j \in Task : j # k => /\ tasks'[j] = tasks[j]
                                 /\ ~ Presenting(tasks[j]) /\ ~ Handed(tasks[j]) /\ ~ Adopting(tasks[j])
    <3>1. Holding(tasks[k])
      BY <1>4 DEF Holding, Refreshing
    <3>2. \A j \in Task : Presenting(tasks[j]) \/ Handed(tasks[j]) \/ Adopting(tasks[j]) =>
            Holding(tasks[j])
      BY DEF Presenting, Handed, Adopting, Holding, Refreshing
    <3> QED BY <1>3, <3>1, <3>2, OneHolder DEF OneLock, Becomes
  <2>4. /\ tasks'[k].pc = "replied" /\ tasks'[k].op = "refresh" /\ tasks'[k].ok
        /\ tasks'[k].token = Answer(token)
    BY <1>3, <1>7 DEF Becomes
  <2>5. StraysOK'
    BY <1>4 DEF TrackOK, StraysOK
  <2>6. RootsOK'
    <3>1. ASSUME NEW t \in Tab, currentSession[t] # None, StillTracked(currentSession[t].sid)
          PROVE  Carries(record.session, currentSession[t].sid)
      <4>1. currentSession[t].sid \in Session
        BY <1>1, <3>1 DEF TypeOK, Token
      <4> QED BY <1>4, <2>1, <3>1, <4>1 DEF TrackOK, RootsOK, Rooted, Tracked, StillTracked, Live
    <3>2. ASSUME NEW j \in Task, tasks'[j].op # "signIn", tasks'[j].token # None,
                 StillTracked(tasks'[j].token.sid)
          PROVE  Carries(record.session, tasks'[j].token.sid)
      <4>1. /\ tasks[j].op # "signIn" /\ tasks[j].token # None
            /\ tasks'[j].token.sid = tasks[j].token.sid
        BY <1>2, <1>4, <2>2, <2>3, <2>4, <3>2
      <4>2. tasks[j].token.sid \in Session
        BY <1>1, <4>1, Tasks DEF TaskRow, Token
      <4> QED BY <1>4, <2>1, <3>2, <4>1, <4>2
              DEF TrackOK, RootsOK, Rooted, Tracked, StillTracked, Live
    <3> QED BY <1>4, <3>1, <3>2 DEF RootsOK, Rooted, Tracked, StillTracked, Live
  <2>7. RefusedOK'
    <3> SUFFICES ASSUME NEW j \in Task, tasks'[j].pc = "replied", tasks'[j].op = "refresh",
                        ~ tasks'[j].ok
                 PROVE  server'[tasks'[j].token.sid].status # "live"
      BY DEF RefusedOK, At, Live
    <3> QED BY <2>3, <2>4 DEF Handed
  <2>8. HolderOK'
    <3>1. tasks'[k].token.gen = server'[tasks'[k].token.sid].gen
      BY <2>2, <2>4
    <3>2. ~ Adopting(tasks'[k])
      BY <2>4 DEF Adopting
    <3> QED BY <2>3, <3>1, <3>2 DEF HolderOK, Newest
  <2>9. NewestTokenKept'
    <3> SUFFICES ASSUME NEW s \in Session, StillTracked(s), Carries(record.session, s)
                 PROVE  \/ record.session = [sid |-> s, gen |-> server'[s].gen]
                        \/ \E j \in Task : /\ tasks'[j].op = "refresh"
                                           /\ tasks'[j].pc \in {"replied", "queued", "writing"}
                                           /\ tasks'[j].token = [sid |-> s, gen |-> server'[s].gen]
      BY <1>4 DEF NewestTokenKept, StillTracked, Live, At
    <3>1. CASE s = s0
      BY <2>2, <2>4, <3>1
    <3>2. CASE s # s0
      <4>1. Tracked(s) /\ server'[s].gen = server[s].gen
        BY <1>4, <2>1, <3>2 DEF Tracked, StillTracked, Live
      <4>2. \A j \in Task : ~ Handed(tasks[j])
        BY <1>4, <2>3 DEF Handed
      <4> QED BY <4>1, <4>2 DEF TrackOK, NewestTokenKept, Tracked, At, Handed
    <3> QED BY <3>1, <3>2
  <2> QED BY <2>5, <2>6, <2>7, <2>8, <2>9 DEF TrackOK
<1> QED BY <1>6, <1>7

\* A write: what it puts in the record is the newest token of its session, and the session it
\* takes out of it is one the browser lets go of.
LEMMA TrackWrite ==
  ASSUME OneLock, IInv, LockOK, TrackOK, "updateUser" \notin Ops, NEW k \in Task, SetItem(k)
  PROVE  TrackOK'
<1> DEFINE token == tasks[k].token
<1>1. TypeOK /\ tasks \in [Task -> TaskRow] /\ RowOK(tasks[k]) /\ k[1] \in Tab
  BY Tasks DEF IInv, Task
<1>2. PICK ok : Becomes(k, "idle", "refresh", None, ok)
  BY <1>1, Starts DEF SetItem
<1>3. /\ UNCHANGED <<server, strays>> /\ adrift \subseteq adrift' /\ record'.session = token
      /\ currentSession' = [currentSession EXCEPT ![k[1]] = token]
      /\ tasks[k].pc = "writing"
  BY DEF SetItem
<1>4. currentSession'[k[1]] = token
      /\ \A t \in Tab : t # k[1] => currentSession'[t] = currentSession[t]
  BY <1>1, <1>3 DEF TypeOK
<1>5. \A s \in Session : Live(s) /\ Carries(record.session, s) /\ s \notin adrift' =>
        Carries(token, s)
  BY DEF SetItem
<1>6. \A s : StillTracked(s) => Tracked(s)
  BY <1>3 DEF StillTracked, Tracked, Live
<1>7. ASSUME token # None, StillTracked(token.sid)
      PROVE  token.gen = server[token.sid].gen
  <2>1. token \in Token
    BY <1>1, <1>7 DEF TaskRow
  <2>2. CASE tasks[k].op = "refresh"
    BY <1>3, <1>6, <1>7, <2>2 DEF TrackOK, HolderOK, Presenting, Newest
  <2>3. CASE tasks[k].op = "signIn"
    <3>1. Signing(tasks[k]) /\ token.gen = 0
      BY <1>1, <1>3, <1>7, <2>3 DEF Signing, RowOK, Knows
    <3>2. token.sid \in Session /\ Early(token.sid)
      BY <2>1, <3>1 DEF Early, Token
    <3>3. server[token.sid].gen = 0
      BY <3>2 DEF IInv, FreshOK, Known
    <3> QED BY <3>1, <3>3
  <2>4. CASE tasks[k].op = "signOut"
    BY <1>1, <1>3, <1>7, <2>4 DEF RowOK, Knows
  <2> QED BY <1>1, <2>2, <2>3, <2>4, SwitchAssumption DEF TaskRow
<1>8. ASSUME NEW x, x # None, x.sid \in Session, Rooted(x), StillTracked(x.sid)
      PROVE  Carries(token, x.sid)
  BY <1>5, <1>6, <1>8 DEF Rooted, StillTracked, Tracked
<1>9. ASSUME NEW j \in Task, j # k
      PROVE  /\ tasks'[j] = tasks[j] /\ j[1] \in Tab
             /\ tasks[j].token # None => tasks[j].token.sid \in Session
  BY <1>1, <1>2, <1>9 DEF Becomes, TaskRow, Token, Task
<1>10. tasks'[k].pc = "idle" /\ tasks'[k].token = None
  BY <1>2 DEF Becomes
<1> HIDE DEF token
<1>11. StraysOK'
  BY <1>3 DEF TrackOK, StraysOK
<1>12. RootsOK'
  <2>1. ASSUME NEW t \in Tab, currentSession'[t] # None, StillTracked(currentSession'[t].sid)
        PROVE  Carries(token, currentSession'[t].sid)
    <3>1. CASE t = k[1]
      BY <1>4, <2>1, <3>1 DEF Carries
    <3>2. CASE t # k[1]
      <4>1. currentSession'[t] = currentSession[t] /\ currentSession[t].sid \in Session
        BY <1>1, <1>4, <2>1, <3>2 DEF TypeOK, Token
      <4> QED BY <1>8, <2>1, <4>1 DEF TrackOK, RootsOK
    <3> QED BY <3>1, <3>2
  <2>2. ASSUME NEW j \in Task, tasks'[j].op # "signIn", tasks'[j].token # None,
               StillTracked(tasks'[j].token.sid)
        PROVE  Carries(token, tasks'[j].token.sid)
    <3>1. j # k
      BY <1>10, <2>2
    <3> QED BY <1>8, <1>9, <2>2, <3>1 DEF TrackOK, RootsOK
  <2> QED BY <1>3, <2>1, <2>2 DEF RootsOK, Rooted, Tracked, StillTracked, Live
<1>13. RefusedOK'
  <2> SUFFICES ASSUME NEW j \in Task, tasks'[j].pc = "replied", tasks'[j].op = "refresh",
                      ~ tasks'[j].ok
               PROVE  server'[tasks'[j].token.sid].status # "live"
    BY DEF RefusedOK, At, Live
  <2>1. tasks'[j] = tasks[j]
    BY <1>9, <1>10
  <2> QED BY <1>3, <2>1 DEF TrackOK, RefusedOK, At, Live
<1>14. HolderOK'
  <2>1. ASSUME NEW j \in Task, Presenting(tasks'[j]), tasks'[j].token # None,
               StillTracked(tasks'[j].token.sid)
        PROVE  tasks'[j].token.gen = server'[tasks'[j].token.sid].gen
    <3>1. tasks'[j] = tasks[j]
      BY <1>9, <1>10, <2>1 DEF Presenting
    <3> QED BY <1>3, <1>6, <2>1, <3>1 DEF TrackOK, HolderOK, Newest
  <2>2. ASSUME NEW j \in Task, Adopting(tasks'[j])
        PROVE  /\ currentSession'[j[1]] # None /\ StillTracked(currentSession'[j[1]].sid) =>
                    currentSession'[j[1]].gen = server'[currentSession'[j[1]].sid].gen
               /\ currentSession'[j[1]] = None /\ tasks'[j].token # None =>
                    ~ StillTracked(tasks'[j].token.sid)
    <3>1. j # k
      BY <1>10, <2>2 DEF Adopting
    <3>2. tasks'[j] = tasks[j] /\ Adopting(tasks[j]) /\ j[1] \in Tab
      BY <1>9, <2>2, <3>1
    <3>3. CASE j[1] # k[1]
      <4>1. currentSession'[j[1]] = currentSession[j[1]]
        BY <1>4, <3>2, <3>3
      <4> QED BY <1>3, <1>6, <3>2, <4>1 DEF TrackOK, HolderOK, Newest
    <3>4. CASE j[1] = k[1]
      <4>1. currentSession'[j[1]] = token
        BY <1>4, <3>4
      <4>2. token = None /\ tasks[j].token # None => ~ StillTracked(tasks[j].token.sid)
        BY <1>8, <1>9, <3>1, <3>2 DEF TrackOK, RootsOK, Adopting, Carries
      <4> QED BY <1>3, <1>7, <3>2, <4>1, <4>2
    <3> QED BY <3>3, <3>4
  <2> QED BY <2>1, <2>2 DEF HolderOK, Newest, Tracked, StillTracked, Live
<1>15. NewestTokenKept'
  <2> SUFFICES ASSUME NEW s \in Session, StillTracked(s), Carries(token, s)
               PROVE  token = [sid |-> s, gen |-> server'[s].gen]
    BY <1>3 DEF NewestTokenKept, StillTracked, Live
  <2>1. token \in Token /\ token.sid = s
    BY <1>1 DEF Carries, TaskRow, token
  <2>2. token.gen = server'[s].gen
    BY <1>3, <1>7, <2>1 DEF Carries
  <2> QED BY <2>1, <2>2 DEF Token
<1> QED BY <1>11, <1>12, <1>13, <1>14, <1>15 DEF TrackOK

LEMMA TrackStep ==
  ASSUME OneLock, IInv, LockOK, TrackOK, "updateUser" \notin Ops, Next
  PROVE  TrackOK'
<1>1. ASSUME NEW k \in Task, Work(k) \/ Call(k) \/ LockTimeout(k) \/ Lose(k) \/ LoseSignOut(k)
      PROVE  TrackOK'
  BY <1>1, TrackStart, TrackRead, TrackServe, TrackAnswer, TrackLose, TrackRefresh, TrackWrite
     DEF Work
<1>2. ASSUME NEW t \in Tab, Listen(t) \/ Close(t)
      PROVE  TrackOK'
  BY <1>2, TrackClose, TrackOutside
<1> QED BY <1>1, <1>2, TrackOutside DEF Next

\* What one lock keeps, as long as no call writes a session it read before it took part in
\* the queue of the lock.
HInv == IInv /\ LockOK /\ TrackOK

LEMMA InitHonest == Init => HInv
<1> SUFFICES ASSUME Init PROVE HInv
  OBVIOUS
<1>1. IInv
  BY InitInv
<1>2. PICK token \in Token \cup {None} : InitWith(token) /\ (token # None => token.gen = 0)
  <2>1. CASE InitWith(None)
    BY <2>1
  <2>2. ASSUME NEW s \in Session, InitWith([sid |-> s, gen |-> 0])
        PROVE  \E token \in Token \cup {None} : InitWith(token) /\ (token # None => token.gen = 0)
    <3>1. [sid |-> s, gen |-> 0] \in Token /\ [sid |-> s, gen |-> 0].gen = 0
      BY MaxCallsAssumption DEF Token
    <3> QED BY <2>2, <3>1
  <2> QED BY <2>1, <2>2 DEF Init
<1>3. /\ \A k \in Task : tasks[k] = Idle
      /\ \A t \in Tab : currentSession[t] = token
      /\ \A s \in Session : server[s].gen = 0
      /\ record.session = token /\ strays = {}
  BY <1>2 DEF InitWith
<1>4. LockOK
  BY InitLock
<1>5. StraysOK /\ RootsOK /\ RefusedOK
  BY <1>3 DEF StraysOK, RootsOK, Rooted, Carries, RefusedOK, At, Idle
<1>6. HolderOK
  BY <1>3 DEF HolderOK, Presenting, Adopting, Idle
<1>7. NewestTokenKept
  <2>1. ASSUME NEW s \in Session, Carries(token, s)
        PROVE  token = [sid |-> s, gen |-> 0]
    BY <1>2, <2>1 DEF Carries, Token
  <2> QED BY <1>3, <2>1 DEF NewestTokenKept
<1> QED BY <1>1, <1>4, <1>5, <1>6, <1>7 DEF HInv, TrackOK

LEMMA StepHonest ==
  ASSUME OneLock, "updateUser" \notin Ops
  PROVE  HInv /\ [Next]_vars => HInv'
<1> SUFFICES ASSUME HInv, [Next]_vars PROVE HInv'
  OBVIOUS
<1>1. IInv'
  BY StepInv DEF HInv
<1>2. CASE Next
  BY <1>1, <1>2, LockStep, TrackStep DEF HInv
<1>3. CASE UNCHANGED vars
  <2>1. UNCHANGED <<server, record, currentSession, lockQueue, tasks, strays, adrift>>
    BY <1>3 DEF vars, client
  <2>2. LockOK'
    BY <1>3, StepLock DEF HInv
  <2>3. \A s \in Session : /\ server'[s].status = "live" => Live(s) \/ ~ Known(s)
                           /\ StillTracked(s) => server'[s].gen = server[s].gen
    BY <2>1 DEF Live
  <2>4. \A token \in strays' : token.sid \in adrift'
    BY <2>1 DEF HInv, TrackOK, StraysOK
  <2>5. TrackOK'
    BY <2>1, <2>3, <2>4, TrackFrame DEF HInv
  <2> QED BY <1>1, <2>2, <2>5 DEF HInv
<1> QED BY <1>2, <1>3

LEMMA Honest == ASSUME OneLock, "updateUser" \notin Ops PROVE Spec => []HInv
BY InitHonest, StepHonest, PTL DEF Spec

\* Whatever the tabs do and whatever fails, a browser with one lock never presents a spent
\* refresh token of a live session it kept track of: the holder of the lock reads the record
\* again (refreshSessionInternal in client/auth-client.ts), and no other call writes a session
\* into it that it did not just receive.  Calls of updateUser are excluded: they write back
\* the session they read before.
THEOREM HonestTabs ==
  ASSUME OneLock, "updateUser" \notin Ops
  PROVE  Spec => []NoHonestReplay
<1>1. HInv => NoHonestReplay
  <2> SUFFICES ASSUME HInv, NEW k \in Task, At(k, "sent", {"refresh"}), Tracked(tasks[k].token.sid)
               PROVE  Newest(tasks[k].token)
    BY DEF NoHonestReplay, Tracked, Newest
  <2>1. tasks[k].token # None
    BY DEF HInv, IInv, RowOK, Knows, At
  <2> QED BY <2>1 DEF HInv, TrackOK, HolderOK, Presenting, At
<1> QED BY <1>1, Honest, PTL

\* Under the same conditions no write puts an older refresh token in the place of the newest:
\* while the session is live and tracked, the record has it, or the call that is about to
\* write it (commit in client/auth-client.ts).
THEOREM NewestKept ==
  ASSUME OneLock, "updateUser" \notin Ops
  PROVE  Spec => []NewestTokenKept
<1>1. HInv => NewestTokenKept
  BY DEF HInv, TrackOK
<1> QED BY <1>1, Honest, PTL
================================================================================
