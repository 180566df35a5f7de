----------------------------- MODULE ClientSession -----------------------------
(***************************************************************************)
(* One browser session shared by several tabs (client/auth-client.ts over  *)
(* client/storage.ts, client/lock.ts and client/events.ts).                *)
(*                                                                         *)
(* Tabs share one storage record, one server and an event channel.  Inside *)
(* a tab several calls run concurrently and meet only in the variables of  *)
(* the client closure and in its write queue.  Each await is a step        *)
(* boundary: a call reads the session and the revision in two accesses,    *)
(* and a write is a read of the record followed by setItem.                *)
(*                                                                         *)
(* A session's refresh tokens are numbered by generation.  The server      *)
(* keeps the promise of SessionFamily, which Sessions implements.          *)
(***************************************************************************)
EXTENDS Naturals, Sequences

CONSTANTS
  Tab,
  Lanes,     \* concurrent calls per tab
  Session,   \* the sessions sign-ins may open
  Ops,       \* the client calls made
  WebLocks,  \* TRUE: navigator.locks; FALSE: the in-memory fallback lock
  Faults,    \* what may go wrong: "lose", "close", "revoke"
  MaxCalls,  \* bound on the number of calls
  None       \* null

Task == Tab \X (1..Lanes)
Token == [sid : Session, gen : 0..MaxCalls]
Event == {"SIGNED_IN", "SIGNED_OUT", "TOKEN_REFRESHED", "USER_UPDATED"}
Revision == 0..(MaxCalls + 1)

ASSUME LanesAssumption == Lanes \in Nat \ {0}
ASSUME MaxCallsAssumption == MaxCalls \in Nat
ASSUME SwitchAssumption ==
  /\ WebLocks \in BOOLEAN
  /\ Ops \subseteq {"refresh", "signIn", "signOut", "updateUser"}
  /\ Faults \subseteq {"lose", "close", "revoke"}
ASSUME NoneAssumption == None \notin Token /\ None \notin Event

VARIABLES
  server,          \* the sessions of the server: status and current generation
  record,          \* the storage record: revision and session
  currentSession,  \* currentSession[t] of the client closure
  lastRevision,    \* lastRevision[t] of the client closure
  localRevision,   \* localRevision[t] of the storage controller
  lastEvent,       \* lastEvent[t], lastEventRevision[t]: the last one dispatched
  remote,          \* the head of remoteQueue[t]: the synchronization under way
  channel,         \* channel[<<t, u>>]: messages of t not yet received by u
  lockQueue,       \* the tasks holding the lock or waiting for it
  writeQueue,      \* writeQueue[t]: the tasks of t writing or waiting to
  tasks,           \* the calls in flight
  strays,          \* refresh tokens in requests nobody waits for any more
  adrift,          \* sessions the browser lost track of (history)
  calls            \* number of calls made

client == <<currentSession, lastRevision, localRevision>>
bus == <<lastEvent, channel>>
vars == <<server, record, client, bus, remote, lockQueue, writeQueue, tasks,
          strays, adrift, calls>>

Idle == [pc |-> "idle", op |-> "refresh", token |-> None, ok |-> FALSE,
         event |-> None, revision |-> 0]
Quiet == [pc |-> "idle", event |-> None, previous |-> 0]

\* Every tab has finished its initialization, signed in or signed out.
InitWith(token) ==
  LET rev == IF token = None THEN 0 ELSE 1 IN
  /\ server = [s \in Session |->
       [status |-> IF token # None /\ token.sid = s THEN "live" ELSE "unused",
        gen |-> 0]]
  /\ record = [revision |-> rev, session |-> token]
  /\ currentSession = [t \in Tab |-> token]
  /\ lastRevision = [t \in Tab |-> rev]
  /\ localRevision = [t \in Tab |-> rev]
  /\ lastEvent = [t \in Tab |-> [event |-> None, revision |-> 0]]
  /\ remote = [t \in Tab |-> Quiet]
  /\ channel = [p \in Tab \X Tab |-> <<>>]
  /\ lockQueue = {}
  /\ writeQueue = [t \in Tab |-> {}]
  /\ tasks = [k \in Task |-> Idle]
  /\ strays = {}
  /\ adrift = {}
  /\ calls = 0

Init ==
  \/ InitWith(None)
  \/ \E s \in Session : InitWith([sid |-> s, gen |-> 0])

--------------------------------------------------------------------------------
(* Helpers.                                                                *)

Larger(a, b) == IF a > b THEN a ELSE b
Live(s) == server[s].status = "live"
Carries(token, s) == token # None /\ token.sid = s
At(k, pc, ops) == tasks[k].pc = pc /\ tasks[k].op \in ops

\* A queue is the order of the tasks in it: <<j, k>> says that j is k or came before k.
Joined(queue, k) == queue \cup {<<j, k>> : j \in {i \in Task : <<i, i>> \in queue} \cup {k}}
Without(queue, gone) == {p \in queue : p[1] \notin gone /\ p[2] \notin gone}
Ahead(queue, k) == {j \in Task \ {k} : <<j, k>> \in queue}

\* Two calls exclude each other: always under Web Locks; the fallback lock is
\* a map in the memory of one tab.
Excludes(j, k) == WebLocks \/ j[1] = k[1]

\* Mutant: the callback runs whether or not the lock was granted.
Granted_Unlocked(k) == <<k, k>> \in lockQueue

Granted(k) == \A j \in Ahead(lockQueue, k) : ~ Excludes(j, k)

\* Mutant: the lock is not released when the call fails.
Return_KeepLock(k) ==
  /\ tasks' = [tasks EXCEPT ![k] = Idle]
  /\ lockQueue' = IF tasks[k].pc = "writing" THEN Without(lockQueue, {k})
                  ELSE lockQueue

Return(k) ==
  /\ tasks' = [tasks EXCEPT ![k] = Idle]
  /\ lockQueue' = Without(lockQueue, {k})

Goto(k, pc) == tasks' = [tasks EXCEPT ![k].pc = pc]

\* dispatch(event, session, revision, publish)
dispatch(t, event, revision, publish) ==
  LET told == [event |-> event, revision |-> revision] IN
  /\ lastEvent' = [lastEvent EXCEPT ![t] = told]
  /\ channel' = IF ~ publish \/ lastEvent[t] = told THEN channel
                ELSE [p \in Tab \X Tab |-> IF p[1] = t /\ p[2] # t
                                           THEN Append(channel[p], told)
                                           ELSE channel[p]]

\* readRecord: the revision seen also raises the controller's own.
readRecord(t) ==
  localRevision' = [localRevision EXCEPT ![t] = Larger(@, record.revision)]

readSession(t) ==
  /\ readRecord(t)
  /\ currentSession' = [currentSession EXCEPT ![t] = record.session]
  /\ UNCHANGED lastRevision

readRevision(t) ==
  /\ readRecord(t)
  /\ lastRevision' = [lastRevision EXCEPT ![t] = record.revision]
  /\ UNCHANGED currentSession

--------------------------------------------------------------------------------
(* Starting a call.                                                        *)

\* Lanes are slots: a call takes the first free one.
Begin(k, op) ==
  /\ tasks[k].pc = "idle" /\ op \in Ops /\ calls < MaxCalls
  /\ \A lane \in 1..(k[2] - 1) : tasks[<<k[1], lane>>].pc # "idle"
  /\ calls' = calls + 1
  /\ UNCHANGED <<server, record, client, bus, remote, writeQueue, strays, adrift>>

\* refreshSessionInternal remembers the session it was called for, then waits.
BeginRefresh(k) ==
  /\ Begin(k, "refresh")
  /\ tasks' = [tasks EXCEPT ![k] = [Idle EXCEPT !.pc = "waiting",
                                                !.token = currentSession[k[1]]]]
  /\ lockQueue' = Joined(lockQueue, k)

\* signOut and updateUser start by readLatest, without the lock.
BeginLatest(k, op) ==
  /\ Begin(k, op) /\ op \in {"signOut", "updateUser"}
  /\ tasks' = [tasks EXCEPT ![k] = [Idle EXCEPT !.pc = "readSession", !.op = op]]
  /\ UNCHANGED lockQueue

\* A sign-in sends credentials; s names the session the server will open.
BeginSignIn(k, s) ==
  /\ Begin(k, "signIn")
  /\ server[s].status = "unused" /\ \A j \in Task : ~ Carries(tasks[j].token, s)
  /\ tasks' = [tasks EXCEPT ![k] = [Idle EXCEPT !.pc = "sent", !.op = "signIn",
                                      !.token = [sid |-> s, gen |-> 0]]]
  /\ UNCHANGED lockQueue

Acquire(k) ==
  /\ tasks[k].pc = "waiting" /\ Granted(k)
  /\ Goto(k, "readSession")
  /\ UNCHANGED <<server, record, client, bus, remote, lockQueue, writeQueue,
                 strays, adrift, calls>>

\* The wait for the lock is bounded.
LockTimeout(k) ==
  /\ tasks[k].pc = "waiting" /\ ~ Granted(k)
  /\ Return(k)
  /\ UNCHANGED <<server, record, client, bus, remote, writeQueue, strays, adrift,
                 calls>>

--------------------------------------------------------------------------------
(* readLatest and what the call does with it.                              *)

ReadSession(k) ==
  /\ tasks[k].pc = "readSession"
  /\ readSession(k[1])
  /\ Goto(k, "readRevision")
  /\ UNCHANGED <<server, record, bus, remote, lockQueue, writeQueue, strays,
                 adrift, calls>>

\* A refresh adopts a session that was replaced while it waited, and falls back
\* to the one it remembered; the other calls remember none.
Superseded(requested, latest) ==
  requested # None /\ latest # None /\ latest # requested

Candidate(requested, latest) == IF latest # None THEN latest ELSE requested

\* readLatest returns the shared currentSession, after the second access.
ReadRevision(k) ==
  LET requested == tasks[k].token  latest == currentSession[k[1]] IN
  /\ tasks[k].pc = "readRevision"
  /\ readRevision(k[1])
  /\ \/ /\ Candidate(requested, latest) = None
        /\ Return(k)
        /\ UNCHANGED bus
     \/ /\ Superseded(requested, latest)
        /\ Return(k)
        /\ dispatch(k[1], "TOKEN_REFRESHED", record.revision, FALSE)
     \/ /\ Candidate(requested, latest) # None /\ ~ Superseded(requested, latest)
        /\ tasks' = [tasks EXCEPT ![k].pc = "sent",
                                  ![k].token = Candidate(requested, latest)]
        /\ UNCHANGED <<bus, lockQueue>>
  /\ UNCHANGED <<server, record, remote, writeQueue, strays, adrift, calls>>

--------------------------------------------------------------------------------
(* The server: what Sessions answers, seen from the browser.               *)

\* Mutant: the revocation of the session is not looked at.
Rotates_Revoked(token) == token.gen = server[token.sid].gen

\* The effect of a refresh token arriving.
Rotates(token) == Live(token.sid) /\ token.gen = server[token.sid].gen
refreshed(token) ==
  IF Rotates(token) THEN [server EXCEPT ![token.sid].gen = @ + 1]
  ELSE IF Live(token.sid) THEN [server EXCEPT ![token.sid].status = "revoked"]
  ELSE server

Reply(k, ok, token) ==
  /\ tasks' = [tasks EXCEPT ![k].pc = "replied", ![k].ok = ok, ![k].token = token]
  /\ UNCHANGED <<record, client, bus, remote, lockQueue, writeQueue, strays,
                 adrift, calls>>

ServeRefresh(k) ==
  LET token == tasks[k].token IN
  /\ At(k, "sent", {"refresh"})
  /\ server' = refreshed(token)
  /\ Reply(k, Rotates(token),
           IF Rotates(token) THEN [token EXCEPT !.gen = @ + 1] ELSE token)

ServeSignIn(k) ==
  /\ At(k, "sent", {"signIn"})
  /\ server' = [server EXCEPT ![tasks[k].token.sid].status = "live"]
  /\ Reply(k, TRUE, tasks[k].token)

ServeSignOut(k) ==
  /\ At(k, "sent", {"signOut"})
  /\ server' = [server EXCEPT ![tasks[k].token.sid].status = "revoked"]
  /\ Reply(k, Live(tasks[k].token.sid), tasks[k].token)

ServeUpdate(k) ==
  /\ At(k, "sent", {"updateUser"})
  /\ UNCHANGED server
  /\ Reply(k, Live(tasks[k].token.sid), tasks[k].token)

ServeStray(token) ==
  /\ token \in strays
  /\ server' = refreshed(token)
  /\ strays' = strays \ {token}
  /\ UNCHANGED <<record, client, bus, remote, lockQueue, writeQueue, tasks,
                 adrift, calls>>

\* A ban, a deletion, a replay or a sign-out from another device.
Revoke(s) ==
  /\ "revoke" \in Faults /\ Live(s)
  /\ server' = [server EXCEPT ![s].status = "revoked"]
  /\ UNCHANGED <<record, client, bus, remote, lockQueue, writeQueue, tasks,
                 strays, adrift, calls>>

--------------------------------------------------------------------------------
(* Receiving the answer.                                                   *)

CommitEvent == [refresh |-> "TOKEN_REFRESHED", signIn |-> "SIGNED_IN",
                updateUser |-> "USER_UPDATED"]

\* Mutant: the write goes back to the refresh token that was sent.
Commit_SentToken(k) ==
  /\ tasks[k].pc = "replied" /\ tasks[k].ok /\ tasks[k].op # "signOut"
  /\ tasks' = [tasks EXCEPT
       ![k].pc = "queued", ![k].event = CommitEvent[tasks[k].op],
       ![k].token.gen = IF tasks[k].op = "refresh" THEN @ - 1 ELSE @]
  /\ writeQueue' = [writeQueue EXCEPT ![k[1]] = Joined(@, k)]
  /\ UNCHANGED <<server, record, client, bus, remote, lockQueue, strays, adrift,
                 calls>>

\* commit: the session of the answer is queued for writing.
Commit(k) ==
  /\ tasks[k].pc = "replied" /\ tasks[k].ok /\ tasks[k].op # "signOut"
  /\ tasks' = [tasks EXCEPT ![k].pc = "queued",
                            ![k].event = CommitEvent[tasks[k].op]]
  /\ writeQueue' = [writeQueue EXCEPT ![k[1]] = Joined(@, k)]
  /\ UNCHANGED <<server, record, client, bus, remote, lockQueue, strays, adrift,
                 calls>>

\* clearSession: after a refused refresh, and after any sign-out.
Clear(k) ==
  /\ tasks[k].pc = "replied"
  /\ tasks[k].op = "signOut" \/ (tasks[k].op = "refresh" /\ ~ tasks[k].ok)
  /\ tasks' = [tasks EXCEPT
       ![k].pc = "queued", ![k].token = None,
       ![k].event = IF currentSession[k[1]] # None THEN "SIGNED_OUT" ELSE None]
  /\ writeQueue' = [writeQueue EXCEPT ![k[1]] = Joined(@, k)]
  /\ UNCHANGED <<server, record, client, bus, remote, lockQueue, strays, adrift,
                 calls>>

UpdateRefused(k) ==
  /\ At(k, "replied", {"updateUser"}) /\ ~ tasks[k].ok
  /\ Return(k)
  /\ UNCHANGED <<server, record, client, bus, remote, writeQueue, strays, adrift,
                 calls>>

\* The token of a refresh that will never be answered: whether the server
\* rotated it is unknown.
Unanswered(k) ==
  At(k, "sent", {"refresh"}) \/ (At(k, "replied", {"refresh"}) /\ tasks[k].ok)

\* The connection fails and the call ends with internal_error; a refresh that
\* was under way may still arrive.
Lose(k) ==
  /\ "lose" \in Faults /\ tasks[k].pc \in {"sent", "replied"}
  /\ tasks[k].op # "signOut"
  /\ Return(k)
  /\ \/ strays' = strays
     \/ /\ At(k, "sent", {"refresh"})
        /\ strays' = strays \cup {tasks[k].token}
  /\ adrift' = IF Unanswered(k) THEN adrift \cup {tasks[k].token.sid} ELSE adrift
  /\ UNCHANGED <<server, record, client, bus, remote, writeQueue, calls>>

\* A sign-out that does not reach the server clears the session all the same.
LoseSignOut(k) ==
  /\ "lose" \in Faults /\ At(k, "sent", {"signOut"})
  /\ tasks' = [tasks EXCEPT ![k].pc = "replied", ![k].ok = FALSE]
  /\ UNCHANGED <<server, record, client, bus, remote, lockQueue, writeQueue,
                 strays, adrift, calls>>

--------------------------------------------------------------------------------
(* writeRecord, and the rest of commit or clearSession.                    *)

\* Mutant: the revision is raised once by the read and once by the write.
GetRecord_Twice(k) ==
  /\ tasks[k].pc = "queued" /\ Ahead(writeQueue[k[1]], k) = {}
  /\ readRecord(k[1])
  /\ tasks' = [tasks EXCEPT ![k].pc = "writing",
       ![k].revision = Larger(localRevision[k[1]], record.revision) + 2]
  /\ UNCHANGED <<server, record, currentSession, lastRevision, bus, remote,
                 lockQueue, writeQueue, strays, adrift, calls>>

GetRecord(k) ==
  /\ tasks[k].pc = "queued" /\ Ahead(writeQueue[k[1]], k) = {}
  /\ readRecord(k[1])
  /\ tasks' = [tasks EXCEPT ![k].pc = "writing",
       ![k].revision = Larger(localRevision[k[1]], record.revision) + 1]
  /\ UNCHANGED <<server, record, currentSession, lastRevision, bus, remote,
                 lockQueue, writeQueue, strays, adrift, calls>>

SetItem(k) ==
  LET t == k[1]  task == tasks[k] IN
  /\ task.pc = "writing"
  /\ record' = [revision |-> task.revision, session |-> task.token]
  /\ localRevision' = [localRevision EXCEPT ![t] = task.revision]
  /\ lastRevision' = [lastRevision EXCEPT ![t] = task.revision]
  /\ currentSession' = [currentSession EXCEPT ![t] = task.token]
  /\ IF task.event = None THEN UNCHANGED bus
     ELSE dispatch(t, task.event, task.revision, TRUE)
  /\ writeQueue' = [writeQueue EXCEPT ![t] = Without(@, {k})]
  /\ Return(k)
  /\ adrift' = adrift \cup {s \in Session : /\ Live(s) /\ Carries(record.session, s)
                                            /\ ~ Carries(task.token, s)}
  /\ UNCHANGED <<server, remote, strays, calls>>

--------------------------------------------------------------------------------
(* onRemote: one message at a time per tab.                                *)

RemoteBegin(u, t) ==
  LET msg == Head(channel[<<u, t>>]) IN
  /\ channel[<<u, t>>] # <<>> /\ remote[t].pc = "idle"
  /\ channel' = [channel EXCEPT ![<<u, t>>] = Tail(@)]
  /\ remote' = IF msg.revision <= lastRevision[t] THEN remote
               ELSE [remote EXCEPT ![t] = [pc |-> "readSession",
                       event |-> msg.event, previous |-> lastRevision[t]]]
  /\ UNCHANGED <<server, record, client, lastEvent, lockQueue, writeQueue, tasks,
                 strays, adrift, calls>>

RemoteReadSession(t) ==
  /\ remote[t].pc = "readSession"
  /\ readSession(t)
  /\ remote' = [remote EXCEPT ![t].pc = "readRevision"]
  /\ UNCHANGED <<server, record, bus, lockQueue, writeQueue, tasks, strays,
                 adrift, calls>>

EffectiveEvent(event, session) ==
  IF session = None THEN "SIGNED_OUT"
  ELSE IF event = "SIGNED_OUT" THEN "SIGNED_IN" ELSE event

RemoteReadRevision(t) ==
  /\ remote[t].pc = "readRevision"
  /\ readRevision(t)
  /\ IF record.revision <= remote[t].previous THEN UNCHANGED bus
     ELSE dispatch(t, EffectiveEvent(remote[t].event, currentSession[t]),
                   record.revision, FALSE)
  /\ remote' = [remote EXCEPT ![t] = Quiet]
  /\ UNCHANGED <<server, record, lockQueue, writeQueue, tasks, strays, adrift,
                 calls>>

--------------------------------------------------------------------------------
(* A tab is closed, or its client disposed, whatever it was doing.         *)

Close(t) ==
  LET mine == {k \in Task : k[1] = t}
      inDoubt == {k \in mine : Unanswered(k) \/
                    (tasks[k].op = "refresh" /\ tasks[k].ok
                       /\ tasks[k].pc \in {"queued", "writing"})}
  IN
  /\ "close" \in Faults
  /\ remote[t].pc # "closed"
  /\ tasks' = [k \in Task |-> IF k \in mine THEN [Idle EXCEPT !.pc = "closed"]
                              ELSE tasks[k]]
  /\ lockQueue' = Without(lockQueue, mine)
  /\ writeQueue' = [writeQueue EXCEPT ![t] = {}]
  /\ channel' = [p \in Tab \X Tab |-> IF p[2] = t THEN <<>> ELSE channel[p]]
  /\ remote' = [remote EXCEPT ![t] = [Quiet EXCEPT !.pc = "closed"]]
  /\ \E S \in SUBSET {k \in mine : At(k, "sent", {"refresh"})} :
       strays' = strays \cup {tasks[k].token : k \in S}
  /\ adrift' = adrift \cup {tasks[k].token.sid : k \in inDoubt}
  /\ UNCHANGED <<server, record, client, lastEvent, calls>>

--------------------------------------------------------------------------------
Work(k) ==
  \/ Acquire(k) \/ ReadSession(k) \/ ReadRevision(k)
  \/ ServeRefresh(k) \/ ServeSignIn(k) \/ ServeSignOut(k) \/ ServeUpdate(k)
  \/ Commit(k) \/ Clear(k) \/ UpdateRefused(k) \/ GetRecord(k) \/ SetItem(k)

Listen(t) ==
  \/ \E u \in Tab : RemoteBegin(u, t)
  \/ RemoteReadSession(t)
  \/ RemoteReadRevision(t)

Call(k) ==
  \/ BeginRefresh(k)
  \/ \E op \in Ops : BeginLatest(k, op)
  \/ \E s \in Session : BeginSignIn(k, s)

Next ==
  \/ \E k \in Task : Work(k) \/ Call(k) \/ LockTimeout(k)
       \/ Lose(k) \/ LoseSignOut(k)
  \/ \E t \in Tab : Listen(t) \/ Close(t)
  \/ \E token \in strays : ServeStray(token)
  \/ \E s \in Session : Revoke(s)

Spec == Init /\ [][Next]_vars

\* The event loop runs what is ready, and the server answers.
FairSpec ==
  /\ Spec
  /\ \A k \in Task : WF_vars(Work(k))
  /\ \A t \in Tab : WF_vars(Listen(t))

--------------------------------------------------------------------------------
(* Properties.                                                             *)

\* Every variable has its type.
TypeOK ==
  /\ server \in [Session -> [status : {"unused", "live", "revoked"}, gen : 0..MaxCalls]]
  /\ record \in [revision : Revision, session : Token \cup {None}]
  /\ currentSession \in [Tab -> Token \cup {None}]
  /\ lastRevision \in [Tab -> Revision]
  /\ localRevision \in [Tab -> Revision]
  /\ lastEvent \in [Tab -> [event : Event \cup {None}, revision : Revision]]
  /\ remote \in [Tab -> [pc : {"idle", "readSession", "readRevision", "closed"},
                         event : Event \cup {None}, previous : Revision]]
  /\ channel \in [Tab \X Tab -> Seq([event : Event, revision : Revision])]
  /\ lockQueue \subseteq Task \X Task
  /\ writeQueue \in [Tab -> SUBSET (Task \X Task)]
  /\ tasks \in [Task -> [pc : {"idle", "waiting", "readSession", "readRevision",
                               "sent", "replied", "queued", "writing", "closed"},
                         op : Ops \cup {"refresh"}, token : Token \cup {None},
                         ok : BOOLEAN, event : Event \cup {None}, revision : Revision]]
  /\ strays \subseteq Token
  /\ adrift \subseteq Session
  /\ calls \in 0..MaxCalls

\* The tabs never present a spent refresh token of a session they kept track
\* of: an honest browser does not trigger replay containment, whatever calls
\* run in whatever tabs.
NoHonestReplay ==
  \A k \in Task : LET token == tasks[k].token IN
    At(k, "sent", {"refresh"}) /\ Live(token.sid) /\ token.sid \notin adrift
      => token.gen = server[token.sid].gen

\* While a session is live and tracked, its newest token is in storage or in
\* the hands of the call that is about to store it: no write of another call
\* or tab ever puts an older one back.
NewestTokenKept ==
  \A s \in Session :
    Live(s) /\ s \notin adrift /\ Carries(record.session, s)
      => LET newest == [sid |-> s, gen |-> server[s].gen] IN
         \/ record.session = newest
         \/ \E k \in Task : /\ At(k, "replied", {"refresh"}) \/ At(k, "queued", {"refresh"})
                               \/ At(k, "writing", {"refresh"})
                           /\ tasks[k].token = newest

\* Every call returns, without the help of the lock timeout: no call waits for
\* ever for the lock, the write queue or another tab.
EveryCallReturns ==
  \A k \in Task : (tasks[k].pc # "idle") ~> (tasks[k].pc \in {"idle", "closed"})

\* Every step of the server, late and repeated requests included, is one the
\* family specification allows: the one the session store implements.
Family == INSTANCE SessionFamily WITH
  opened <- {s \in Session : server[s].status # "unused"},
  revoked <- {s \in Session : server[s].status = "revoked"},
  current <- [s \in Session |-> IF Live(s) THEN {[sid |-> s, gen |-> server[s].gen]}
                                ELSE {}],
  spent <- {token \in Token : \/ token.gen < server[token.sid].gen
                              \/ /\ server[token.sid].status = "revoked"
                                 /\ token.gen = server[token.sid].gen}

ServerKeepsPromise == [][Family!Next]_(Family!vars)

\* Updating the user leaves the stored credentials alone, as the unit test
\* "updates the stored user without changing session credentials" says.
CredentialsUnchanged ==
  [][\A k \in Task : At(k, "writing", {"updateUser"}) /\ SetItem(k)
       => record'.session = record.session]_vars
================================================================================
