---------------------------------- MODULE Pkce ---------------------------------
(***************************************************************************)
(* The list of pending PKCE transactions that the tabs of a browser share  *)
(* (client/storage.ts, and its callers in client/auth-client.ts), under    *)
(* Web Locks.                                                              *)
(*                                                                         *)
(* Tabs run in processes of their own: every access to storage is a step.  *)
(* A reader that meets expired transactions writes the list back without   *)
(* them, and findPkce reads without the lock.  A tab runs one call at a    *)
(* time; any call may be given up at any step.                             *)
(***************************************************************************)
EXTENDS Sequences, SequencesExt, Naturals

CONSTANTS
  Tab,
  Transaction,   \* the transactions that may be started
  Capacity,      \* how many the list keeps (4 in the code)
  None           \* no transaction

Task == [pc : {"idle", "find", "found", "start", "exchange", "consume", "send"},
         transaction : Transaction \cup {None},
         \* what the last read returned and must still write back, if it had to drop
         \* expired transactions
         read : Seq(Transaction), dirty : BOOLEAN, reading : BOOLEAN]

VARIABLES
  list,      \* the stored list, oldest first
  started,   \* the transactions generated so far
  expired,   \* those past expiresAt
  holder,    \* the tab that holds the lock, or None
  tasks,     \* the call each tab runs
  sent       \* history: how often a verifier was sent to be exchanged

vars == <<list, started, expired, holder, tasks, sent>>

Idle == [pc |-> "idle", transaction |-> None, read |-> <<>>, dirty |-> FALSE,
         reading |-> TRUE]

Init ==
  /\ list = <<>>
  /\ started = {} /\ expired = {}
  /\ holder = None
  /\ tasks = [t \in Tab |-> Idle]
  /\ sent = [x \in Transaction |-> 0]

--------------------------------------------------------------------------------
Fresh(s) == SelectSeq(s, LAMBDA x : x \notin expired)
At(t, pc) == tasks[t].pc = pc
Goto(t, task) == tasks' = [tasks EXCEPT ![t] = task]

\* signInWithOAuth and linkIdentity: a new transaction, to be written under the lock.
BeginStart(t, x) ==
  /\ At(t, "idle") /\ x \notin started
  /\ started' = started \cup {x}
  /\ Goto(t, [Idle EXCEPT !.pc = "start", !.transaction = x])
  /\ UNCHANGED <<list, expired, holder, sent>>

\* exchangeCodeForSession, and the initialization from the URL.
BeginExchange(t) ==
  /\ At(t, "idle")
  /\ Goto(t, [Idle EXCEPT !.pc = "find"])
  /\ UNCHANGED <<list, started, expired, holder, sent>>

Acquire(t) ==
  /\ tasks[t].pc \in {"start", "exchange"}
  /\ holder = None
  /\ holder' = t
  /\ UNCHANGED <<list, started, expired, tasks, sent>>

\* findPkce reads without the lock; writePkce and consumePkce run under it.
MayUseStorage(t) ==
  \/ At(t, "find")
  \/ tasks[t].pc \in {"start", "exchange"} /\ holder = t

\* readPkceTransactions: getItem, and the choice of what has not expired.
Read(t) ==
  /\ MayUseStorage(t) /\ tasks[t].reading
  /\ Goto(t, [tasks[t] EXCEPT !.read = Fresh(list), !.dirty = Fresh(list) # list,
                              !.reading = FALSE])
  /\ UNCHANGED <<list, started, expired, holder, sent>>

\* ... and the list is written back if it got shorter.
WriteBack(t) ==
  /\ MayUseStorage(t) /\ tasks[t].dirty
  /\ list' = tasks[t].read
  /\ Goto(t, [tasks[t] EXCEPT !.dirty = FALSE])
  /\ UNCHANGED <<started, expired, holder, sent>>

HasRead(t, pc) == At(t, pc) /\ MayUseStorage(t) /\ ~tasks[t].reading /\ ~tasks[t].dirty

\* findPkce: the newest transaction, to be consumed if it has not expired.
Find(t) ==
  /\ HasRead(t, "find")
  /\ IF tasks[t].read = <<>> \/ Last(tasks[t].read) \in expired
     THEN Goto(t, Idle)
     ELSE Goto(t, [Idle EXCEPT !.pc = "exchange", !.transaction = Last(tasks[t].read)])
  /\ UNCHANGED <<list, started, expired, holder, sent>>

LastOnes(s) == SubSeq(s, (IF Len(s) > Capacity THEN Len(s) - Capacity ELSE 0) + 1, Len(s))

\* writePkce
Write(t) ==
  /\ HasRead(t, "start")
  /\ list' = LastOnes(Append(Fresh(tasks[t].read), tasks[t].transaction))
  /\ holder' = None
  /\ Goto(t, Idle)
  /\ UNCHANGED <<started, expired, sent>>

\* consumePkce: what is found is used, if it has not expired.
Consume(t) ==
  LET x == tasks[t].transaction IN
  /\ HasRead(t, "exchange")
  /\ list' = SelectSeq(tasks[t].read, LAMBDA y : y # x)
  /\ IF Contains(tasks[t].read, x) /\ x \notin expired
     THEN Goto(t, [Idle EXCEPT !.pc = "send", !.transaction = x]) /\ UNCHANGED holder
     ELSE Goto(t, Idle) /\ holder' = None
  /\ UNCHANGED <<started, expired, sent>>

\* The request to /exchange; the lock is held until it has been answered.
Send(t) ==
  /\ At(t, "send")
  /\ sent' = [sent EXCEPT ![tasks[t].transaction] = @ + 1]
  /\ holder' = None
  /\ Goto(t, Idle)
  /\ UNCHANGED <<list, started, expired>>

Expire(x) ==
  /\ x \in started \ expired
  /\ expired' = expired \cup {x}
  /\ UNCHANGED <<list, started, holder, tasks, sent>>

\* The tab is closed, or the call fails.
GiveUp(t) ==
  /\ ~At(t, "idle")
  /\ Goto(t, Idle)
  /\ holder' = IF holder = t THEN None ELSE holder
  /\ UNCHANGED <<list, started, expired, sent>>

Step(t) ==
  \/ \E x \in Transaction : BeginStart(t, x)
  \/ BeginExchange(t) \/ Acquire(t)
  \/ Read(t) \/ WriteBack(t) \/ Find(t) \/ Write(t) \/ Consume(t) \/ Send(t)
  \/ GiveUp(t)

Next == (\E t \in Tab : Step(t)) \/ (\E x \in Transaction : Expire(x))

Spec == Init /\ [][Next]_vars

--------------------------------------------------------------------------------
(* Properties.                                                             *)

\* Two tabs never both exchange one transaction: consumption is atomic.
ConsumedOnce == \A x \in Transaction : sent[x] <= 1
================================================================================
