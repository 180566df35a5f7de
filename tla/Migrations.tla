------------------------------ MODULE Migrations ------------------------------
(***************************************************************************)
(* The migration runner of packages/mrjim-auth/src/postgres: migrate.ts,   *)
(* the history rules of internal/migration-state.ts and manifest.ts, and   *)
(* verify.ts, over one database.                                           *)
(*                                                                         *)
(* A package carries an ordered manifest of SQL files; a later release     *)
(* should append to it.  A file is <<order, content>>: the order stands    *)
(* for its version too, the content for its checksum and the release that  *)
(* introduced it.  Several runners, of any release, work at once; each one *)
(* may lose its connection between any two statements.  What the files     *)
(* make of the schema is in Catalog; somebody may change it by hand, which *)
(* a verification is there to notice.                                      *)
(***************************************************************************)
EXTENDS Catalog

CONSTANTS
  Runner,        \* processes that migrate
  Verifier,      \* processes that verify
  Package,       \* the manifests: sequences of file contents
  Alterable,     \* the objects <<kind, object>> that are changed by hand
  None,
  MaxStarts      \* bound on the runs, verifications and changes of a behaviour

VARIABLES
  rows,          \* auth.schema_migrations, as committed
  schema,        \* the files whose statements have been committed
  altered,       \* the objects that are missing or not in the form a file gave them
  lock,          \* the runner whose session holds the advisory lock, or None
  runs,          \* migrate: one record per runner
  checks,        \* verifySchema: one record per verifier
  starts

vars == <<rows, schema, altered, lock, runs, checks, starts>>

\* The first n files of a manifest, and all of them.
Prefix(p, n) == {<<i, p[i]>> : i \in 1..n}
Files(p) == Prefix(p, Len(p))
File == UNION {Files(p) : p \in Package}

\* seen: the versions found in the history; next: the file in its transaction.
Run == [pc : {"idle", "lock", "read", "files", "sql", "insert", "commit", "unlock"},
        pkg : Package, seen : SUBSET Nat, next : Nat,
        applied : SUBSET File, ok : BOOLEAN]
\* read: the catalog queries made; drift: what was altered before the verification began
\* and no file has made anew since.
Check == [pc : {"idle", "catalog", "history"}, pkg : Package, read : 0..Len(Kinds),
          clean : SUBSET {"catalog", "history"}, drift : SUBSET Alterable]

ASSUME PackageAssumption == Package # {} /\ Package \subseteq Seq(Content)
ASSUME AlterableAssumption ==
  \A o \in Alterable : o[1] \in Kind /\ \E c \in Content : o[2] \in Makes[c][o[1]]
ASSUME StartsAssumption == MaxStarts \in Nat
ASSUME RunnerAssumption == None \notin Runner

-------------------------------------------------------------------------------
Orders(R) == {f[1] : f \in R}

\* Mutant: the recorded checksums are not compared.
ValidByOrder(R, p) == \E n \in 0..Len(p) : Orders(R) = 1..n
\* validateAppliedHistory: the i-th row is the i-th file, for every row there is.
Valid(R, p) == \E n \in 0..Len(p) : R = Prefix(p, n)

\* readMigrationStatuses for the i-th file of the manifest, and for a row it lacks.
Status(R, p, i) ==
  IF i \notin Orders(R) THEN "pending"
  ELSE IF Valid(R, p) THEN "applied"
  ELSE IF <<i, p[i]>> \notin R THEN "checksum_mismatch" ELSE "history_invalid"
Unexpected(R, p) == Orders(R) \ (1..Len(p))

\* Mutant: files that are still pending are not reported.
HistoryNotInvalid(R, p) == Valid(R, p)
\* The part of verifySchema that reads the history.
HistoryClean(R, p) ==
  Unexpected(R, p) = {} /\ \A i \in 1..Len(p) : Status(R, p, i) = "applied"

\* A runner of a release between two runs.
Idle(p) == [pc |-> "idle", pkg |-> p, seen |-> {}, next |-> 0, applied |-> {}, ok |-> FALSE]

\* The database is new, or some release has migrated it.
Init ==
  /\ \E p \in Package : \E n \in 0..Len(p) : rows = Prefix(p, n)
  /\ schema = rows /\ altered = {} /\ lock = None /\ starts = 0
  /\ runs \in [Runner -> {Idle(p) : p \in Package}]
  /\ checks \in [Verifier -> {[pc |-> "idle", pkg |-> p, read |-> 0, clean |-> {},
                               drift |-> {}] : p \in Package}]

-------------------------------------------------------------------------------
\* What a transaction has done is seen when it commits.
Database == <<rows, schema, altered>>
At(r, pc) == runs[r].pc = pc
Current(r) == <<runs[r].next, runs[r].pkg[runs[r].next]>>

Start(r) ==
  /\ At(r, "idle") /\ starts < MaxStarts
  /\ starts' = starts + 1
  /\ runs' = [runs EXCEPT ![r].pc = "lock"]
  /\ UNCHANGED <<Database, lock, checks>>

\* pg_advisory_lock waits for the session that holds the lock.
TakeLock(r) ==
  /\ At(r, "lock") /\ lock = None
  /\ lock' = r
  /\ runs' = [runs EXCEPT ![r].pc = "read"]
  /\ UNCHANGED <<Database, checks, starts>>

ReadHistory(r) ==
  /\ At(r, "read") /\ Valid(rows, runs[r].pkg)
  /\ runs' = [runs EXCEPT ![r].pc = "files", ![r].seen = Orders(rows)]
  /\ UNCHANGED <<Database, lock, checks, starts>>

\* Mutant: a refused run returns its connection with the lock.
RefuseLocked(r) ==
  /\ At(r, "read") /\ ~Valid(rows, runs[r].pkg)
  /\ runs' = [runs EXCEPT ![r] = Idle(runs[r].pkg)]
  /\ UNCHANGED <<Database, lock, checks, starts>>
\* A history that is no prefix of the manifest ends the run before it writes.
RefuseHistory(r) ==
  /\ At(r, "read") /\ ~Valid(rows, runs[r].pkg)
  /\ runs' = [runs EXCEPT ![r].pc = "unlock"]
  /\ UNCHANGED <<Database, lock, checks, starts>>

\* Mutant: the last file is forgotten.
PendingButLast(r) == (1..(Len(runs[r].pkg) - 1)) \ runs[r].seen
Pending(r) == (1..Len(runs[r].pkg)) \ runs[r].seen

\* BEGIN for the first pending file.
BeginFile(r) ==
  /\ At(r, "files")
  /\ \E i \in Pending(r) :
       /\ \A j \in Pending(r) : i <= j
       /\ runs' = [runs EXCEPT ![r].pc = "sql", ![r].next = i]
  /\ UNCHANGED <<Database, lock, checks, starts>>

\* Mutant: the statements of a file commit by themselves.
RunSqlAlone(r) ==
  /\ At(r, "sql") /\ Current(r) \notin schema
  /\ schema' = schema \cup {Current(r)}
  /\ runs' = [runs EXCEPT ![r].pc = "insert"]
  /\ UNCHANGED <<rows, altered, lock, checks, starts>>
\* The statements of the file succeed only once: they create what is not there.
RunSql(r) ==
  /\ At(r, "sql") /\ Current(r) \notin schema
  /\ runs' = [runs EXCEPT ![r].pc = "insert"]
  /\ UNCHANGED <<Database, lock, checks, starts>>

\* The version and the order of a row are unique.
InsertRow(r) ==
  /\ At(r, "insert") /\ runs[r].next \notin Orders(rows)
  /\ runs' = [runs EXCEPT ![r].pc = "commit"]
  /\ UNCHANGED <<Database, lock, checks, starts>>

\* What the transaction did becomes visible at once.
Commit(r) ==
  /\ schema' = schema \cup {Current(r)}
  /\ rows' = rows \cup {Current(r)}
  /\ LET made == {o \in Alterable : o[2] \in Makes[Current(r)[2]][o[1]]}
     IN /\ altered' = altered \ made
        /\ checks' = [v \in Verifier |-> [checks[v] EXCEPT !.drift = @ \ made]]

CommitFile(r) ==
  /\ At(r, "commit")
  /\ Commit(r)
  /\ runs' = [runs EXCEPT ![r].pc = "files", ![r].seen = @ \cup {runs[r].next},
                          ![r].applied = @ \cup {Current(r)}]
  /\ UNCHANGED <<lock, starts>>

\* A statement or the COMMIT is refused: ROLLBACK and MigrationError.
FileFails(r) ==
  /\ runs[r].pc \in {"sql", "insert", "commit"}
  /\ runs' = [runs EXCEPT ![r].pc = "unlock"]
  /\ UNCHANGED <<Database, lock, checks, starts>>

Finish(r) ==
  /\ At(r, "files") /\ Pending(r) = {}
  /\ runs' = [runs EXCEPT ![r].pc = "unlock", ![r].ok = TRUE]
  /\ UNCHANGED <<Database, lock, checks, starts>>

\* The finally block: unlock, release the connection, and return or throw.
Unlock(r) ==
  /\ At(r, "unlock")
  /\ lock' = None
  /\ runs' = [runs EXCEPT ![r] = Idle(runs[r].pkg)]
  /\ UNCHANGED <<Database, checks, starts>>

\* The connection is lost: the server rolls back and drops the session's lock.
Lose(r) ==
  /\ runs[r].pc \notin {"idle", "unlock"}
  /\ lock' = IF lock = r THEN None ELSE lock
  /\ runs' = [runs EXCEPT ![r] = Idle(runs[r].pkg)]
  /\ UNCHANGED <<Database, checks, starts>>

\* The connection is lost after the COMMIT, before its answer.
LoseAnswer(r) ==
  /\ At(r, "commit")
  /\ Commit(r)
  /\ lock' = IF lock = r THEN None ELSE lock
  /\ runs' = [runs EXCEPT ![r] = Idle(runs[r].pkg)]
  /\ UNCHANGED starts

-------------------------------------------------------------------------------
\* Somebody drops or changes an object of the schema, outside the migrations.
Alter(o) ==
  /\ starts < MaxStarts /\ o \notin altered
  /\ \E f \in schema : o[2] \in Makes[f[2]][o[1]]
  /\ altered' = altered \cup {o}
  /\ starts' = starts + 1
  /\ UNCHANGED <<rows, schema, lock, runs, checks>>

\* clean: the parts of the report without an error; verifySchema is ok when both are.
\* verifySchema takes no lock and makes its queries one after another.
StartCheck(v) ==
  /\ checks[v].pc = "idle" /\ starts < MaxStarts
  /\ starts' = starts + 1
  /\ checks' = [checks EXCEPT ![v].pc = "catalog", ![v].read = 0, ![v].clean = {"catalog"},
                              ![v].drift = altered]
  /\ UNCHANGED <<Database, lock, runs>>

\* Mutant: the objects there are are compared, those that are missing or changed are not.
MatchesByName(k, p) ==
  {x[1] : x \in Leaves(schema, k)} = {x[1] : x \in Leaves(Files(p), k)}
\* The objects of a kind are those a release's files leave, each in its form.
Matches(k, p) ==
  Leaves(schema, k) = Leaves(Files(p), k) /\ \A o \in altered : o[1] # k

ReadCatalog(v) ==
  LET k == Kinds[checks[v].read + 1]
  IN /\ checks[v].pc = "catalog" /\ checks[v].read < Len(Kinds)
     /\ checks' = [checks EXCEPT
          ![v].read = @ + 1, ![v].clean = IF Matches(k, checks[v].pkg) THEN @ ELSE {},
          ![v].pc = IF checks[v].read + 1 = Len(Kinds) THEN "history" ELSE @]
     /\ UNCHANGED <<Database, lock, runs, starts>>

ReadStatuses(v) ==
  /\ checks[v].pc = "history"
  /\ checks' = [checks EXCEPT
       ![v].pc = "idle",
       ![v].clean = IF HistoryClean(rows, checks[v].pkg) THEN @ \cup {"history"} ELSE @]
  /\ UNCHANGED <<Database, lock, runs, starts>>

Step(r) ==
  \/ TakeLock(r) \/ ReadHistory(r) \/ RefuseHistory(r) \/ BeginFile(r) \/ RunSql(r)
  \/ InsertRow(r) \/ CommitFile(r) \/ FileFails(r) \/ Finish(r) \/ Unlock(r)

Next ==
  \/ \E r \in Runner : Start(r) \/ Step(r) \/ Lose(r) \/ LoseAnswer(r)
  \/ \E o \in Alterable : Alter(o)
  \/ \E v \in Verifier : StartCheck(v) \/ ReadCatalog(v) \/ ReadStatuses(v)

\* The database answers every statement of a runner that stays connected.
Spec == Init /\ [][Next]_vars /\ \A r \in Runner : WF_vars(Step(r))

-------------------------------------------------------------------------------
TypeOK ==
  /\ rows \subseteq File /\ schema \subseteq File /\ altered \subseteq Alterable /\ lock \in Runner \cup {None}
  /\ runs \in [Runner -> Run] /\ checks \in [Verifier -> Check] /\ starts \in 0..MaxStarts

\* The history records exactly the files whose statements took effect, wherever a run
\* broke off.
HistoryIsTrue == rows = schema

\* Whatever releases migrated, the history is a prefix of one release's manifest: two
\* lines of releases never mix in one database.
HistoryIsAPrefix ==
  \E p \in Package : \E n \in 0..Len(p) : rows = Prefix(p, n)

\* No run fails because of another one: the file it runs is in nobody's way.
NoClash ==
  \A r \in Runner : runs[r].pc \in {"sql", "insert", "commit"} =>
    Current(r) \notin schema /\ runs[r].next \notin Orders(rows)

\* A run that reports success leaves the database at its release, and what it says it
\* applied is in the history.
SuccessIsComplete ==
  \A r \in Runner : /\ runs[r].applied \subseteq rows
                    /\ At(r, "unlock") /\ runs[r].ok => rows = Files(runs[r].pkg)

\* A verification that finds no error in the history has seen the whole release in it,
\* although migrations went on between its reads.
VerifiedIsComplete ==
  \A v \in Verifier : checks[v].pc = "idle" /\ "history" \in checks[v].clean =>
    Files(checks[v].pkg) \subseteq rows

\* A change of the schema by hand is found by every verification that begins after it,
\* unless a migration has made the object anew, whatever the migrations do meanwhile.
DriftIsSeen ==
  \A v \in Verifier : checks[v].pc = "idle" /\ "catalog" \in checks[v].clean =>
    checks[v].drift = {}

\* Every run ends, and so hands the lock on, even when it is refused or fails.
RunsEnd == \A r \in Runner : runs[r].pc # "idle" ~> runs[r].pc = "idle"
===============================================================================
