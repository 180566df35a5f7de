---------------------------- MODULE MigrationsProof ----------------------------
(***************************************************************************)
(* Proofs about Migrations for any number of runners and verifiers, any    *)
(* set of releases and of objects changed by hand, and any bound on starts. *)
(***************************************************************************)
EXTENDS Migrations, TLAPS

InFile(r) == runs[r].pc \in {"sql", "insert", "commit"}

\* Only the holder of the lock is past taking it, and it knows the history.
RunOK(r) ==
  /\ runs[r].pc \in {"read", "files", "sql", "insert", "commit", "unlock"} => lock = r
  /\ runs[r].applied \subseteq rows
  /\ At(r, "unlock") /\ runs[r].ok => rows = Files(runs[r].pkg)
  /\ runs[r].ok => runs[r].pc = "unlock"
  /\ runs[r].pc = "files" \/ InFile(r) =>
       \E n \in 0..Len(runs[r].pkg) :
         /\ rows = Prefix(runs[r].pkg, n) /\ runs[r].seen = 1..n
         /\ InFile(r) => n < Len(runs[r].pkg) /\ runs[r].next = n + 1

\* What a verification has found so far was there, and stays: no object that it began with
\* altered is of a kind that it has read and found clean.
CheckOK(v) ==
  /\ checks[v].drift \subseteq altered
  /\ "catalog" \in checks[v].clean =>
       \A i \in 1..checks[v].read : \A o \in checks[v].drift : o[1] # Kinds[i]
  /\ checks[v].pc = "history" => checks[v].read = Len(Kinds)
  /\ checks[v].pc = "idle" /\ "catalog" \in checks[v].clean => checks[v].read = Len(Kinds)
  /\ "history" \in checks[v].clean => Files(checks[v].pkg) \subseteq rows

IInv ==
  /\ TypeOK /\ HistoryIsTrue /\ HistoryIsAPrefix
  /\ \A r \in Runner : RunOK(r)
  /\ \A v \in Verifier : CheckOK(v)

-------------------------------------------------------------------------------
\* The orders of a prefix, and the file that comes after it.
LEMMA PrefixFacts ==
  ASSUME NEW p \in Package, NEW n \in 0..Len(p)
  PROVE  /\ Orders(Prefix(p, n)) = 1..n
         /\ n < Len(p) => /\ Prefix(p, n + 1) = Prefix(p, n) \cup {<<n + 1, p[n + 1]>>}
                          /\ <<n + 1, p[n + 1]>> \notin Prefix(p, n)
                          /\ n + 1 \in 1..Len(p)
         /\ n = Len(p) => Prefix(p, n) = Files(p)
PROOF
  <1>1. p \in Seq(Content) /\ Len(p) \in Nat /\ n \in Nat
    BY PackageAssumption
  <1>2. Orders(Prefix(p, n)) = 1..n
    <2>1. \A i \in 1..n : <<i, p[i]>>[1] = i
      OBVIOUS
    <2>2. Orders(Prefix(p, n)) = {f[1] : f \in {<<i, p[i]>> : i \in 1..n}}
      BY DEF Orders, Prefix
    <2> QED
      BY <2>1, <2>2
  <1>3. ASSUME n < Len(p)
        PROVE  /\ Prefix(p, n + 1) = Prefix(p, n) \cup {<<n + 1, p[n + 1]>>}
               /\ <<n + 1, p[n + 1]>> \notin Prefix(p, n) /\ n + 1 \in 1..Len(p)
    <2>1. 1..(n + 1) = (1..n) \cup {n + 1} /\ n + 1 \notin 1..n
      BY <1>1
    <2> QED
      BY <1>1, <1>3, <2>1 DEF Prefix
  <1> QED
    BY <1>2, <1>3 DEF Files, Prefix

\* A step that writes no file and lets go of a lock only at its own runner.
Quiet(r) ==
  /\ UNCHANGED <<rows, schema, altered>>
  /\ \A x \in Runner : x # r => runs'[x] = runs[x] /\ (lock = x => lock' = x)

\* A step that leaves the database and the lock alone keeps what the runs rely on.
LEMMA QuietStep ==
  ASSUME IInv, TypeOK', NEW r \in Runner, Quiet(r), RunOK(r)', UNCHANGED checks
  PROVE  IInv'
PROOF
  <1>1. HistoryIsTrue' /\ HistoryIsAPrefix'
    BY DEF IInv, Quiet, HistoryIsTrue, HistoryIsAPrefix
  <1>2. ASSUME NEW x \in Runner PROVE RunOK(x)'
    <2>1. CASE x = r
      BY <2>1
    <2>2. CASE x # r
      <3>1. runs'[x] = runs[x] /\ rows' = rows /\ (lock = x => lock' = x) /\ RunOK(x)
        BY <2>2 DEF Quiet, IInv
      <3> QED
        BY <3>1 DEF RunOK, InFile, At
    <2> QED
      BY <2>1, <2>2
  <1>3. \A v \in Verifier : CheckOK(v)'
    BY DEF IInv, Quiet, CheckOK
  <1> QED
    BY <1>1, <1>2, <1>3 DEF IInv

-------------------------------------------------------------------------------
\* The steps of a run that write no file.
LEMMA CalmStep ==
  ASSUME IInv, TypeOK', NEW r \in Runner, UNCHANGED <<rows, schema, altered, checks>>,
         \/ Start(r) \/ TakeLock(r) \/ ReadHistory(r) \/ RefuseHistory(r) \/ BeginFile(r)
         \/ RunSql(r) \/ InsertRow(r) \/ FileFails(r) \/ Finish(r) \/ Unlock(r) \/ Lose(r)
  PROVE  IInv'
PROOF
  <1> USE DEF At
  <1>1. TypeOK /\ RunOK(r) /\ runs[r] \in Run /\ runs \in [Runner -> Run] /\ None \notin Runner
    BY RunnerAssumption DEF IInv, TypeOK
  <1>2. CASE Start(r)
    <2>0. /\ runs'[r].pc = "lock" /\ runs'[r].applied = runs[r].applied /\ ~runs'[r].ok
          /\ lock' = lock /\ \A x \in Runner : x # r => runs'[x] = runs[x]
      BY <1>1, <1>2 DEF Start, Run, RunOK
    <2>1. Quiet(r) /\ RunOK(r)'
      BY <1>1, <2>0 DEF Quiet, RunOK, InFile
    <2> QED
      BY <2>1, QuietStep
  <1>3. CASE TakeLock(r)
    <2>1. Quiet(r) /\ RunOK(r)'
      BY <1>1, <1>3 DEF TakeLock, Quiet, RunOK, InFile, Run
    <2> QED
      BY <2>1, QuietStep
  <1>4. CASE ReadHistory(r)
    <2>1. PICK n \in 0..Len(runs[r].pkg) : rows = Prefix(runs[r].pkg, n)
      BY <1>4 DEF ReadHistory, Valid
    <2>2. Orders(rows) = 1..n
      BY <1>1, <2>1, PrefixFacts DEF Run
    <2>3. runs'[r].pc = "files" /\ runs'[r].seen = 1..n /\ runs'[r].pkg = runs[r].pkg
          /\ runs'[r].applied = runs[r].applied
      BY <1>1, <1>4, <2>2 DEF ReadHistory, Run
    <2>4. Quiet(r) /\ RunOK(r)'
      BY <1>1, <1>4, <2>1, <2>3 DEF ReadHistory, Quiet, RunOK, InFile
    <2> QED
      BY <2>4, QuietStep
  <1>5. CASE RefuseHistory(r)
    <2>1. Quiet(r) /\ RunOK(r)'
      BY <1>1, <1>5 DEF RefuseHistory, Quiet, RunOK, InFile, Run
    <2> QED
      BY <2>1, QuietStep
  <1>6. CASE BeginFile(r)
    <2>1. PICK n \in 0..Len(runs[r].pkg) :
                rows = Prefix(runs[r].pkg, n) /\ runs[r].seen = 1..n
      BY <1>1, <1>6 DEF BeginFile, RunOK
    <2>2. PICK i \in Pending(r) :
            /\ \A j \in Pending(r) : i <= j
            /\ runs' = [runs EXCEPT ![r].pc = "sql", ![r].next = i]
      BY <1>6 DEF BeginFile
    <2>3. i = n + 1 /\ n < Len(runs[r].pkg)
      <3>1. runs[r].pkg \in Seq(Content)
        BY <1>1, PackageAssumption DEF Run
      <3>2. Len(runs[r].pkg) \in Nat /\ n \in Nat
        BY <3>1
      <3>3. i \in 1..Len(runs[r].pkg) /\ i \notin 1..n
        BY <2>1, <2>2 DEF Pending
      <3>4. n < Len(runs[r].pkg)
        BY <3>2, <3>3
      <3>5. n + 1 \in 1..Len(runs[r].pkg) /\ n + 1 \notin 1..n
        BY <3>2, <3>4
      <3>6. n + 1 \in Pending(r)
        BY <2>1, <3>5 DEF Pending
      <3>7. i <= n + 1
        BY <2>2, <3>6
      <3> QED
        BY <3>2, <3>3, <3>4, <3>7
    <2>4. runs'[r].pc = "sql" /\ runs'[r].next = n + 1 /\ runs'[r].seen = 1..n
          /\ runs'[r].pkg = runs[r].pkg /\ runs'[r].applied = runs[r].applied
          /\ runs'[r].ok = runs[r].ok
      BY <1>1, <2>1, <2>2, <2>3 DEF Run
    <2>5. ~runs[r].ok
      BY <1>1, <1>6 DEF BeginFile, RunOK
    <2>6. Quiet(r) /\ RunOK(r)'
      BY <1>1, <1>6, <2>1, <2>3, <2>4, <2>5 DEF BeginFile, Quiet, RunOK, InFile
    <2> QED
      BY <2>6, QuietStep
  <1>7. CASE RunSql(r) \/ InsertRow(r)
    <2>1. InFile(r) /\ InFile(r)' /\ runs'[r].pc \in {"insert", "commit"}
          /\ runs'[r] = [runs[r] EXCEPT !.pc = runs'[r].pc] /\ lock' = lock
          /\ \A x \in Runner : x # r => runs'[x] = runs[x]
      BY <1>1, <1>7 DEF RunSql, InsertRow, InFile, Run
    <2>2. runs'[r].next = runs[r].next /\ runs'[r].seen = runs[r].seen
          /\ runs'[r].pkg = runs[r].pkg /\ runs'[r].applied = runs[r].applied
          /\ runs'[r].ok = runs[r].ok
      BY <1>1, <2>1 DEF Run
    <2>3. Quiet(r) /\ RunOK(r)'
      BY <1>1, <2>1, <2>2 DEF Quiet, RunOK, InFile
    <2> QED
      BY <2>3, QuietStep
  <1>8. CASE FileFails(r)
    <2>1. runs'[r].pc = "unlock" /\ runs'[r].ok = runs[r].ok /\ runs'[r].applied = runs[r].applied
          /\ runs'[r].pkg = runs[r].pkg /\ lock' = lock
          /\ \A x \in Runner : x # r => runs'[x] = runs[x]
      BY <1>1, <1>8 DEF FileFails, Run
    <2>2. ~runs[r].ok
      BY <1>1, <1>8 DEF FileFails, RunOK, InFile
    <2>3. Quiet(r) /\ RunOK(r)'
      BY <1>1, <1>8, <2>1, <2>2 DEF FileFails, Quiet, RunOK, InFile
    <2> QED
      BY <2>3, QuietStep
  <1>9. CASE Finish(r)
    <2>1. PICK n \in 0..Len(runs[r].pkg) :
                rows = Prefix(runs[r].pkg, n) /\ runs[r].seen = 1..n
      BY <1>1, <1>9 DEF Finish, RunOK
    <2>2. n = Len(runs[r].pkg)
      <3>1. runs[r].pkg \in Seq(Content)
        BY <1>1, PackageAssumption DEF Run
      <3>2. n \in Nat /\ (n < Len(runs[r].pkg) => n + 1 \in Pending(r))
        BY <2>1, <3>1 DEF Pending
      <3> QED
        BY <1>9, <2>1, <3>1, <3>2 DEF Finish
    <2>3. rows = Files(runs[r].pkg)
      BY <1>1, <2>1, <2>2, PrefixFacts DEF Run
    <2>4. runs'[r].pc = "unlock" /\ runs'[r].applied = runs[r].applied
          /\ runs'[r].pkg = runs[r].pkg
      BY <1>1, <1>9 DEF Finish, Run
    <2>5. Quiet(r) /\ RunOK(r)'
      BY <1>1, <1>9, <2>3, <2>4 DEF Finish, Quiet, RunOK, InFile
    <2> QED
      BY <2>5, QuietStep
  <1>10. CASE Unlock(r) \/ Lose(r)
    <2>1. runs'[r].pc = "idle" /\ runs'[r].applied = {} /\ ~runs'[r].ok
      BY <1>1, <1>10 DEF Unlock, Lose, Idle
    <2>2. \A x \in Runner : x # r => runs'[x] = runs[x] /\ (lock = x => lock' = x)
      BY <1>1, <1>10 DEF Unlock, Lose, RunOK
    <2>3. Quiet(r) /\ RunOK(r)'
      BY <1>1, <2>1, <2>2 DEF Quiet, RunOK, InFile
    <2> QED
      BY <2>3, QuietStep
  <1> QED
    BY <1>2, <1>3, <1>4, <1>5, <1>6, <1>7, <1>8, <1>9, <1>10

-------------------------------------------------------------------------------
\* The two steps in which a transaction commits.
LEMMA CommitStep ==
  ASSUME IInv, TypeOK', NEW r \in Runner, CommitFile(r) \/ LoseAnswer(r)
  PROVE  IInv'
PROOF
  <1> USE DEF At
  <1>1. TypeOK /\ RunOK(r) /\ runs[r] \in Run /\ runs \in [Runner -> Run] /\ None \notin Runner
        /\ InFile(r) /\ runs[r].pc = "commit" /\ lock = r /\ rows = schema
    BY RunnerAssumption DEF IInv, TypeOK, HistoryIsTrue, CommitFile, LoseAnswer, RunOK, InFile
  <1>2. PICK n \in 0..Len(runs[r].pkg) :
          /\ rows = Prefix(runs[r].pkg, n) /\ runs[r].seen = 1..n
          /\ n < Len(runs[r].pkg) /\ runs[r].next = n + 1
    BY <1>1 DEF RunOK
  <1>3. rows' = rows \cup {<<n + 1, runs[r].pkg[n + 1]>>} /\ schema' = rows'
    BY <1>1, <1>2 DEF CommitFile, LoseAnswer, Commit, Current
  <1>4. runs[r].pkg \in Package /\ Len(runs[r].pkg) \in Nat /\ n \in Nat
        /\ n + 1 \in 0..Len(runs[r].pkg)
    <2>1. runs[r].pkg \in Package /\ runs[r].pkg \in Seq(Content)
      BY <1>1, PackageAssumption DEF Run
    <2> QED
      BY <1>2, <2>1
  <1>5. rows' = Prefix(runs[r].pkg, n + 1)
    BY <1>2, <1>3, <1>4, PrefixFacts
  <1>6. HistoryIsTrue' /\ HistoryIsAPrefix'
    BY <1>3, <1>4, <1>5 DEF HistoryIsTrue, HistoryIsAPrefix
  <1>7. ASSUME NEW x \in Runner PROVE RunOK(x)'
    <2>1. CASE x # r
      <3>1. runs'[x] = runs[x] /\ RunOK(x) /\ lock # x
        BY <1>1, <2>1 DEF CommitFile, LoseAnswer, IInv
      <3>2. runs[x].pc \in {"idle", "lock"}
        BY <1>1, <3>1 DEF RunOK, TypeOK, Run
      <3>3. runs'[x].applied \subseteq rows'
        BY <1>3, <3>1 DEF RunOK
      <3> QED
        BY <3>1, <3>2, <3>3 DEF RunOK, InFile
    <2>2. CASE x = r /\ CommitFile(r)
      <3>1. /\ runs'[r].pc = "files" /\ runs'[r].pkg = runs[r].pkg /\ runs'[r].ok = runs[r].ok
            /\ runs'[r].seen = 1..(n + 1) /\ lock' = r
            /\ runs'[r].applied = runs[r].applied \cup {<<n + 1, runs[r].pkg[n + 1]>>}
        <4>1. (1..n) \cup {n + 1} = 1..(n + 1)
          BY <1>4
        <4> QED
          BY <1>1, <1>2, <2>2, <4>1 DEF CommitFile, Current, Run
      <3>2. ~runs[r].ok
        BY <1>1 DEF RunOK
      <3>3. runs'[r].applied \subseteq rows'
        BY <1>1, <1>3, <3>1 DEF RunOK
      <3> QED
        BY <1>4, <1>5, <2>2, <3>1, <3>2, <3>3 DEF RunOK, InFile
    <2>3. CASE x = r /\ LoseAnswer(r)
      <3>1. runs'[r].pc = "idle" /\ runs'[r].applied = {} /\ ~runs'[r].ok
        BY <1>1, <2>3 DEF LoseAnswer, Idle
      <3> QED
        BY <2>3, <3>1 DEF RunOK, InFile
    <2> QED
      BY <1>1, <2>1, <2>2, <2>3 DEF CommitFile, LoseAnswer
  <1>8. ASSUME NEW v \in Verifier PROVE CheckOK(v)'
    <2> DEFINE made == {o \in Alterable : o[2] \in Makes[Current(r)[2]][o[1]]}
    <2>1. CheckOK(v) /\ rows \subseteq rows' /\ checks[v] \in Check
      BY <1>1, <1>3 DEF IInv, TypeOK
    <2>2. altered' = altered \ made /\ checks' = [x \in Verifier |-> [checks[x] EXCEPT !.drift = @ \ made]]
      BY DEF CommitFile, LoseAnswer, Commit
    <2>3. /\ checks'[v].drift = checks[v].drift \ made /\ checks'[v].pc = checks[v].pc
          /\ checks'[v].pkg = checks[v].pkg /\ checks'[v].read = checks[v].read
          /\ checks'[v].clean = checks[v].clean
      BY <2>1, <2>2 DEF Check
    <2> HIDE DEF made
    <2> QED
      BY <2>1, <2>2, <2>3 DEF CheckOK
  <1> QED
    BY <1>6, <1>7, <1>8 DEF IInv

\* A clean history names every file of the release.
LEMMA CleanHistory ==
  ASSUME NEW p \in Package, NEW R, HistoryClean(R, p)
  PROVE  Files(p) \subseteq R
PROOF
  <1>1. p \in Seq(Content) /\ Len(p) \in Nat
    BY PackageAssumption
  <1>2. ASSUME NEW i \in 1..Len(p) PROVE <<i, p[i]>> \in R
    <2>1. i \in Orders(R) /\ Valid(R, p)
      BY DEF HistoryClean, Status
    <2>2. PICK n \in 0..Len(p) : R = Prefix(p, n)
      BY <2>1 DEF Valid
    <2>3. i \in 1..n
      BY <2>1, <2>2, PrefixFacts
    <2> QED
      BY <2>2, <2>3 DEF Prefix
  <1> QED
    BY <1>2 DEF Files, Prefix

\* The steps of a verification.
LEMMA CheckStep ==
  ASSUME IInv, TypeOK', NEW v \in Verifier, StartCheck(v) \/ ReadCatalog(v) \/ ReadStatuses(v)
  PROVE  IInv'
PROOF
  <1>1. TypeOK /\ CheckOK(v) /\ checks[v] \in Check /\ checks \in [Verifier -> Check]
    BY DEF IInv, TypeOK
  <1>2. UNCHANGED <<rows, schema, altered, lock, runs>> /\ \A x \in Verifier : x # v => checks'[x] = checks[x]
    BY <1>1 DEF StartCheck, ReadCatalog, ReadStatuses, Database
  <1>3. CheckOK(v)'
    <2>1. CASE StartCheck(v)
      <3>1. /\ checks'[v].pc = "catalog" /\ checks'[v].clean = {"catalog"}
            /\ checks'[v].read = 0 /\ checks'[v].drift = altered
        BY <1>1, <2>1 DEF StartCheck, Check
      <3> QED
        BY <1>2, <3>1 DEF CheckOK
    <2>2. CASE ReadCatalog(v)
      <3> DEFINE n == checks[v].read
      <3>1. /\ checks'[v].read = n + 1 /\ checks'[v].pkg = checks[v].pkg
            /\ checks'[v].drift = checks[v].drift
            /\ checks'[v].clean = IF Matches(Kinds[n + 1], checks[v].pkg) THEN checks[v].clean ELSE {}
            /\ checks'[v].pc = IF n + 1 = Len(Kinds) THEN "history" ELSE checks[v].pc
            /\ checks[v].pc = "catalog" /\ n < Len(Kinds)
        BY <1>1, <2>2 DEF ReadCatalog, Check
      <3>2. n \in Nat /\ Len(Kinds) \in Nat
        BY <1>1 DEF Check, Kinds
      <3>3. "catalog" \in checks'[v].clean => \A o \in checks[v].drift : o[1] # Kinds[n + 1]
        BY <1>1, <3>1 DEF CheckOK, Matches
      <3>4. \A i \in 1..(n + 1) : i \in 1..n \/ i = n + 1
        BY <3>2
      <3> QED
        BY <1>1, <1>2, <3>1, <3>2, <3>3, <3>4 DEF CheckOK
    <2>3. CASE ReadStatuses(v)
      <3>1. /\ checks'[v].pc = "idle" /\ checks'[v].pkg = checks[v].pkg
            /\ checks'[v].read = checks[v].read /\ checks'[v].drift = checks[v].drift
            /\ checks'[v].clean = IF HistoryClean(rows, checks[v].pkg)
                                  THEN checks[v].clean \cup {"history"} ELSE checks[v].clean
        BY <1>1, <2>3 DEF ReadStatuses, Check
      <3>2. checks[v].pkg \in Package /\ checks[v].pc = "history"
        BY <1>1, <2>3 DEF ReadStatuses, Check
      <3> QED
        BY <1>1, <1>2, <3>1, <3>2, CleanHistory DEF CheckOK
    <2> QED
      BY <2>1, <2>2, <2>3
  <1>4. \A x \in Verifier : CheckOK(x)'
    <2>1. ASSUME NEW x \in Verifier, x # v PROVE CheckOK(x)'
      <3>1. CheckOK(x) /\ checks'[x] = checks[x]
        BY <1>2, <2>1 DEF IInv
      <3> QED
        BY <1>2, <3>1 DEF CheckOK
    <2> QED
      BY <1>3, <2>1
  <1>5. \A x \in Runner : RunOK(x)'
    BY <1>2 DEF IInv, RunOK, InFile, At
  <1> QED
    BY <1>2, <1>4, <1>5 DEF IInv, HistoryIsTrue, HistoryIsAPrefix

-------------------------------------------------------------------------------
\* A runner between two runs.
LEMMA IdleType ==
  ASSUME NEW q \in Package
  PROVE  Idle(q) \in Run
PROOF
  <1>1. {} \in SUBSET Nat /\ {} \in SUBSET File /\ 0 \in Nat
    OBVIOUS
  <1> QED
    BY <1>1 DEF Idle, Run

\* Every step keeps the types.
LEMMA TypeStep ==
  ASSUME IInv, [Next]_vars
  PROVE  TypeOK'
PROOF
  <1> USE DEF At
  <1>1. TypeOK /\ runs \in [Runner -> Run] /\ checks \in [Verifier -> Check]
    BY DEF IInv, TypeOK
  <1>2. CASE UNCHANGED vars
    BY <1>1, <1>2 DEF vars, TypeOK
  <1>3. ASSUME NEW r \in Runner,
               InFile(r) /\ (CommitFile(r) \/ LoseAnswer(r))
        PROVE  TypeOK'
    <2>1. Current(r) \in File /\ runs[r].next \in Nat
      <3>1. RunOK(r) /\ runs[r].pkg \in Package /\ runs[r].pkg \in Seq(Content)
        BY <1>1, PackageAssumption DEF IInv, Run
      <3>2. PICK n \in 0..Len(runs[r].pkg) :
                  n < Len(runs[r].pkg) /\ runs[r].next = n + 1
        BY <1>3, <3>1 DEF RunOK
      <3>3. runs[r].next \in 1..Len(runs[r].pkg)
        BY <3>1, <3>2
      <3>4. Current(r) \in Files(runs[r].pkg)
        BY <3>3 DEF Current, Files, Prefix
      <3> QED
        BY <3>1, <3>3, <3>4 DEF File
    <2>2. runs' \in [Runner -> Run]
      <3>1. CASE CommitFile(r)
        <4>1. /\ runs[r].seen \cup {runs[r].next} \in SUBSET Nat
              /\ runs[r].applied \cup {Current(r)} \in SUBSET File
          BY <1>1, <2>1 DEF Run
        <4> DEFINE new == [runs[r] EXCEPT !.pc = "files", !.seen = @ \cup {runs[r].next},
                                          !.applied = @ \cup {Current(r)}]
        <4>2. runs[r] \in Run
          BY <1>1
        <4>3. new \in Run
          BY <4>1, <4>2 DEF Run
        <4>4. runs' = [runs EXCEPT ![r] = new]
          BY <1>1, <3>1 DEF CommitFile
        <4> QED
          BY <1>1, <4>3, <4>4
      <3>2. CASE LoseAnswer(r)
        <4>1. runs[r].pkg \in Package
          BY <1>1 DEF Run
        <4> QED
          BY <1>1, <3>2, <4>1, IdleType DEF LoseAnswer
      <3> QED
        BY <1>3, <3>1, <3>2
    <2> DEFINE made == {o \in Alterable : o[2] \in Makes[Current(r)[2]][o[1]]}
    <2>3. /\ rows' = rows \cup {Current(r)} /\ schema' = schema \cup {Current(r)}
          /\ altered' = altered \ made /\ lock' \in Runner \cup {None} /\ starts' = starts
          /\ checks' = [x \in Verifier |-> [checks[x] EXCEPT !.drift = @ \ made]]
      BY <1>1, <1>3 DEF TypeOK, CommitFile, LoseAnswer, Commit
    <2> HIDE DEF made
    <2>4. checks' \in [Verifier -> Check]
      <3>1. ASSUME NEW v \in Verifier PROVE [checks[v] EXCEPT !.drift = @ \ made] \in Check
        <4>1. checks[v] \in Check /\ checks[v].drift \ made \in SUBSET Alterable
          BY <1>1 DEF Check
        <4> QED
          BY <4>1 DEF Check
      <3> QED
        BY <2>3, <3>1
    <2>5. rows' \subseteq File /\ schema' \subseteq File /\ altered' \subseteq Alterable
      BY <1>1, <2>1, <2>3 DEF TypeOK
    <2> QED
      BY <1>1, <2>2, <2>3, <2>4, <2>5 DEF TypeOK
  <1>4. ASSUME NEW r \in Runner,
               \/ TakeLock(r) \/ RefuseHistory(r) \/ RunSql(r) \/ InsertRow(r)
               \/ FileFails(r) \/ Finish(r)
        PROVE  TypeOK'
    BY <1>1, <1>4 DEF TypeOK, Database, TakeLock, RefuseHistory, RunSql, InsertRow, FileFails,
       Finish, Run
  <1>10. ASSUME NEW r \in Runner, Unlock(r) \/ Lose(r) PROVE TypeOK'
    <2>1. runs[r].pkg \in Package
      BY <1>1 DEF Run
    <2>2. runs' \in [Runner -> Run]
      BY <1>1, <1>10, <2>1, IdleType DEF Unlock, Lose
    <2> QED
      BY <1>1, <1>10, <2>2 DEF TypeOK, Unlock, Lose, Database
  <1>11. ASSUME NEW o \in Alterable, Alter(o) PROVE TypeOK'
    BY <1>1, <1>11, StartsAssumption DEF TypeOK, Alter
  <1>5. ASSUME NEW r \in Runner, Start(r) PROVE TypeOK'
    <2> DEFINE new == [runs[r] EXCEPT !.pc = "lock"]
    <2>0. new \in Run /\ runs' = [runs EXCEPT ![r] = new]
      BY <1>1, <1>5 DEF Start, Run
    <2>1. runs' \in [Runner -> Run]
      BY <1>1, <2>0
    <2>2. starts' \in 0..MaxStarts
      BY <1>1, <1>5, StartsAssumption DEF TypeOK, Start
    <2> QED
      BY <1>1, <1>5, <2>1, <2>2 DEF TypeOK, Start, Database
  <1>6. ASSUME NEW r \in Runner, ReadHistory(r) PROVE TypeOK'
    <2>1. runs[r].pkg \in Package /\ runs[r].pkg \in Seq(Content)
      BY <1>1, PackageAssumption DEF Run
    <2>2. PICK n \in 0..Len(runs[r].pkg) : rows = Prefix(runs[r].pkg, n)
      BY <1>6 DEF ReadHistory, Valid
    <2>3. Orders(rows) = 1..n
      BY <2>1, <2>2, PrefixFacts
    <2>4. Orders(rows) \in SUBSET Nat
      BY <2>3
    <2> DEFINE new == [runs[r] EXCEPT !.pc = "files", !.seen = Orders(rows)]
    <2>5. new \in Run
      BY <1>1, <2>4 DEF Run
    <2>6. runs' = [runs EXCEPT ![r] = new]
      BY <1>1, <1>6 DEF ReadHistory
    <2>7. runs' \in [Runner -> Run]
      BY <1>1, <2>5, <2>6
    <2> QED
      BY <1>1, <1>6, <2>7 DEF TypeOK, ReadHistory, Database
  <1>7. ASSUME NEW r \in Runner, BeginFile(r) PROVE TypeOK'
    <2>1. PICK i \in Pending(r) : runs' = [runs EXCEPT ![r].pc = "sql", ![r].next = i]
      BY <1>7 DEF BeginFile
    <2>2. i \in Nat
      BY <2>1 DEF Pending
    <2> DEFINE new == [runs[r] EXCEPT !.pc = "sql", !.next = i]
    <2>4. new \in Run /\ runs' = [runs EXCEPT ![r] = new]
      BY <1>1, <2>1, <2>2 DEF Run
    <2>3. runs' \in [Runner -> Run]
      BY <1>1, <2>4
    <2> QED
      BY <1>1, <1>7, <2>3 DEF TypeOK, BeginFile, Database
  <1>8. ASSUME NEW v \in Verifier, StartCheck(v) \/ ReadCatalog(v) \/ ReadStatuses(v)
        PROVE  TypeOK'
    <2>1. checks' \in [Verifier -> Check]
      <3>1. checks[v] \in Check /\ altered \in SUBSET Alterable
        BY <1>1 DEF TypeOK
      <3>2. CASE StartCheck(v)
        <4>1. 0 \in 0..Len(Kinds)
          BY DEF Kinds
        <4> DEFINE new == [checks[v] EXCEPT !.pc = "catalog", !.read = 0, !.clean = {"catalog"},
                                            !.drift = altered]
        <4>2. new \in Check
          BY <3>1, <4>1 DEF Check
        <4>3. checks' = [checks EXCEPT ![v] = new]
          BY <1>1, <3>2 DEF StartCheck
        <4> QED
          BY <1>1, <4>2, <4>3
      <3>3. CASE ReadCatalog(v)
        <4>1. checks[v].read + 1 \in 0..Len(Kinds)
          BY <3>1, <3>3 DEF ReadCatalog, Check, Kinds
        <4> DEFINE c == IF Matches(Kinds[checks[v].read + 1], checks[v].pkg)
                        THEN checks[v].clean ELSE {}
                   pc == IF checks[v].read + 1 = Len(Kinds) THEN "history" ELSE checks[v].pc
                   new == [checks[v] EXCEPT !.read = checks[v].read + 1, !.clean = c, !.pc = pc]
        <4>2. c \in SUBSET {"catalog", "history"} /\ pc \in {"idle", "catalog", "history"}
          BY <3>1 DEF Check
        <4>3. checks' = [checks EXCEPT ![v] = new]
          BY <1>1, <3>3 DEF ReadCatalog
        <4> HIDE DEF c, pc
        <4>4. new \in Check
          BY <3>1, <4>1, <4>2 DEF Check
        <4> HIDE DEF new
        <4> QED
          BY <1>1, <4>3, <4>4
      <3>4. CASE ReadStatuses(v)
        BY <1>1, <3>1, <3>4 DEF ReadStatuses, Check
      <3> QED
        BY <1>8, <3>2, <3>3, <3>4
    <2>2. starts' \in 0..MaxStarts
      BY <1>1, <1>8, StartsAssumption DEF TypeOK, StartCheck, ReadCatalog, ReadStatuses
    <2> QED
      BY <1>1, <1>8, <2>1, <2>2 DEF TypeOK, StartCheck, ReadCatalog, ReadStatuses, Database
  <1>9. \A r \in Runner : CommitFile(r) \/ LoseAnswer(r) => InFile(r)
    BY DEF CommitFile, LoseAnswer, InFile
  <1> QED
    BY <1>2, <1>3, <1>4, <1>5, <1>6, <1>7, <1>8, <1>9, <1>10, <1>11 DEF Next, Step

\* The invariant holds at the start.
LEMMA InitHolds == Init => IInv
PROOF
  <1> SUFFICES ASSUME Init PROVE IInv
    OBVIOUS
  <1>1. /\ runs \in [Runner -> {Idle(q) : q \in Package}]
        /\ checks \in [Verifier -> {[pc |-> "idle", pkg |-> q, read |-> 0, clean |-> {},
                                     drift |-> {}] : q \in Package}]
        /\ schema = rows /\ altered = {} /\ lock = None /\ starts = 0
    BY DEF Init
  <1>2. PICK p \in Package : \E n \in 0..Len(p) : rows = Prefix(p, n)
    BY DEF Init
  <1>3. TypeOK
    <2>1. runs \in [Runner -> Run]
      BY <1>1, IdleType
    <2>2. \A v \in Verifier : checks[v] \in Check
      <3>1. 0 \in 0..Len(Kinds)
        BY DEF Kinds
      <3> QED
        BY <1>1, <3>1 DEF Check
    <2>3. starts \in 0..MaxStarts
      BY <1>1, StartsAssumption
    <2>4. rows \subseteq File
      <3>1. p \in Seq(Content)
        BY PackageAssumption
      <3>2. PICK n \in 0..Len(p) : rows = Prefix(p, n)
        BY <1>2
      <3>3. Prefix(p, n) \subseteq Files(p)
        BY <3>1 DEF Prefix, Files
      <3> QED
        BY <3>2, <3>3 DEF File
    <2>5. checks \in [Verifier -> Check]
      BY <1>1, <2>2
    <2> QED
      BY <1>1, <2>1, <2>3, <2>4, <2>5 DEF TypeOK
  <1>6. HistoryIsTrue /\ HistoryIsAPrefix
    BY <1>1, <1>2 DEF HistoryIsTrue, HistoryIsAPrefix
  <1>4. \A r \in Runner : RunOK(r)
    <2>1. \A r \in Runner : runs[r].pc = "idle" /\ runs[r].applied = {} /\ ~runs[r].ok
      BY <1>1 DEF Idle
    <2> QED
      BY <2>1 DEF RunOK, InFile, At
  <1>5. \A v \in Verifier : CheckOK(v)
    BY <1>1 DEF CheckOK
  <1> QED
    BY <1>3, <1>4, <1>5, <1>6 DEF IInv

\* Every step keeps the invariant.
LEMMA NextHolds == IInv /\ [Next]_vars => IInv'
PROOF
  <1> SUFFICES ASSUME IInv, [Next]_vars PROVE IInv'
    OBVIOUS
  <1>1. TypeOK'
    BY TypeStep
  <1>2. CASE UNCHANGED vars
    BY <1>2 DEF vars, IInv, TypeOK, HistoryIsTrue, HistoryIsAPrefix, RunOK, CheckOK, InFile, At
  <1>3. ASSUME NEW r \in Runner, Start(r) \/ Step(r) \/ Lose(r) \/ LoseAnswer(r) PROVE IInv'
    <2>1. CASE CommitFile(r) \/ LoseAnswer(r)
      BY <1>1, <2>1, CommitStep
    <2>2. CASE \/ Start(r) \/ TakeLock(r) \/ ReadHistory(r) \/ RefuseHistory(r) \/ BeginFile(r)
               \/ RunSql(r) \/ InsertRow(r) \/ FileFails(r) \/ Finish(r) \/ Unlock(r) \/ Lose(r)
      <3>1. UNCHANGED <<rows, schema, altered, checks>>
        BY <2>2 DEF Start, TakeLock, ReadHistory, RefuseHistory, BeginFile, RunSql, InsertRow,
           FileFails, Finish, Unlock, Lose, Database
      <3> QED
        BY <1>1, <2>2, <3>1, CalmStep
    <2> QED
      BY <1>3, <2>1, <2>2 DEF Step
  <1>4. ASSUME NEW v \in Verifier, StartCheck(v) \/ ReadCatalog(v) \/ ReadStatuses(v) PROVE IInv'
    BY <1>1, <1>4, CheckStep
  <1>5. ASSUME NEW o \in Alterable, Alter(o) PROVE IInv'
    BY <1>1, <1>5 DEF Alter, IInv, HistoryIsTrue, HistoryIsAPrefix, RunOK, CheckOK, InFile, At
  <1> QED
    BY <1>2, <1>3, <1>4, <1>5 DEF Next

\* The invariant holds in every reachable state.
LEMMA Holds == Spec => []IInv
PROOF
  <1> QED
    BY InitHolds, NextHolds, PTL DEF Spec

-------------------------------------------------------------------------------
\* Every variable keeps its type.
THEOREM TypeCorrect == Spec => []TypeOK
PROOF
  <1>1. IInv => TypeOK
    BY DEF IInv
  <1> QED
    BY <1>1, Holds, PTL

\* Whatever runs break off, and wherever, the history names exactly the files whose
\* statements took effect: migrate.ts runs a file and records it in one transaction.
THEOREM HistoryTrue == Spec => []HistoryIsTrue
PROOF
  <1>1. IInv => HistoryIsTrue
    BY DEF IInv
  <1> QED
    BY <1>1, Holds, PTL

\* Runs of different releases never mix in one database: validateAppliedHistory refuses a
\* history that is no prefix of the manifest, under the lock that the writing holds.
THEOREM HistoryPrefix == Spec => []HistoryIsAPrefix
PROOF
  <1>1. IInv => HistoryIsAPrefix
    BY DEF IInv
  <1> QED
    BY <1>1, Holds, PTL

\* No file is run twice, and no run fails on what another one did.
THEOREM NoClashes == Spec => []NoClash
PROOF
  <1>1. IInv => NoClash
    <2> SUFFICES ASSUME IInv, NEW r \in Runner, InFile(r)
                 PROVE  Current(r) \notin schema /\ runs[r].next \notin Orders(rows)
      BY DEF NoClash, InFile
    <2>1. RunOK(r) /\ runs[r].pkg \in Package /\ rows = schema
      BY DEF IInv, TypeOK, Run, HistoryIsTrue
    <2>2. PICK n \in 0..Len(runs[r].pkg) : /\ rows = Prefix(runs[r].pkg, n)
                                           /\ n < Len(runs[r].pkg) /\ runs[r].next = n + 1
      BY <2>1 DEF RunOK
    <2>3. Orders(rows) = 1..n /\ <<n + 1, runs[r].pkg[n + 1]>> \notin rows
      BY <2>1, <2>2, PrefixFacts
    <2>4. n \in Nat
      BY <2>1, <2>2, PackageAssumption
    <2> QED
      BY <2>1, <2>2, <2>3, <2>4 DEF Current
  <1> QED
    BY <1>1, Holds, PTL

\* A run that reports success left the database at its release.
THEOREM SuccessComplete == Spec => []SuccessIsComplete
PROOF
  <1>1. IInv => SuccessIsComplete
    BY DEF IInv, RunOK, SuccessIsComplete
  <1> QED
    BY <1>1, Holds, PTL

\* A clean history of a verification names the whole release, although it holds no lock.
THEOREM VerifiedComplete == Spec => []VerifiedIsComplete
PROOF
  <1>1. IInv => VerifiedIsComplete
    BY DEF IInv, CheckOK, VerifiedIsComplete
  <1> QED
    BY <1>1, Holds, PTL

\* A change by hand, and what remains of it, is found by every verification that begins
\* after it: each kind of object that verify.ts compares is read after the beginning.
THEOREM DriftSeen == Spec => []DriftIsSeen
PROOF
  <1>1. IInv => DriftIsSeen
    <2> SUFFICES ASSUME IInv, NEW v \in Verifier, checks[v].pc = "idle",
                        "catalog" \in checks[v].clean, NEW o \in checks[v].drift
                 PROVE  FALSE
      BY DEF DriftIsSeen
    <2>1. CheckOK(v) /\ altered \subseteq Alterable
      BY DEF IInv, TypeOK
    <2>2. o[1] \in Kind
      BY <2>1, AlterableAssumption DEF CheckOK
    <2>3. PICK i \in 1..Len(Kinds) : o[1] = Kinds[i]
      BY <2>2 DEF Kind
    <2> QED
      BY <2>1, <2>3 DEF CheckOK
  <1> QED
    BY <1>1, Holds, PTL
===============================================================================
