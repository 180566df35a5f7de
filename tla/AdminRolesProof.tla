---------------------------- MODULE AdminRolesProof ----------------------------
(***************************************************************************)
(* Proofs about AdminRoles for any number of users, roles and handlers,    *)
(* and any bound on ranks and calls.                                       *)
(***************************************************************************)
EXTENDS AdminRoles, TLAPS, FiniteSetTheorems

\* The request of a transaction, and the phases its program counter goes with.
Shape(h) ==
  /\ txs[h].req.op = "assignRole" => txs[h].req.user \in User
  /\ txs[h].req.op = "createRole" => txs[h].pc \notin {"targets", "commit"}
  /\ txs[h].pc = "commit" => txs[h].req.op = "setRoleInheritance"
  /\ txs[h].pc = "authorize" <=> (txs[h].phase = "authorize" /\ txs[h].pc \notin {"assignments", "roles"})
  /\ txs[h].phase = "newRank" => txs[h].req.op = "updateRole" /\ txs[h].pc # "targets"
  /\ txs[h].pc \in {"assignments", "roles", "authorize"} => txs[h].req.actor # Trusted
  /\ txs[h].phase = "authorize" => ~txs[h].direct

\* The operation has locked its roles and the policy has let it pass.
Decided(h) ==
  /\ txs[h].req.op # "createRole"
  /\ txs[h].pc \in {"write", "commit"} \/ txs[h].phase = "newRank"

\* What the policy found stays so, for the rows it is about are locked.
Locked(h) ==
  Decided(h) =>
    /\ Targets(h) \subseteq live
    /\ \A r \in Targets(h) : roleLock[r] = h
    /\ txs[h].req.op = "deleteRole" => txs[h].req.role \notin System
    /\ txs[h].req.actor # Trusted => \A r \in Targets(h) :
         \E s \in Held(txs[h].req.actor) : roleLock[s] = h /\ rank[r] < rank[s]

\* assignedRolesForUpdate locks the actor's assignments, then their roles; the ranks it
\* returns are theirs.
Ranked(h) ==
  txs[h].req.actor # Trusted =>
    /\ txs[h].pc \in {"assignments", "roles"} =>
         \A r \in txs[h].ids : /\ r \in Held(txs[h].req.actor)
                             /\ holdLock[<<txs[h].req.actor, r>>] = h
    /\ txs[h].pc = "assignments" => \A r \in txs[h].ids : roleLock[r] = h
    /\ txs[h].pc \in {"authorize", "targets", "write", "commit"} =>
         /\ \A r \in txs[h].ids : roleLock[r] = h /\ r \in Held(txs[h].req.actor)
         /\ \A k \in txs[h].ranks : \E s \in txs[h].ids : rank[s] = k

\* The role on which #authorize found the permission is still the actor's.
Carried(h) ==
  txs[h].direct =>
    \E s \in Held(txs[h].req.actor) : roleLock[s] = h /\ s \in grants

\* A system role is taken from a user only when another one has it.
Counted(h) ==
  txs[h].pc = "write" /\ txs[h].req.op = "unassignRole" /\ txs[h].req.role \in System =>
    \E u \in User : u # txs[h].req.user /\ <<u, txs[h].req.role>> \in holds

\* The edges that the trigger has seen close no short circle.
Passed(h) == txs[h].pc = "commit" => NoShortCircle(Edges(h))

Row(h) ==
  txs[h] # None =>
    Shape(h) /\ Locked(h) /\ Ranked(h) /\ Carried(h) /\ Counted(h) /\ Passed(h)

IInv == TypeOK /\ NoShortCycle /\ \A h \in Handler : Row(h)
-------------------------------------------------------------------------------
\* Reach contains where it starts and follows every edge.
LEMMA ReachFollows ==
  ASSUME NEW S \in SUBSET Role, NEW E \in SUBSET (Role \X Role)
  PROVE  /\ S \subseteq Reach(S, E)
         /\ \A a, b \in Role : a \in Reach(S, E) /\ <<a, b>> \in E => b \in Reach(S, E)
PROOF
  <1>1. S \subseteq Reach(S, E)
    BY DEF Reach
  <1>2. ASSUME NEW a \in Role, NEW b \in Role, a \in Reach(S, E), <<a, b>> \in E
        PROVE  b \in Reach(S, E)
    <2>1. SUFFICES ASSUME NEW X \in SUBSET Role, S \subseteq X, \A e \in E : e[1] \in X => e[2] \in X
                   PROVE  b \in X
      BY DEF Reach
    <2>2. a \in X
      BY <1>2, <2>1 DEF Reach
    <2> QED
      BY <1>2, <2>1, <2>2
  <1> QED
    BY <1>1, <1>2

\* What the trigger accepts, added to edges without a short circle, closes none.
LEMMA TriggerSound ==
  ASSUME TypeOK, NoShortCycle, NEW h \in Handler, txs[h] # None,
         \A i \in txs[h].req.over : txs[h].req.role \notin Reach({i}, Edges(h))
  PROVE  NoShortCircle(Edges(h))
PROOF
  <1> DEFINE r == txs[h].req.role
             over == txs[h].req.over
             E == Edges(h)
  <1>1. r \in Role /\ over \in SUBSET Role /\ inherits \in SUBSET (Role \X Role)
    BY DEF TypeOK, Tx, Request
  <1>2. /\ E \in SUBSET (Role \X Role)
        /\ \A a, b \in Role : <<a, b>> \in E <=> IF a = r THEN b \in over ELSE <<a, b>> \in inherits
    BY <1>1 DEF Edges
  <1> HIDE DEF E
  <1>3. \A i \in over : r \notin Reach({i}, E)
    BY DEF E
  <1> HIDE DEF r, over
  <1>4. \A x \in over, y \in Role :
          x # r /\ <<x, r>> \notin E /\ ~(<<x, y>> \in E /\ <<y, r>> \in E)
    <2> TAKE x \in over, y \in Role
    <2>1. x \in Role /\ x \in Reach({x}, E)
          /\ \A a, b \in Role : a \in Reach({x}, E) /\ <<a, b>> \in E => b \in Reach({x}, E)
      BY <1>1, <1>2, ReachFollows
    <2> QED
      BY <2>1, <1>1, <1>3
  <1>5. NoShortCircle(inherits)
    BY DEF NoShortCycle
  <1>6. NoShortCircle(E)
    BY <1>1, <1>2, <1>4, <1>5 DEF NoShortCircle
  <1> QED
    BY <1>6 DEF E

-------------------------------------------------------------------------------
\* What a step does not do to a transaction g that does not take it: it takes no lock of
\* g's, writes no row that g has locked, and adds no edge at a role that g has locked.
Spares(g) ==
  /\ txs'[g] = txs[g]
  /\ \A r \in Role : roleLock[r] = g => roleLock'[r] = g
  /\ \A r \in live : roleLock[r] = g =>
       /\ r \in live' /\ rank'[r] = rank[r] /\ (r \in grants => r \in grants')
       /\ \A u \in User : <<u, r>> \in holds => <<u, r>> \in holds'
  /\ \A e \in holds : holdLock[e] = g => e \in holds' /\ holdLock'[e] = g
  /\ \A a, b \in Role : <<a, b>> \in inherits' /\ <<a, b>> \notin inherits =>
                        roleLock[a] # g /\ roleLock[b] # g

\* A transaction that a step spares may rely on what it relied on before.
LEMMA RowStable ==
  ASSUME TypeOK, TypeOK', NoShortCycle', NEW g \in Handler, Row(g), Spares(g)
  PROVE  Row(g)'
PROOF
  <1> SUFFICES ASSUME txs[g] # None
               PROVE  Row(g)'
    BY DEF Row, Spares
  <1>1. /\ txs'[g] = txs[g] /\ txs[g] \in Tx
        /\ Shape(g) /\ Locked(g) /\ Ranked(g) /\ Carried(g) /\ Counted(g) /\ Passed(g)
    BY DEF Row, Spares, TypeOK
  <1>2. /\ txs[g].req.role \in Role /\ txs[g].req.over \subseteq Role
        /\ txs[g].req.actor \in User \cup {Trusted} /\ txs[g].ids \subseteq Role
        /\ Targets(g) \subseteq Role
    BY <1>1 DEF Tx, Request, Targets
  <1>3. \A r \in Held(txs[g].req.actor) : roleLock[r] = g /\ txs[g].req.actor \in User =>
          /\ r \in Role /\ r \in Held(txs[g].req.actor)' /\ roleLock'[r] = g /\ rank'[r] = rank[r]
          /\ r \in grants => r \in grants'
    BY <1>1 DEF Held, Spares, TypeOK
  <1>4. Shape(g)'
    BY <1>1 DEF Shape
  <1>5. Locked(g)'
    <2>1. Targets(g)' = Targets(g) /\ Decided(g)' = Decided(g)
      BY <1>1 DEF Targets, Decided
    <2>2. CASE ~Decided(g)
      BY <2>1, <2>2 DEF Locked
    <2>3. CASE Decided(g)
      <3>1. Targets(g) \subseteq live' /\ \A r \in Targets(g) : roleLock'[r] = g /\ rank'[r] = rank[r]
        BY <1>1, <1>2, <2>3 DEF Locked, Spares
      <3>2. ASSUME txs[g].req.actor # Trusted, NEW r \in Targets(g)
            PROVE  \E s \in Held(txs[g].req.actor)' : roleLock'[s] = g /\ rank'[r] < rank'[s]
        <4>1. PICK s \in Held(txs[g].req.actor) : roleLock[s] = g /\ rank[r] < rank[s]
          BY <1>1, <2>3, <3>2 DEF Locked
        <4> QED
          BY <1>2, <1>3, <3>1, <3>2, <4>1
      <3> QED
        BY <1>1, <2>1, <2>3, <3>1, <3>2 DEF Locked, Held
    <2> QED
      BY <2>2, <2>3
  <1>6. Ranked(g)'
    <2> SUFFICES ASSUME txs[g].req.actor # Trusted
                 PROVE  Ranked(g)'
      BY <1>1 DEF Ranked
    <2>1. txs[g].req.actor \in User
      BY <1>2
    <2>2. ASSUME txs[g].pc \in {"assignments", "roles"}, NEW r \in txs[g].ids
          PROVE  r \in Held(txs[g].req.actor)' /\ holdLock'[<<txs[g].req.actor, r>>] = g
      BY <1>1, <2>2 DEF Ranked, Held, Spares
    <2>3. ASSUME NEW r \in txs[g].ids, roleLock[r] = g
          PROVE  roleLock'[r] = g
      BY <1>2, <2>3 DEF Spares
    <2>4. ASSUME txs[g].pc \in {"authorize", "targets", "write", "commit"}
          PROVE  /\ \A r \in txs[g].ids : roleLock'[r] = g /\ r \in Held(txs[g].req.actor)'
                 /\ \A k \in txs[g].ranks : \E s \in txs[g].ids : rank'[s] = k
      <3>1. \A r \in txs[g].ids : roleLock[r] = g /\ r \in Held(txs[g].req.actor)
        BY <1>1, <2>4 DEF Ranked
      <3>2. \A k \in txs[g].ranks : \E s \in txs[g].ids : rank[s] = k
        BY <1>1, <2>4 DEF Ranked
      <3> QED
        BY <1>3, <2>1, <3>1, <3>2
    <2>5. txs[g].pc = "assignments" => \A r \in txs[g].ids : roleLock'[r] = g
      BY <1>1, <2>3 DEF Ranked
    <2> QED
      BY <1>1, <2>2, <2>4, <2>5 DEF Ranked, Held
  <1>7. Carried(g)'
    <2> SUFFICES ASSUME txs[g].direct
                 PROVE  \E s \in Held(txs[g].req.actor)' : roleLock'[s] = g /\ s \in grants'
      BY <1>1 DEF Carried, Held
    <2>1. PICK s \in Held(txs[g].req.actor) : roleLock[s] = g /\ s \in grants
      BY <1>1 DEF Carried
    <2>2. txs[g].req.actor \in User
      BY <1>1, <1>2, <2>1, UserAssumption DEF Held, TypeOK
    <2> QED
      BY <1>3, <2>1, <2>2
  <1>8. Counted(g)'
    <2> SUFFICES ASSUME txs[g].pc = "write", txs[g].req.op = "unassignRole", txs[g].req.role \in System
                 PROVE  \E u \in User : u # txs[g].req.user /\ <<u, txs[g].req.role>> \in holds'
      BY <1>1 DEF Counted
    <2>1. PICK u \in User : u # txs[g].req.user /\ <<u, txs[g].req.role>> \in holds
      BY <1>1 DEF Counted
    <2>2. txs[g].req.role \in live /\ roleLock[txs[g].req.role] = g
      BY <1>1 DEF Locked, Decided, Targets
    <2> QED
      BY <2>1, <2>2 DEF Spares
  <1>9. Passed(g)'
    <2> SUFFICES ASSUME txs[g].pc = "commit"
                 PROVE  NoShortCircle(Edges(g))'
      BY <1>1 DEF Passed
    <2> DEFINE r == txs[g].req.role
               over == txs[g].req.over
    <2>1. NoShortCircle(Edges(g)) /\ NoShortCircle(inherits')
      BY <1>1 DEF Passed, NoShortCycle, NoShortCircle
    <2>2. roleLock[r] = g /\ (\A i \in over : roleLock[i] = g) /\ r \in Role /\ over \subseteq Role
      BY <1>1, <1>2 DEF Locked, Decided, Targets, Shape
    <2>3. \A a, b \in Role : <<a, b>> \in Edges(g) <=> IF a = r THEN b \in over ELSE <<a, b>> \in inherits
      BY <2>2 DEF Edges
    <2>4. \A a, b \in Role : <<a, b>> \in Edges(g)' <=> IF a = r THEN b \in over ELSE <<a, b>> \in inherits'
      BY <1>1, <2>2 DEF Edges
    <2>5. \A a, b \in Role : <<a, b>> \in inherits' /\ <<a, b>> \notin inherits =>
            a # r /\ b # r /\ a \notin over /\ b \notin over
      BY <2>2 DEF Spares
    <2> HIDE DEF r, over
    <2>6. ASSUME NEW a \in Role, NEW b \in Role, NEW c \in Role
          PROVE  /\ <<a, a>> \notin Edges(g)'
                 /\ ~(<<a, b>> \in Edges(g)' /\ <<b, a>> \in Edges(g)')
                 /\ ~(<<a, b>> \in Edges(g)' /\ <<b, c>> \in Edges(g)' /\ <<c, a>> \in Edges(g)')
      BY <2>1, <2>2, <2>3, <2>4, <2>5 DEF NoShortCircle
    <2> QED
      BY <2>6 DEF NoShortCircle
  <1> QED
    BY <1>4, <1>5, <1>6, <1>7, <1>8, <1>9 DEF Row

\* The writes of h: its own row goes, and the tables keep their types and no short circle.
Ending(h) ==
  /\ txs[h] # None /\ txs[h].pc \in {"write", "commit"} /\ Write(h) /\ Release(h)
  /\ txs[h].pc = "write" => /\ WantedHolds(h) = {} /\ Writable(h)
                            /\ txs[h].req.op # "setRoleInheritance"
  /\ UNCHANGED calls

\* The tables that the end of a transaction leaves keep their types and have no short circle.
LEMMA EndingTables ==
  ASSUME IInv, NEW h \in Handler, Ending(h)
  PROVE  TypeOK' /\ NoShortCycle' /\ \A g \in Handler : g # h => Spares(g)
PROOF
  <1> DEFINE r == txs[h].req.role
             q == txs[h].req
  <1>1. /\ txs[h] \in Tx /\ q \in Request /\ r \in Role /\ txs[h] # None
        /\ Shape(h) /\ Locked(h) /\ Passed(h)
    BY DEF IInv, Row, TypeOK, Ending, Tx, Request
  <1>2. /\ txs' = [txs EXCEPT ![h] = None]
        /\ roleLock' = [x \in Role |-> IF roleLock[x] = h THEN None ELSE roleLock[x]]
        /\ holdLock' = [e \in User \X Role |-> IF holdLock[e] = h THEN None ELSE holdLock[e]]
        /\ deleted' = deleted /\ calls' = calls
    BY DEF Ending, Release, Write
  <1>3. q.op # "createRole" =>
          r \in live /\ roleLock[r] = h /\ \A i \in q.over : i \in live /\ roleLock[i] = h
    BY <1>1 DEF Locked, Decided, Targets, Ending
  <1>4. q.op = "createRole" => r \notin live
    BY <1>1 DEF Shape, Ending, Writable
  <1>5. Doomed(h) \subseteq holds /\ \A e \in Doomed(h) : e[2] = r /\ holdLock[e] = h
    <2>1. Doomed(h) \subseteq holds /\ \A e \in Doomed(h) : e[2] = r
      BY DEF Doomed, IInv, TypeOK
    <2>2. CASE txs[h].pc = "write"
      <3>1. WantedHolds(h) = {e \in Doomed(h) : holdLock[e] # h}
        BY <1>1, <2>2 DEF WantedHolds
      <3> QED
        BY <2>1, <2>2, <3>1 DEF Ending
    <2>3. CASE txs[h].pc = "commit"
      BY <1>1, <2>1, <2>3 DEF Shape, Doomed
    <2> QED
      BY <2>1, <2>2, <2>3 DEF Ending
  <1>6. live' = (CASE q.op = "createRole" -> live \cup {r}
                   [] q.op = "deleteRole" -> live \ {r} [] OTHER -> live)
    BY DEF Ending, Write
  <1>7. rank' = IF q.op = "createRole" \/ q.op = "updateRole" THEN [rank EXCEPT ![r] = q.rank] ELSE rank
    BY DEF Ending, Write
  <1>8. /\ grants' \subseteq grants \cup {r} /\ \A x \in grants : x # r => x \in grants'
        /\ q.op = "deleteRole" => r \notin grants'
        /\ q.op = "createRole" => grants' = grants
    BY DEF Ending, Write
  <1>9. inherits' = (CASE q.op = "setRoleInheritance" -> Edges(h)
                       [] q.op = "deleteRole" -> {e \in inherits : e[1] # r /\ e[2] # r}
                       [] OTHER -> inherits)
    BY DEF Ending, Write
  <1>10. holds' = IF q.op = "assignRole" THEN holds \cup {<<q.user, r>>} ELSE holds \ Doomed(h)
    BY DEF Ending, Write
  <1>11. q.op = "assignRole" => q.user \in User
    BY <1>1 DEF Shape
  <1>12. q.op = "deleteRole" => \A e \in holds : e[2] = r => e \in Doomed(h)
    BY DEF Doomed
  <1>13. q.rank \in Rank /\ q.over \subseteq Role
    BY <1>1 DEF Request
  <1>14. Edges(h) = {e \in inherits : e[1] # r} \cup {<<r, i>> : i \in q.over}
    BY DEF Edges
  <1>15. txs[h].pc = "commit" <=> q.op = "setRoleInheritance"
    BY <1>1 DEF Shape, Ending
  <1>16. TypeOK
    BY DEF IInv
  <1> HIDE DEF r, q
  <1>17. TypeOK'
    <2>1. live' \subseteq Role /\ rank' \in [Role -> Rank]
      BY <1>1, <1>6, <1>7, <1>13, <1>16 DEF TypeOK
    <2>2. grants' \subseteq live'
      BY <1>3, <1>6, <1>8, <1>16 DEF TypeOK
    <2>3. inherits' \subseteq live' \X live'
      BY <1>3, <1>6, <1>9, <1>14, <1>16 DEF TypeOK
    <2>4. holds' \subseteq User \X live'
      BY <1>3, <1>6, <1>10, <1>11, <1>12, <1>16 DEF TypeOK
    <2>5. /\ roleLock' \in [Role -> Handler \cup {None}]
          /\ holdLock' \in [User \X Role -> Handler \cup {None}]
          /\ txs' \in [Handler -> Tx \cup {None}] /\ deleted' \subseteq User /\ calls' \in 0..MaxCalls
      BY <1>2, <1>16 DEF TypeOK
    <2> QED
      BY <2>1, <2>2, <2>3, <2>4, <2>5 DEF TypeOK
  <1>18. NoShortCycle'
    <2>1. CASE q.op = "setRoleInheritance"
      <3>1. NoShortCircle(Edges(h)) /\ inherits' = Edges(h)
        BY <1>1, <1>9, <1>15, <2>1 DEF Passed
      <3> QED
        BY <3>1 DEF NoShortCycle, NoShortCircle
    <2>2. CASE q.op # "setRoleInheritance"
      <3>1. inherits' \subseteq inherits
        BY <1>9, <2>2
      <3> QED
        BY <3>1 DEF NoShortCycle, NoShortCircle, IInv
    <2> QED
      BY <2>1, <2>2
  <1>19. ASSUME NEW g \in Handler, g # h
         PROVE  Spares(g)
    <2>1. txs'[g] = txs[g] /\ \A x \in Role : roleLock[x] = g => roleLock'[x] = g
      BY <1>2, <1>16, <1>19 DEF TypeOK
    <2>2. \A x \in live : roleLock[x] = g =>
            /\ x \in live' /\ rank'[x] = rank[x] /\ (x \in grants => x \in grants')
            /\ \A u \in User : <<u, x>> \in holds => <<u, x>> \in holds'
      <3> SUFFICES ASSUME NEW x \in live, roleLock[x] = g
                   PROVE  /\ x \in live' /\ rank'[x] = rank[x] /\ (x \in grants => x \in grants')
                          /\ \A u \in User : <<u, x>> \in holds => <<u, x>> \in holds'
        OBVIOUS
      <3>1. x # r /\ x \in Role
        BY <1>3, <1>4, <1>16, <1>19 DEF TypeOK
      <3>2. rank'[x] = rank[x]
        BY <3>1, <1>7, <1>16 DEF TypeOK
      <3>3. \A u \in User : <<u, x>> \notin Doomed(h)
        BY <3>1, <1>5
      <3> QED
        BY <3>1, <3>2, <3>3, <1>6, <1>8, <1>10
    <2>3. \A e \in holds : holdLock[e] = g => e \in holds' /\ holdLock'[e] = g
      BY <1>2, <1>5, <1>10, <1>16, <1>19 DEF TypeOK
    <2>4. \A a, b \in Role : <<a, b>> \in inherits' /\ <<a, b>> \notin inherits =>
                             roleLock[a] # g /\ roleLock[b] # g
      BY <1>3, <1>9, <1>14, <1>19
    <2> QED
      BY <2>1, <2>2, <2>3, <2>4 DEF Spares
  <1> QED
    BY <1>17, <1>18, <1>19

-------------------------------------------------------------------------------
\* A step that only changes h's row, its locks on rows that nobody has locked, or both.
Calm(h) ==
  /\ UNCHANGED <<live, rank, grants, inherits, holds>>
  /\ \A g \in Handler : g # h =>
       /\ txs'[g] = txs[g]
       /\ \A r \in Role : roleLock[r] = g => roleLock'[r] = g
       /\ \A e \in User \X Role : holdLock[e] = g => holdLock'[e] = g

\* A step that writes no table: the invariant holds again when the rows do.
LEMMA CalmStep ==
  ASSUME IInv, TypeOK', NEW h \in Handler, Calm(h), Row(h)'
  PROVE  IInv'
PROOF
  <1>1. NoShortCycle'
    BY DEF IInv, NoShortCycle, NoShortCircle, Calm
  <1>2. ASSUME NEW g \in Handler, g # h PROVE Row(g)'
    <2>1. Spares(g)
      BY <1>2 DEF Calm, Spares, IInv, TypeOK
    <2> QED
      BY <1>1, <2>1, RowStable DEF IInv
  <1> QED
    BY <1>1, <1>2 DEF IInv

\* Refusals and failures let everything go.
LEMMA ReleaseStep ==
  ASSUME IInv, NEW h \in Handler, Release(h), UNCHANGED <<tables, calls>>
  PROVE  IInv'
PROOF
  <1>1. TypeOK'
    BY DEF IInv, TypeOK, Release, tables
  <1>2. txs'[h] = None
    BY DEF IInv, TypeOK, Release
  <1>3. Calm(h)
    BY DEF IInv, TypeOK, Release, Calm, tables
  <1>4. Row(h)'
    BY <1>2 DEF Row
  <1> QED
    BY <1>1, <1>3, <1>4, CalmStep

\* A step that rewrites h's row and takes no lock.
LEMMA RowStep ==
  ASSUME IInv, NEW h \in Handler, NEW row \in Tx, txs' = [txs EXCEPT ![h] = row], Row(h)',
         UNCHANGED <<live, rank, grants, inherits, holds, deleted, roleLock, holdLock>>,
         calls' \in 0..MaxCalls
  PROVE  IInv'
PROOF
  <1>1. TypeOK'
    BY DEF IInv, TypeOK
  <1>2. Calm(h)
    BY DEF IInv, TypeOK, Calm
  <1> QED
    BY <1>1, <1>2, CalmStep

\* Begin knows nothing yet, so its row claims nothing.
LEMMA BeginStep ==
  ASSUME IInv, NEW h \in Handler, NEW q \in Requests, Begin(h, q)
  PROVE  IInv'
PROOF
  <1> DEFINE row == [pc |-> IF q.actor # Trusted THEN "assignments"
                            ELSE IF q.op = "createRole" THEN "write" ELSE "targets",
                     phase |-> IF q.actor # Trusted THEN "authorize" ELSE "mutate",
                     req |-> q, ids |-> {}, ranks |-> {}, direct |-> FALSE]
  <1>1. q \in Request /\ (q.op = "assignRole" => q.user \in User)
    BY DEF Requests, Request
  <1>2. row \in Tx /\ txs' = [txs EXCEPT ![h] = row] /\ txs'[h] = row
    BY <1>1 DEF Tx, Phase, Begin, IInv, TypeOK
  <1>3. Row(h)'
    <2>1. Shape(h)' /\ Carried(h)' /\ Passed(h)'
      BY <1>1, <1>2 DEF Shape, Carried, Passed
    <2>2. Locked(h)' /\ Counted(h)'
      BY <1>2 DEF Locked, Decided, Counted
    <2>3. Ranked(h)'
      BY <1>2 DEF Ranked
    <2> QED
      BY <2>1, <2>2, <2>3 DEF Row
  <1>4. calls' \in 0..MaxCalls
    BY BoundAssumption DEF Begin, IInv, TypeOK
  <1>5. UNCHANGED <<live, rank, grants, inherits, holds, deleted, roleLock, holdLock>>
    BY DEF Begin, tables
  <1> QED
    BY <1>2, <1>3, <1>4, <1>5, RowStep

\* Taking one more lock disturbs nobody.
LEMMA LockStep ==
  ASSUME IInv, NEW h \in Handler, LockAssignment(h) \/ LockRole(h)
  PROVE  IInv'
PROOF
  <1>1. UNCHANGED <<tables, txs, calls>>
    BY DEF LockAssignment, LockRole
  <1>2. \/ /\ holdLock[NextHold(h)] = None /\ holdLock' = [holdLock EXCEPT ![NextHold(h)] = h]
           /\ roleLock' = roleLock
        \/ /\ roleLock[NextRole(h)] = None /\ roleLock' = [roleLock EXCEPT ![NextRole(h)] = h]
           /\ holdLock' = holdLock
    BY DEF LockAssignment, LockRole
  <1>3. /\ roleLock' \in [Role -> Handler \cup {None}]
        /\ holdLock' \in [User \X Role -> Handler \cup {None}]
    BY <1>2 DEF IInv, TypeOK
  <1>4. TypeOK'
    BY <1>1, <1>3 DEF IInv, TypeOK, tables
  <1>5. ASSUME NEW g \in Handler
        PROVE  Spares(g)
    <2>1. /\ \A r \in Role : roleLock[r] = g => roleLock'[r] = g
          /\ \A e \in User \X Role : holdLock[e] = g => holdLock'[e] = g
      BY <1>2, NoneAssumption DEF IInv, TypeOK
    <2> QED
      BY <1>1, <2>1 DEF Spares, tables, IInv, TypeOK
  <1>6. NoShortCycle'
    BY <1>1 DEF IInv, NoShortCycle, NoShortCircle, tables
  <1> QED
    BY <1>4, <1>5, <1>6, RowStable DEF IInv

\* assignedRolesForUpdate: another round, or its answer.
LEMMA RereadStep ==
  ASSUME IInv, NEW h \in Handler, RereadAssignments(h)
  PROVE  IInv'
PROOF
  <1> DEFINE t == txs[h]
             own == Held(txs[h].req.actor)
  <1>1. t \in Tx /\ t # None /\ t.pc = "assignments" /\ t.req.actor \in User /\ t.req.actor # Trusted
        /\ Shape(h) /\ Locked(h) /\ Ranked(h) /\ Carried(h)
    <2>1. t \in Tx /\ t # None /\ t.pc = "assignments" /\ Shape(h) /\ Locked(h) /\ Ranked(h) /\ Carried(h)
      BY DEF RereadAssignments, IInv, TypeOK, Row
    <2> QED
      BY <2>1 DEF Shape, Tx, Request
  <1>2. \A r \in own : holdLock[<<t.req.actor, r>>] = h
    BY <1>1 DEF RereadAssignments, WantedHolds, Own, Held
  <1>3. own \subseteq Role /\ UNCHANGED <<live, rank, grants, inherits, holds, deleted, roleLock, holdLock, calls>>
    BY DEF Held, RereadAssignments, tables
  <1>4. calls' \in 0..MaxCalls
    BY <1>3 DEF IInv, TypeOK
  <1>5. CASE own # t.ids
    <2> DEFINE row == [t EXCEPT !.ids = own, !.pc = "roles"]
    <2>1. row \in Tx /\ txs' = [txs EXCEPT ![h] = row] /\ txs'[h] = row
      BY <1>1, <1>3, <1>5 DEF Tx, RereadAssignments, IInv, TypeOK
    <2>2. /\ row.pc = "roles" /\ row.ids = own /\ row.req = t.req /\ row.phase = t.phase
          /\ row.direct = t.direct
      BY <1>1 DEF Tx
    <2> HIDE DEF row
    <2>3. Shape(h)' /\ Passed(h)' /\ Counted(h)'
      BY <1>1, <2>1, <2>2 DEF Shape, Passed, Counted
    <2>4. Locked(h)'
      BY <1>1, <1>3, <2>1, <2>2 DEF Locked, Decided, Targets, Held
    <2>5. Ranked(h)'
      BY <1>2, <1>3, <2>1, <2>2 DEF Ranked, Held
    <2>6. Carried(h)'
      BY <1>1, <1>3, <2>1, <2>2 DEF Carried, Held
    <2>7. Row(h)'
      BY <2>3, <2>4, <2>5, <2>6 DEF Row
    <2> QED
      BY <1>3, <1>4, <2>1, <2>7, RowStep
  <1>6. CASE own = t.ids
    <2> DEFINE next == CASE t.phase = "authorize" -> "authorize"
                         [] t.phase = "mutate" /\ t.req.op # "createRole" -> "targets"
                         [] OTHER -> "write"
               row == [t EXCEPT !.ids = own, !.ranks = {rank[r] : r \in own}, !.pc = next]
    <2>1. {rank[r] : r \in own} \subseteq Rank
      BY <1>3 DEF IInv, TypeOK
    <2>2. row \in Tx /\ txs' = [txs EXCEPT ![h] = row] /\ txs'[h] = row
      BY <1>1, <1>3, <1>6, <2>1 DEF Tx, RereadAssignments, IInv, TypeOK
    <2>3. /\ row.pc = next /\ row.ids = own /\ row.req = t.req /\ row.phase = t.phase
          /\ row.direct = t.direct /\ row.ranks = {rank[r] : r \in own}
      BY <1>1 DEF Tx
    <2> HIDE DEF row
    <2>4. Shape(h)' /\ Passed(h)'
      BY <1>1, <2>2, <2>3 DEF Shape, Passed, Tx, Phase
    <2>5. Counted(h)'
      BY <1>1, <2>2, <2>3 DEF Counted, Shape, Tx, Phase
    <2>6a. Held(txs[h].req.actor)' = own /\ Targets(h)' = Targets(h)
      <3>1. txs'[h].req = t.req /\ holds' = holds
        BY <1>3, <2>2, <2>3
      <3>2. Held(txs[h].req.actor)' = own
        BY <3>1 DEF Held
      <3>3. Targets(h)' = Targets(h)
        BY <3>1 DEF Targets
      <3> QED
        BY <3>2, <3>3
    <2> HIDE DEF own
    <2>6. Locked(h)'
      <3> SUFFICES ASSUME Decided(h)'
                   PROVE  Locked(h)'
        BY DEF Locked
      <3>1. Decided(h)
        BY <1>1, <2>2, <2>3 DEF Decided, Tx, Phase
      <3>2. /\ Targets(h) \subseteq live /\ \A r \in Targets(h) : roleLock[r] = h
            /\ t.req.op = "deleteRole" => t.req.role \notin System
            /\ \A r \in Targets(h) : \E s \in own : roleLock[s] = h /\ rank[r] < rank[s]
        BY <1>1, <3>1 DEF Locked, own
      <3> QED
        BY <1>3, <2>2, <2>3, <2>6a, <3>2 DEF Locked
    <2>7. Ranked(h)'
      <3>1. \A r \in own : roleLock[r] = h
        BY <1>1, <1>6 DEF Ranked
      <3>2. \A k \in row.ranks : \E s \in own : rank[s] = k
        BY <2>3
      <3>3. row.pc \notin {"assignments", "roles"}
        BY <1>1, <2>3 DEF Tx, Phase
      <3> QED
        BY <1>3, <2>2, <2>3, <2>6a, <3>1, <3>2, <3>3 DEF Ranked
    <2>8. Carried(h)'
      BY <1>1, <1>3, <2>2, <2>3, <2>6a DEF Carried, own
    <2>9. Row(h)'
      BY <2>4, <2>5, <2>6, <2>7, <2>8 DEF Row
    <2> QED
      BY <1>3, <1>4, <2>2, <2>9, RowStep
  <1> QED
    BY <1>5, <1>6

\* What IInv says of the row of a transaction in flight.
LEMMA RowFacts ==
  ASSUME IInv, NEW h \in Handler, txs[h] # None
  PROVE  /\ txs[h] \in Tx
         /\ Shape(h) /\ Locked(h) /\ Ranked(h) /\ Carried(h) /\ Counted(h) /\ Passed(h)
         /\ calls \in 0..MaxCalls
PROOF BY DEF IInv, TypeOK, Row

\* What an operation is about depends on its request alone, and who holds what on the table.
LEMMA SameRequest ==
  ASSUME NEW h \in Handler, txs'[h].req = txs[h].req, holds' = holds
  PROVE  Held(txs[h].req.actor)' = Held(txs[h].req.actor) /\ Targets(h)' = Targets(h)
PROOF BY DEF Held, Targets

\* The roles read are locked; the assignments are read again.
LEMMA RolesLockedStep ==
  ASSUME IInv, NEW h \in Handler, RolesLocked(h)
  PROVE  IInv'
PROOF
  <1> DEFINE t == txs[h]
             row == [t EXCEPT !.pc = "assignments"]
  <1>1. t # None /\ t.pc = "roles"
    BY DEF RolesLocked
  <1>2. /\ t \in Tx /\ calls \in 0..MaxCalls
        /\ Shape(h) /\ Locked(h) /\ Ranked(h) /\ Carried(h)
    BY <1>1, RowFacts
  <1>3. UNCHANGED <<live, rank, grants, inherits, holds, deleted, roleLock, holdLock, calls>>
    BY DEF RolesLocked, tables
  <1>4. row \in Tx /\ txs' = [txs EXCEPT ![h] = row] /\ txs'[h] = row
    BY <1>2 DEF Tx, RolesLocked, Goto, IInv, TypeOK
  <1>5. /\ row.pc = "assignments" /\ row.ids = t.ids /\ row.req = t.req /\ row.phase = t.phase
        /\ row.direct = t.direct
    BY <1>2 DEF Tx
  <1>6. t.req.actor # Trusted => \A r \in t.ids : roleLock[r] = h
    BY <1>1, <1>2 DEF RolesLocked, WantedRoles, Mine, Ranked, Held, IInv, TypeOK
  <1> HIDE DEF row
  <1>7. Shape(h)' /\ Passed(h)' /\ Counted(h)'
    BY <1>1, <1>2, <1>4, <1>5 DEF Shape, Passed, Counted
  <1>7a. Held(txs[h].req.actor)' = Held(t.req.actor) /\ Targets(h)' = Targets(h)
    BY <1>3, <1>4, <1>5, SameRequest
  <1>8. Locked(h)'
    <2> SUFFICES ASSUME Decided(h)'
                 PROVE  Locked(h)'
      BY DEF Locked
    <2>1. Decided(h)
      BY <1>1, <1>2, <1>4, <1>5 DEF Decided
    <2> QED
      BY <1>2, <1>3, <1>4, <1>5, <1>7a, <2>1 DEF Locked
  <1>9. Ranked(h)'
    BY <1>1, <1>2, <1>3, <1>4, <1>5, <1>6 DEF Ranked, Held
  <1>10. Carried(h)'
    BY <1>2, <1>3, <1>4, <1>5 DEF Carried, Held
  <1>11. Row(h)'
    BY <1>7, <1>8, <1>9, <1>10 DEF Row
  <1> QED
    BY <1>2, <1>3, <1>4, <1>11, RowStep

\* The permission found rests on roles that are locked.
LEMMA AuthorizeStep ==
  ASSUME IInv, NEW h \in Handler, Authorize(h)
  PROVE  IInv'
PROOF
  <1> DEFINE t == txs[h]
             found == t.ids \cap grants # {}
             row == [t EXCEPT !.pc = "assignments", !.phase = "mutate", !.ids = {}, !.direct = found]
  <1>1. t # None /\ t.pc = "authorize"
    BY DEF Authorize
  <1>2. t \in Tx /\ calls \in 0..MaxCalls /\ Shape(h) /\ Ranked(h)
    BY <1>1, RowFacts
  <1>3. UNCHANGED <<live, rank, grants, inherits, holds, deleted, roleLock, holdLock, calls>>
    BY DEF Authorize, tables
  <1>4. row \in Tx /\ txs' = [txs EXCEPT ![h] = row] /\ txs'[h] = row
    BY <1>2 DEF Tx, Phase, Authorize, IInv, TypeOK
  <1>5. /\ row.pc = "assignments" /\ row.ids = {} /\ row.req = t.req /\ row.phase = "mutate"
        /\ row.direct = found
    BY <1>2 DEF Tx, Phase
  <1>6. t.req.actor # Trusted
    BY <1>1, <1>2 DEF Shape
  <1> HIDE DEF row
  <1>7. Shape(h)' /\ Passed(h)' /\ Counted(h)' /\ Locked(h)'
    BY <1>2, <1>4, <1>5, <1>6 DEF Shape, Passed, Counted, Locked, Decided
  <1>8. Ranked(h)'
    BY <1>4, <1>5 DEF Ranked
  <1>9. Carried(h)'
    <2> SUFFICES ASSUME found
                 PROVE  \E s \in Held(txs[h].req.actor)' : roleLock'[s] = h /\ s \in grants'
      BY <1>4, <1>5 DEF Carried
    <2>1. PICK s \in t.ids : s \in grants
      OBVIOUS
    <2>2. s \in Held(t.req.actor) /\ roleLock[s] = h
      BY <1>1, <1>2, <1>6 DEF Ranked
    <2> QED
      BY <1>3, <1>4, <1>5, <2>1, <2>2, SameRequest
  <1>10. Row(h)'
    BY <1>7, <1>8, <1>9 DEF Row
  <1> QED
    BY <1>2, <1>3, <1>4, <1>10, RowStep

\* Two users hold a role when its count of holders is above one.
LEMMA AnotherHolder ==
  ASSUME NEW r, NEW x, Cardinality({u \in User : <<u, r>> \in holds}) > 1
  PROVE  \E u \in User : u # x /\ <<u, r>> \in holds
PROOF
  <1> DEFINE S == {u \in User : <<u, r>> \in holds}
  <1>1. IsFiniteSet(S)
    BY UserAssumption, FS_Subset
  <1>2. SUFFICES ASSUME S \subseteq {x}
                 PROVE  FALSE
    OBVIOUS
  <1> HIDE DEF S
  <1>3. IsFiniteSet({x}) /\ Cardinality({x}) = 1
    BY FS_Singleton
  <1>4. Cardinality(S) <= 1 /\ Cardinality(S) \in Nat
    BY <1>1, <1>2, <1>3, FS_Subset, FS_CardinalityType
  <1> QED
    BY <1>4 DEF S

\* What the policy demanded holds of locked rows, so it stays true.
LEMMA DecideStep ==
  ASSUME IInv, NEW h \in Handler, Decide(h)
  PROVE  IInv'
PROOF
  <1> DEFINE t == txs[h]
             q == txs[h].req
  <1>1. t # None /\ t.pc = "targets" /\ WantedRoles(h) = {} /\ Permitted(h)
    BY DEF Decide
  <1>2. /\ t \in Tx /\ calls \in 0..MaxCalls
        /\ Shape(h) /\ Ranked(h) /\ Carried(h)
    BY <1>1, RowFacts
  <1>3. UNCHANGED <<live, rank, grants, inherits, holds, deleted, roleLock, holdLock, calls>>
    BY DEF Decide, tables
  <1>4. Targets(h) \subseteq live /\ \A r \in Targets(h) : roleLock[r] = h
    BY <1>1 DEF Permitted, WantedRoles, Mine, IInv, TypeOK
  <1>5. q.op = "deleteRole" => q.role \notin System
    BY <1>1 DEF Permitted
  <1>6. q.actor # Trusted => \A r \in Targets(h) :
          \E s \in Held(q.actor) : roleLock[s] = h /\ rank[r] < rank[s]
    <2> SUFFICES ASSUME q.actor # Trusted, NEW r \in Targets(h)
                 PROVE  \E s \in Held(q.actor) : roleLock[s] = h /\ rank[r] < rank[s]
      OBVIOUS
    <2>1. PICK k \in t.ranks : k > rank[r]
      BY <1>1 DEF Permitted, Outranks
    <2>2. PICK s \in t.ids : rank[s] = k
      BY <1>1, <1>2 DEF Ranked
    <2>3. roleLock[s] = h /\ s \in Held(q.actor)
      BY <1>1, <1>2 DEF Ranked
    <2>4. k \in Int /\ rank[r] \in Int
      BY <1>2, <1>4 DEF Tx, Rank, IInv, TypeOK
    <2> QED
      BY <2>1, <2>2, <2>3, <2>4
  <1>7. q.op = "unassignRole" /\ q.role \in System =>
          \E u \in User : u # q.user /\ <<u, q.role>> \in holds
    <2>1. q.op = "unassignRole" /\ q.role \in System => Cardinality({u \in User : <<u, q.role>> \in holds}) > 1
      BY <1>1 DEF Permitted
    <2> QED
      BY <2>1, AnotherHolder
  <1>8. CASE q.op = "updateRole" /\ q.actor # Trusted
    <2> DEFINE row == [t EXCEPT !.pc = "assignments", !.phase = "newRank", !.ids = {}]
    <2>1. row \in Tx /\ txs' = [txs EXCEPT ![h] = row] /\ txs'[h] = row
      BY <1>2, <1>8 DEF Tx, Phase, Decide, IInv, TypeOK
    <2>2. /\ row.pc = "assignments" /\ row.ids = {} /\ row.req = q /\ row.phase = "newRank"
          /\ row.direct = t.direct
      BY <1>2 DEF Tx, Phase
    <2> HIDE DEF row
    <2>3. Held(q.actor)' = Held(q.actor) /\ Targets(h)' = Targets(h)
      BY <1>3, <2>1, <2>2, SameRequest
    <2>4. Shape(h)' /\ Passed(h)' /\ Counted(h)'
      BY <1>2, <1>8, <2>1, <2>2 DEF Shape, Passed, Counted
    <2>5. Locked(h)'
      BY <1>3, <1>4, <1>5, <1>6, <2>1, <2>2, <2>3 DEF Locked
    <2>6. Ranked(h)'
      BY <2>1, <2>2 DEF Ranked
    <2>7. Carried(h)'
      BY <1>2, <1>3, <2>1, <2>2, <2>3 DEF Carried
    <2>8. Row(h)'
      BY <2>4, <2>5, <2>6, <2>7 DEF Row
    <2> QED
      BY <1>2, <1>3, <2>1, <2>8, RowStep
  <1>9. CASE ~(q.op = "updateRole" /\ q.actor # Trusted)
    <2> DEFINE row == [t EXCEPT !.pc = "write"]
    <2>1. row \in Tx /\ txs' = [txs EXCEPT ![h] = row] /\ txs'[h] = row
      BY <1>2, <1>9 DEF Tx, Decide, Goto, IInv, TypeOK
    <2>2. /\ row.pc = "write" /\ row.ids = t.ids /\ row.ranks = t.ranks /\ row.req = q
          /\ row.phase = t.phase /\ row.direct = t.direct
      BY <1>2 DEF Tx
    <2> HIDE DEF row
    <2>3. Held(q.actor)' = Held(q.actor) /\ Targets(h)' = Targets(h)
      BY <1>3, <2>1, <2>2, SameRequest
    <2>4. Shape(h)' /\ Passed(h)'
      BY <1>1, <1>2, <2>1, <2>2 DEF Shape, Passed
    <2>5. Counted(h)'
      <3>1. txs'[h].req = q /\ holds' = holds
        BY <1>3, <2>1, <2>2
      <3>2. q.op = "unassignRole" /\ q.role \in System =>
              \E u \in User : u # txs'[h].req.user /\ <<u, txs'[h].req.role>> \in holds'
        BY <1>7, <3>1
      <3> QED
        BY <3>1, <3>2 DEF Counted
    <2>6. Locked(h)'
      BY <1>3, <1>4, <1>5, <1>6, <2>1, <2>2, <2>3 DEF Locked
    <2>7. Ranked(h)'
      BY <1>1, <1>2, <1>3, <2>1, <2>2, <2>3 DEF Ranked
    <2>8. Carried(h)'
      BY <1>2, <1>3, <2>1, <2>2, <2>3 DEF Carried
    <2>9. Row(h)'
      BY <2>4, <2>5, <2>6, <2>7, <2>8 DEF Row
    <2> QED
      BY <1>2, <1>3, <2>1, <2>9, RowStep
  <1> QED
    BY <1>8, <1>9

\* What the trigger accepted stays acyclic: edits that could close a circle wait.
LEMMA GuardStep ==
  ASSUME IInv, NEW h \in Handler, Guard(h)
  PROVE  IInv'
PROOF
  <1> DEFINE t == txs[h]
             q == txs[h].req
             row == [t EXCEPT !.pc = "commit"]
  <1>1. t # None /\ t.pc = "write" /\ q.op = "setRoleInheritance"
        /\ \A i \in q.over : q.role \notin Reach({i}, Edges(h))
    BY DEF Guard
  <1>2. /\ t \in Tx /\ calls \in 0..MaxCalls
        /\ Shape(h) /\ Locked(h) /\ Ranked(h) /\ Carried(h)
    BY <1>1, RowFacts
  <1>3. UNCHANGED <<live, rank, grants, inherits, holds, deleted, roleLock, holdLock, calls>>
    BY DEF Guard, tables
  <1>4. row \in Tx /\ txs' = [txs EXCEPT ![h] = row] /\ txs'[h] = row
    BY <1>2 DEF Tx, Guard, Goto, IInv, TypeOK
  <1>5. /\ row.pc = "commit" /\ row.ids = t.ids /\ row.ranks = t.ranks /\ row.req = q
        /\ row.phase = t.phase /\ row.direct = t.direct
    BY <1>2 DEF Tx
  <1>6. NoShortCircle(Edges(h))
    BY <1>1, TriggerSound DEF IInv
  <1> HIDE DEF row
  <1>7. Held(q.actor)' = Held(q.actor) /\ Targets(h)' = Targets(h)
    BY <1>3, <1>4, <1>5, SameRequest
  <1>8. Shape(h)' /\ Counted(h)'
    BY <1>1, <1>2, <1>4, <1>5 DEF Shape, Counted
  <1>9. Passed(h)'
    <2>1. Edges(h)' = Edges(h)
      BY <1>3, <1>4, <1>5 DEF Edges
    <2> QED
      BY <1>6, <2>1 DEF Passed, NoShortCircle
  <1>10. Locked(h)'
    <2>1. Decided(h)
      BY <1>1 DEF Decided
    <2> QED
      BY <1>2, <1>3, <1>4, <1>5, <1>7, <2>1 DEF Locked
  <1>11. Ranked(h)'
    BY <1>1, <1>2, <1>3, <1>4, <1>5, <1>7 DEF Ranked
  <1>12. Carried(h)'
    BY <1>2, <1>3, <1>4, <1>5, <1>7 DEF Carried
  <1>13. Row(h)'
    BY <1>8, <1>9, <1>10, <1>11, <1>12 DEF Row
  <1> QED
    BY <1>2, <1>3, <1>4, <1>13, RowStep

\* Commits, refusals and failures.
LEMMA EndingStep ==
  ASSUME IInv, NEW h \in Handler, Ending(h)
  PROVE  IInv'
PROOF
  <1>1. TypeOK' /\ NoShortCycle' /\ \A g \in Handler : g # h => Spares(g)
    BY EndingTables
  <1>2. ASSUME NEW g \in Handler PROVE Row(g)'
    <2>1. CASE g = h
      BY <2>1 DEF Ending, Release, Row, IInv, TypeOK
    <2>2. CASE g # h
      BY <1>1, <2>2, RowStable DEF IInv
    <2> QED
      BY <2>1, <2>2
  <1> QED
    BY <1>1, <1>2 DEF IInv

\* The deletion of a user touches no role.
LEMMA DeleteUserStep ==
  ASSUME IInv, NEW u \in User, DeleteUser(u)
  PROVE  IInv'
PROOF
  <1>1. UNCHANGED <<live, rank, grants, inherits, holds, roleLock, holdLock, txs>>
    BY DEF DeleteUser
  <1>2. TypeOK'
    BY <1>1, BoundAssumption DEF DeleteUser, IInv, TypeOK
  <1>3. NoShortCycle'
    BY <1>1 DEF IInv, NoShortCycle, NoShortCircle
  <1>4. \A g \in Handler : Spares(g)
    BY <1>1 DEF Spares, IInv, TypeOK
  <1> QED
    BY <1>2, <1>3, <1>4, RowStable DEF IInv

-------------------------------------------------------------------------------
\* Whatever tables a behaviour starts from satisfy the invariant.
THEOREM InitHolds == Init => IInv
PROOF
  <1> SUFFICES ASSUME Init PROVE IInv
    OBVIOUS
  <1>1. TypeOK
    BY SeedsAssumption, BoundAssumption DEF Init, TypeOK
  <1>2. NoShortCycle
    BY SeedsAssumption DEF Init, NoShortCycle, NoShortCircle
  <1>3. \A h \in Handler : Row(h)
    BY DEF Init, Row
  <1> QED
    BY <1>1, <1>2, <1>3 DEF IInv

\* Every step of every transaction, and a deletion of a user, keeps the invariant.
THEOREM NextHolds == IInv /\ [Next]_vars => IInv'
PROOF
  <1> SUFFICES ASSUME IInv, [Next]_vars PROVE IInv'
    OBVIOUS
  <1>1. ASSUME NEW h \in Handler, Step(h) PROVE IInv'
    <2>1. CASE LockAssignment(h) \/ LockRole(h)
      BY <2>1, LockStep
    <2>2. CASE RereadAssignments(h)
      BY <2>2, RereadStep
    <2>3. CASE RolesLocked(h)
      BY <2>3, RolesLockedStep
    <2>4. CASE Authorize(h)
      BY <2>4, AuthorizeStep
    <2>5. CASE Deny(h) \/ Refuse(h) \/ RefuseWrite(h) \/ GuardFails(h) \/ Abort(h)
      BY <2>5, ReleaseStep DEF Deny, Refuse, RefuseWrite, GuardFails, Abort
    <2>6. CASE Decide(h)
      BY <2>6, DecideStep
    <2>7. CASE Guard(h)
      BY <2>7, GuardStep
    <2>8. CASE Finish(h) \/ Commit(h)
      BY <2>8, EndingStep DEF Finish, Commit, Ending
    <2> QED
      BY <1>1, <2>1, <2>2, <2>3, <2>4, <2>5, <2>6, <2>7, <2>8 DEF Step
  <1>2. ASSUME NEW h \in Handler, Fail(h) PROVE IInv'
    BY <1>2, ReleaseStep DEF Fail
  <1>3. ASSUME NEW h \in Handler, NEW q \in Requests, Begin(h, q) PROVE IInv'
    BY <1>3, BeginStep
  <1>4. ASSUME NEW u \in User, DeleteUser(u) PROVE IInv'
    BY <1>4, DeleteUserStep
  <1>5. CASE UNCHANGED vars
    <2>1. \A h \in Handler : Spares(h)
      BY <1>5 DEF Spares, vars, tables, IInv, TypeOK
    <2>2. TypeOK' /\ NoShortCycle'
      BY <1>5 DEF vars, tables, IInv, TypeOK, NoShortCycle, NoShortCircle
    <2> QED
      BY <2>1, <2>2, RowStable DEF IInv
  <1> QED
    BY <1>1, <1>2, <1>3, <1>4, <1>5 DEF Next

\* The tables keep their types; in particular no grant, edge or assignment outlives its role.
THEOREM TypeCorrect == Spec => []TypeOK
PROOF
  <1>1. IInv => TypeOK
    BY DEF IInv
  <1> QED
    BY <1>1, InitHolds, NextHolds, PTL DEF Spec

\* However edits of the inheritance interleave, no circle of at most three roles commits.
THEOREM NoShortCycles == Spec => []NoShortCycle
PROOF
  <1>1. IInv => NoShortCycle
    BY DEF IInv
  <1> QED
    BY <1>1, InitHolds, NextHolds, PTL DEF Spec

\* Every step but an ending one leaves the roles, grants, edges and assignments alone.
LEMMA OnlyEndingsWrite ==
  ASSUME [Next]_vars
  PROVE  \/ \E h \in Handler : Ending(h)
         \/ /\ UNCHANGED <<live, rank, grants, inherits, holds>>
            /\ UNCHANGED deleted \/ UNCHANGED txs
PROOF
  <1>1. ASSUME NEW h \in Handler, Finish(h) \/ Commit(h) PROVE Ending(h)
    BY <1>1 DEF Finish, Commit, Ending
  <1>2. ASSUME NEW h \in Handler, Step(h), ~(Finish(h) \/ Commit(h))
        PROVE  UNCHANGED <<live, rank, grants, inherits, holds>> /\ (UNCHANGED deleted \/ UNCHANGED txs)
    BY <1>2 DEF Step, LockAssignment, LockRole, RereadAssignments, RolesLocked, Authorize, Deny,
                Decide, Refuse, RefuseWrite, Guard, GuardFails, Abort, tables
  <1>3. ASSUME NEW h \in Handler, Fail(h) \/ \E q \in Requests : Begin(h, q)
        PROVE  UNCHANGED <<live, rank, grants, inherits, holds>> /\ (UNCHANGED deleted \/ UNCHANGED txs)
    BY <1>3 DEF Fail, Begin, tables
  <1>4. ASSUME NEW u \in User, DeleteUser(u)
        PROVE  UNCHANGED <<live, rank, grants, inherits, holds>> /\ (UNCHANGED deleted \/ UNCHANGED txs)
    BY <1>4 DEF DeleteUser
  <1>5. CASE UNCHANGED vars
    BY <1>5 DEF vars, tables
  <1> QED
    BY <1>1, <1>2, <1>3, <1>4, <1>5 DEF Next

\* A system role that has a holder always keeps one.
THEOREM SystemRolesKept == Spec => SystemRoleKept
PROOF
  <1> DEFINE Kept == \A r \in System : (\E u \in User : <<u, r>> \in holds) =>
                                       (\E u \in User : <<u, r>> \in holds')
  <1>1. IInv /\ [Next]_vars => Kept
    <2> SUFFICES ASSUME IInv, [Next]_vars, NEW r \in System, NEW u \in User, <<u, r>> \in holds
                 PROVE  \E x \in User : <<x, r>> \in holds'
      OBVIOUS
    <2>1. ASSUME NEW h \in Handler, Ending(h) PROVE \E x \in User : <<x, r>> \in holds'
      <3>1. /\ txs[h] # None /\ txs[h].pc \in {"write", "commit"} /\ txs[h] \in Tx
            /\ Shape(h) /\ Locked(h) /\ Counted(h)
        BY <2>1, RowFacts DEF Ending
      <3>2. holds' = IF txs[h].req.op = "assignRole"
                     THEN holds \cup {<<txs[h].req.user, txs[h].req.role>>} ELSE holds \ Doomed(h)
        BY <2>1 DEF Ending, Write
      <3>3. CASE txs[h].req.op = "unassignRole" /\ txs[h].req.role = r
        <4>1. PICK x \in User : x # txs[h].req.user /\ <<x, r>> \in holds
          BY <3>1, <3>3 DEF Counted, Shape
        <4> QED
          BY <3>2, <3>3, <4>1 DEF Doomed
      <3>4. CASE ~(txs[h].req.op = "unassignRole" /\ txs[h].req.role = r)
        <4>1. txs[h].req.op = "deleteRole" => txs[h].req.role # r
          BY <3>1 DEF Locked, Decided
        <4>2. <<u, r>> \notin Doomed(h)
          BY <3>4, <4>1 DEF Doomed
        <4> QED
          BY <3>2, <4>2
      <3> QED
        BY <3>3, <3>4
    <2> QED
      BY <2>1, OnlyEndingsWrite
  <1> QED
    BY <1>1, InitHolds, NextHolds, PTL DEF Spec, SystemRoleKept

\* A user's committed edit is one that the user outranks at that moment.
THEOREM EditsEntitled == Spec => EditsAreEntitled
PROOF
  <1> DEFINE Below(h, k) == \E s \in Held(txs[h].req.actor) : k < rank[s]
             Entitled(h) ==
               /\ \A r \in Role : Edited(r) =>
                    (r \in live => Below(h, rank[r])) /\ (r \in live' => Below(h, rank'[r]))
               /\ \A e \in inherits' \ inherits : Below(h, rank[e[2]])
               /\ tables # tables' /\ txs[h].direct => Held(txs[h].req.actor) \cap grants # {}
  <1>1. ASSUME IInv, NEW h \in Handler, Ending(h), txs[h].req.actor # Trusted
        PROVE  Entitled(h)
    <2> DEFINE q == txs[h].req
               role == txs[h].req.role
    <2>1. /\ txs[h] # None /\ txs[h].pc \in {"write", "commit"} /\ txs[h] \in Tx
          /\ Shape(h) /\ Locked(h) /\ Ranked(h) /\ Carried(h)
      BY <1>1, RowFacts DEF Ending
    <2>2. q.op # "createRole" => \A r \in {role} \cup q.over : r \in live /\ Below(h, rank[r])
      BY <1>1, <2>1 DEF Locked, Decided, Targets
    <2>3. q.op = "createRole" => role \notin live
      BY <1>1, <2>1 DEF Shape, Ending, Writable
    <2>4. q.op \in {"createRole", "updateRole"} => Below(h, q.rank)
      <3> SUFFICES ASSUME q.op \in {"createRole", "updateRole"}
                   PROVE  Below(h, q.rank)
        OBVIOUS
      <3>1. PICK k \in txs[h].ranks : k > q.rank
        BY <1>1, <2>1 DEF Shape, Ending, Writable, Outranks
      <3>2. PICK s \in txs[h].ids : rank[s] = k
        BY <1>1, <2>1 DEF Ranked
      <3>3. s \in Held(q.actor) /\ k \in Int /\ q.rank \in Int
        BY <1>1, <2>1 DEF Ranked, Tx, Request, Rank
      <3> QED
        BY <3>1, <3>2, <3>3
    <2>5. rank' = IF q.op = "createRole" \/ q.op = "updateRole" THEN [rank EXCEPT ![role] = q.rank] ELSE rank
      BY <1>1 DEF Ending, Write
    <2>6. inherits' = (CASE q.op = "setRoleInheritance" -> Edges(h)
                         [] q.op = "deleteRole" -> {e \in inherits : e[1] # role /\ e[2] # role}
                         [] OTHER -> inherits)
      BY <1>1 DEF Ending, Write
    <2>7. live' = (CASE q.op = "createRole" -> live \cup {role}
                     [] q.op = "deleteRole" -> live \ {role} [] OTHER -> live)
      BY <1>1 DEF Ending, Write
    <2>8. rank \in [Role -> Rank] /\ inherits \subseteq live \X live /\ role \in Role
      BY <1>1, <2>1 DEF IInv, TypeOK, Tx, Request
    <2>9. ASSUME NEW r \in Role, r # role PROVE ~Edited(r)
      <3>1. (r \in live <=> r \in live') /\ rank'[r] = rank[r]
        BY <2>5, <2>7, <2>8, <2>9
      <3>2. r \in grants <=> r \in grants'
        BY <1>1, <2>9 DEF Ending, Write
      <3>3. \A u \in User : <<u, r>> \in holds <=> <<u, r>> \in holds'
        <4>1. holds' = IF q.op = "assignRole" THEN holds \cup {<<q.user, role>>} ELSE holds \ Doomed(h)
          BY <1>1 DEF Ending, Write
        <4>2. \A u \in User : <<u, r>> \notin Doomed(h)
          BY <2>9 DEF Doomed
        <4> QED
          BY <2>9, <4>1, <4>2
      <3>4. \A i \in live' : <<r, i>> \in inherits <=> <<r, i>> \in inherits'
        BY <2>6, <2>7, <2>9 DEF Edges
      <3> QED
        BY <3>1, <3>2, <3>3, <3>4 DEF Edited
    <2>10. ASSUME NEW r \in Role, Edited(r)
           PROVE  (r \in live => Below(h, rank[r])) /\ (r \in live' => Below(h, rank'[r]))
      <3>1. r = role
        BY <2>9, <2>10
      <3> HIDE DEF Below
      <3>2. CASE q.op = "createRole"
        BY <2>3, <2>4, <2>5, <2>8, <3>1, <3>2
      <3>3. CASE q.op = "updateRole"
        BY <2>2, <2>4, <2>5, <2>8, <3>1, <3>3
      <3>4. CASE q.op \notin {"createRole", "updateRole"}
        BY <2>2, <2>5, <3>1, <3>4
      <3> QED
        BY <3>2, <3>3, <3>4
    <2>11. ASSUME NEW e \in inherits' \ inherits PROVE Below(h, rank[e[2]])
      <3>1. q.op = "setRoleInheritance" /\ \E i \in q.over : e = <<role, i>>
        BY <2>6, <2>11 DEF Edges
      <3> HIDE DEF Below
      <3> QED
        BY <2>2, <3>1
    <2>12. txs[h].direct => Held(q.actor) \cap grants # {}
      BY <2>1 DEF Carried
    <2> QED
      BY <2>10, <2>11, <2>12
  <1>2. IInv /\ [Next]_vars => \A h \in Handler : Ends(h) /\ txs[h].req.actor # Trusted => Entitled(h)
    <2> SUFFICES ASSUME IInv, [Next]_vars, NEW h \in Handler, Ends(h), txs[h].req.actor # Trusted
                 PROVE  Entitled(h)
      OBVIOUS
    <2>1. ASSUME NEW g \in Handler, Ending(g) PROVE Entitled(h)
      <3>1. g = h
        BY <2>1, EndingTables DEF Spares, Ends
      <3> QED
        BY <1>1, <2>1, <3>1
    <2>2. CASE UNCHANGED <<live, rank, grants, inherits, holds>> /\ (UNCHANGED deleted \/ UNCHANGED txs)
      <3>1. UNCHANGED deleted
        BY <2>2 DEF Ends
      <3>2. tables' = tables /\ inherits' = inherits /\ \A r \in Role : ~Edited(r)
        BY <2>2, <3>1 DEF tables, Edited
      <3> QED
        BY <3>2
    <2> QED
      BY <2>1, <2>2, OnlyEndingsWrite
  <1> QED
    BY <1>2, InitHolds, NextHolds, PTL DEF Spec, EditsAreEntitled
===============================================================================
