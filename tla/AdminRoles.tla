------------------------------ MODULE AdminRoles ------------------------------
(***************************************************************************)
(* Role administration over PostgreSQL: server/admin-service.ts with the   *)
(* row locks of postgres/repositories/admin.ts and authorization.ts and    *)
(* the deferred cycle trigger of 0002_authorization.sql.                   *)
(*                                                                         *)
(* A mutation is one READ COMMITTED transaction of several statements.     *)
(* Each row lock is a step of its own, so transactions wait for each other *)
(* while they hold locks; what one writes, others see when it commits.     *)
(***************************************************************************)
EXTENDS Integers, FiniteSets

CONSTANTS
  User, Role,         \* Role: ids, in the order in which rows are locked
  System,             \* the roles with is_system
  Handler,            \* administration calls in flight, one transaction each
  Trusted,            \* an actor that is no user: the server itself, or a secret key
  None,
  Seeds,              \* the contents of the tables to start from
  Offered(_),         \* which requests are made
  MaxRank, MaxCalls   \* bounds on ranks and on the calls of a behaviour

VARIABLES
  live,               \* auth.roles: the roles that exist
  rank,               \* auth.roles.rank
  grants,             \* auth.role_permissions: the roles with auth.roles.manage
  inherits,           \* auth.role_inheritance: <<role, inherited role>>
  holds,              \* auth.user_roles: <<user, role>>
  deleted,            \* the users with deleted_at
  roleLock,           \* the transaction that has locked a role's row, or None
  holdLock,           \* the transaction that has locked an assignment's row, or None
  txs,                \* the transactions
  calls

tables == <<live, rank, grants, inherits, holds, deleted>>
vars == <<tables, roleLock, holdLock, txs, calls>>

Rank == 0..MaxRank
Request == [op : {"createRole", "updateRole", "deleteRole", "setRolePermissions",
                  "setRoleInheritance", "assignRole", "unassignRole"},
            actor : User \cup {Trusted}, role : Role, user : User \cup {None},
            rank : Rank, on : BOOLEAN, over : SUBSET Role]
Phase == {"authorize", "mutate", "newRank"}
\* ids, ranks: what assignedRolesForUpdate read last; direct: history, whether
\* one of the roles locked for #authorize carried the permission itself.
Tx == [pc : {"assignments", "roles", "authorize", "targets", "write", "commit"},
       phase : Phase, req : Request, ids : SUBSET Role,
       ranks : SUBSET Rank, direct : BOOLEAN]

ASSUME UserAssumption == IsFiniteSet(User)
ASSUME RoleAssumption == Role \subseteq Nat /\ System \subseteq Role
ASSUME BoundAssumption == MaxRank \in Nat /\ MaxCalls \in Nat
ASSUME NoneAssumption ==
  /\ Trusted \notin User /\ None \notin User /\ None \notin Handler
  /\ None \notin Tx

-------------------------------------------------------------------------------
\* The smallest set with the roles of S that is closed under the edges E.
Reach(S, E) ==
  {r \in Role : \A X \in SUBSET Role :
     (S \subseteq X /\ \A e \in E : e[1] \in X => e[2] \in X) => r \in X}

\* No role is on a circle of at most three edges of E.
NoShortCircle(E) ==
  \A a, b, c \in Role :
    /\ <<a, a>> \notin E
    /\ ~(<<a, b>> \in E /\ <<b, a>> \in E)
    /\ ~(<<a, b>> \in E /\ <<b, c>> \in E /\ <<c, a>> \in E)

ASSUME SeedsAssumption ==
  \A s \in Seeds :
    /\ s.live \subseteq Role /\ s.rank \in [Role -> Rank] /\ s.grants \subseteq s.live
    /\ s.inherits \subseteq s.live \X s.live /\ s.holds \subseteq User \X s.live
    /\ NoShortCircle(s.inherits)

Held(u) == {r \in Role : <<u, r>> \in holds}

\* effectivePermissions of the user include auth.roles.manage.
MayManage(u) == u \notin deleted /\ Reach(Held(u), inherits) \cap grants # {}

-------------------------------------------------------------------------------
Mine(h) == {r \in Role : roleLock[r] = h}
Own(h) == {e \in holds : e[1] = txs[h].req.actor}
\* rolesForUpdate: the roles that the operation locks.
Targets(h) ==
  IF txs[h].req.op = "createRole" THEN {} ELSE {txs[h].req.role} \cup txs[h].req.over
\* The assignments that the operation deletes, by itself or by the cascade.
Doomed(h) ==
  CASE txs[h].req.op = "unassignRole" -> holds \cap {<<txs[h].req.user, txs[h].req.role>>}
    [] txs[h].req.op = "deleteRole" -> {e \in holds : e[2] = txs[h].req.role}
    [] OTHER -> {}

First(S) == CHOOSE r \in S : \A s \in S : r <= s

\* The next row that a statement of h locks: an assignment, or a role.
WantedHolds(h) ==
  CASE txs[h] = None -> {}
    [] txs[h].pc = "assignments" -> {e \in Own(h) : holdLock[e] # h}
    [] txs[h].pc = "write" -> {e \in Doomed(h) : holdLock[e] # h}
    [] OTHER -> {}
\* Mutant: the roles an operation is about are read without FOR UPDATE.
WantedRolesOwn(h) ==
  IF txs[h] # None /\ txs[h].pc = "roles" THEN (txs[h].ids \cap live) \ Mine(h) ELSE {}
\* Mutant: the actor's own roles are read without FOR UPDATE.
WantedRolesTargets(h) ==
  IF txs[h] # None /\ txs[h].pc = "targets" THEN (Targets(h) \cap live) \ Mine(h) ELSE {}
WantedRoles(h) ==
  CASE txs[h] = None -> {}
    [] txs[h].pc = "roles" -> (txs[h].ids \cap live) \ Mine(h)
    [] txs[h].pc = "targets" -> (Targets(h) \cap live) \ Mine(h)
    [] OTHER -> {}
NextHold(h) == CHOOSE e \in WantedHolds(h) : \A f \in WantedHolds(h) : e[2] <= f[2]
NextRole(h) == First(WantedRoles(h))

\* The transaction that h waits for, or None.
WaitsFor(h) ==
  CASE WantedHolds(h) # {} -> holdLock[NextHold(h)]
    [] WantedRoles(h) # {} -> roleLock[NextRole(h)]
    [] OTHER -> None
\* h is one of a set of transactions that wait for one another.
Deadlocked(h) == \E S \in SUBSET Handler : h \in S /\ \A g \in S : WaitsFor(g) \in S

-------------------------------------------------------------------------------
Release(h) ==
  /\ roleLock' = [r \in Role |-> IF roleLock[r] = h THEN None ELSE roleLock[r]]
  /\ holdLock' = [e \in User \X Role |-> IF holdLock[e] = h THEN None ELSE holdLock[e]]
  /\ txs' = [txs EXCEPT ![h] = None]

Goto(h, pc) == txs' = [txs EXCEPT ![h].pc = pc]

Init ==
  /\ \E s \in Seeds :
       /\ live = s.live /\ rank = s.rank /\ grants = s.grants
       /\ inherits = s.inherits /\ holds = s.holds
  /\ deleted = {}
  /\ roleLock = [r \in Role |-> None]
  /\ holdLock = [e \in User \X Role |-> None]
  /\ txs = [h \in Handler |-> None]
  /\ calls = 0

\* A user's transaction starts with #authorize; trusted actors and keys pass it.
Begin(h, q) ==
  /\ txs[h] = None /\ calls < MaxCalls
  /\ txs' = [txs EXCEPT ![h] =
       [pc |-> IF q.actor # Trusted THEN "assignments"
               ELSE IF q.op = "createRole" THEN "write" ELSE "targets",
        phase |-> IF q.actor # Trusted THEN "authorize" ELSE "mutate",
        req |-> q, ids |-> {}, ranks |-> {}, direct |-> FALSE]]
  /\ calls' = calls + 1
  /\ UNCHANGED <<tables, roleLock, holdLock>>

LockAssignment(h) ==
  /\ WantedHolds(h) # {}
  /\ holdLock[NextHold(h)] = None
  /\ holdLock' = [holdLock EXCEPT ![NextHold(h)] = h]
  /\ UNCHANGED <<tables, roleLock, txs, calls>>

LockRole(h) ==
  /\ WantedRoles(h) # {}
  /\ roleLock[NextRole(h)] = None
  /\ roleLock' = [roleLock EXCEPT ![NextRole(h)] = h]
  /\ UNCHANGED <<tables, holdLock, txs, calls>>

\* assignedRolesForUpdate has locked what it found: were there new assignments?
RereadAssignments(h) ==
  /\ txs[h] # None /\ txs[h].pc = "assignments" /\ WantedHolds(h) = {}
  /\ LET ids == Held(txs[h].req.actor)
         op == txs[h].req.op
     IN IF ids # txs[h].ids
        THEN txs' = [txs EXCEPT ![h].ids = ids, ![h].pc = "roles"]
        ELSE txs' = [txs EXCEPT ![h].ids = ids, ![h].ranks = {rank[r] : r \in ids},
               ![h].pc = CASE txs[h].phase = "authorize" -> "authorize"
                           [] txs[h].phase = "mutate" /\ op # "createRole" -> "targets"
                           [] OTHER -> "write"]
  /\ UNCHANGED <<tables, roleLock, holdLock, calls>>

RolesLocked(h) ==
  /\ txs[h] # None /\ txs[h].pc = "roles" /\ WantedRoles(h) = {}
  /\ Goto(h, "assignments")
  /\ UNCHANGED <<tables, roleLock, holdLock, calls>>

\* Granted, the operation starts by locking and reading the actor's roles again.
Authorize(h) ==
  /\ txs[h] # None /\ txs[h].pc = "authorize"
  /\ MayManage(txs[h].req.actor)
  /\ txs' = [txs EXCEPT ![h].pc = "assignments", ![h].phase = "mutate", ![h].ids = {},
                        ![h].direct = txs[h].ids \cap grants # {}]
  /\ UNCHANGED <<tables, roleLock, holdLock, calls>>

\* Refusals commit a failure audit and nothing else.
Deny(h) ==
  /\ txs[h] # None /\ txs[h].pc = "authorize"
  /\ ~MayManage(txs[h].req.actor)
  /\ Release(h)
  /\ UNCHANGED <<tables, calls>>

\* #assertRank: the greatest of the actor's ranks is above k.
Outranks(h, k) == txs[h].req.actor = Trusted \/ \E own \in txs[h].ranks : own > k

\* Mutant: the last holder of a system role may lose it.
PermittedLast(h) ==
  LET q == txs[h].req IN
  /\ Targets(h) \subseteq live
  /\ \A r \in Targets(h) : Outranks(h, rank[r])
  /\ q.op = "deleteRole" => q.role \notin System
\* The targets are locked; what the policy says of the operation.
Permitted(h) ==
  LET q == txs[h].req IN
  /\ Targets(h) \subseteq live
  /\ \A r \in Targets(h) : Outranks(h, rank[r])
  /\ q.op = "deleteRole" => q.role \notin System
  /\ q.op = "unassignRole" /\ q.role \in System =>
       Cardinality({u \in User : <<u, q.role>> \in holds}) > 1

Decide(h) ==
  /\ txs[h] # None /\ txs[h].pc = "targets" /\ WantedRoles(h) = {}
  /\ Permitted(h)
  /\ IF txs[h].req.op = "updateRole" /\ txs[h].req.actor # Trusted
     THEN txs' = [txs EXCEPT ![h].pc = "assignments", ![h].phase = "newRank", ![h].ids = {}]
     ELSE Goto(h, "write")
  /\ UNCHANGED <<tables, roleLock, holdLock, calls>>

Refuse(h) ==
  /\ txs[h] # None /\ txs[h].pc = "targets" /\ WantedRoles(h) = {}
  /\ ~Permitted(h)
  /\ Release(h)
  /\ UNCHANGED <<tables, calls>>

\* What remains to be checked when the rows are written.
Writable(h) ==
  LET q == txs[h].req IN
  /\ q.op \in {"createRole", "updateRole"} => Outranks(h, q.rank)
  /\ q.op = "createRole" => q.role \notin live /\ (q.role \in System => q.actor = Trusted)
  /\ q.op = "assignRole" => <<q.user, q.role>> \notin holds

\* The edges of role_inheritance as the transaction sees them.
Edges(h) ==
  {e \in inherits : e[1] # txs[h].req.role}
    \cup {<<txs[h].req.role, r>> : r \in txs[h].req.over}

\* The writes of the operation, and its audit row.
Write(h) ==
  LET q == txs[h].req
      r == q.role
      Is(op) == q.op = op
  IN
  /\ live' = CASE Is("createRole") -> live \cup {r}
               [] Is("deleteRole") -> live \ {r}
               [] OTHER -> live
  /\ rank' = IF Is("createRole") \/ Is("updateRole") THEN [rank EXCEPT ![r] = q.rank] ELSE rank
  /\ grants' = CASE Is("setRolePermissions") /\ q.on -> grants \cup {r}
                 [] Is("deleteRole") \/ (Is("setRolePermissions") /\ ~q.on) -> grants \ {r}
                 [] OTHER -> grants
  /\ inherits' = CASE Is("setRoleInheritance") -> Edges(h)
                   [] Is("deleteRole") -> {e \in inherits : e[1] # r /\ e[2] # r}
                   [] OTHER -> inherits
  /\ holds' = IF Is("assignRole") THEN holds \cup {<<q.user, r>>} ELSE holds \ Doomed(h)
  /\ UNCHANGED deleted

Finish(h) ==
  /\ txs[h] # None /\ txs[h].pc = "write" /\ WantedHolds(h) = {}
  /\ Writable(h) /\ txs[h].req.op # "setRoleInheritance"
  /\ Write(h) /\ Release(h) /\ UNCHANGED calls

RefuseWrite(h) ==
  /\ txs[h] # None /\ txs[h].pc = "write" /\ ~Writable(h)
  /\ Release(h)
  /\ UNCHANGED <<tables, calls>>

\* The deferred trigger runs for each inserted edge when the transaction ends, before
\* the commit makes the edges visible.
Guard(h) ==
  /\ txs[h] # None /\ txs[h].pc = "write" /\ txs[h].req.op = "setRoleInheritance"
  /\ \A i \in txs[h].req.over : txs[h].req.role \notin Reach({i}, Edges(h))
  /\ Goto(h, "commit")
  /\ UNCHANGED <<tables, roleLock, holdLock, calls>>

GuardFails(h) ==
  /\ txs[h] # None /\ txs[h].pc = "write" /\ txs[h].req.op = "setRoleInheritance"
  /\ \E i \in txs[h].req.over : txs[h].req.role \in Reach({i}, Edges(h))
  /\ Release(h)
  /\ UNCHANGED <<tables, calls>>

Commit(h) ==
  /\ txs[h] # None /\ txs[h].pc = "commit"
  /\ Write(h) /\ Release(h) /\ UNCHANGED calls

\* PostgreSQL ends a deadlock by aborting one of its transactions.
Abort(h) ==
  /\ txs[h] # None /\ Deadlocked(h)
  /\ Release(h)
  /\ UNCHANGED <<tables, calls>>

\* A lost connection, a crash, or assignments that changed eight times.
Fail(h) ==
  /\ txs[h] # None
  /\ Release(h)
  /\ UNCHANGED <<tables, calls>>

\* AdminService.deleteUser, which asks for another permission and looks at no role.
DeleteUser(u) ==
  /\ u \notin deleted /\ calls < MaxCalls
  /\ deleted' = deleted \cup {u}
  /\ calls' = calls + 1
  /\ UNCHANGED <<live, rank, grants, inherits, holds, roleLock, holdLock, txs>>

-------------------------------------------------------------------------------
\* The parameters of each operation, the ones it does not have left at a default.
Requests ==
  {q \in Request :
     /\ q.user = None <=> q.op \notin {"assignRole", "unassignRole"}
     /\ q.op \notin {"createRole", "updateRole"} => q.rank = 0
     /\ q.op # "setRolePermissions" => ~q.on
     /\ q.op # "setRoleInheritance" => q.over = {}
     /\ Offered(q)}

Step(h) ==
  \/ LockAssignment(h) \/ LockRole(h) \/ RereadAssignments(h) \/ RolesLocked(h)
  \/ Authorize(h) \/ Deny(h) \/ Decide(h) \/ Refuse(h)
  \/ Finish(h) \/ RefuseWrite(h) \/ Guard(h) \/ GuardFails(h) \/ Commit(h) \/ Abort(h)

Next ==
  \/ \E h \in Handler : Step(h) \/ Fail(h) \/ \E q \in Requests : Begin(h, q)
  \/ \E u \in User : DeleteUser(u)

Spec == Init /\ [][Next]_vars
-------------------------------------------------------------------------------
TypeOK ==
  /\ live \subseteq Role /\ rank \in [Role -> Rank] /\ grants \subseteq live
  /\ inherits \subseteq live \X live /\ holds \subseteq User \X live /\ deleted \subseteq User
  /\ roleLock \in [Role -> Handler \cup {None}]
  /\ holdLock \in [User \X Role -> Handler \cup {None}]
  /\ txs \in [Handler -> Tx \cup {None}]
  /\ calls \in 0..MaxCalls

\* A system role that has a holder keeps one, although two administrators may each take
\* it from a different user at once: unassignRole counts the holders under the lock of
\* the role's row.
SystemRoleKept ==
  [][\A r \in System : (\E u \in User : <<u, r>> \in holds) =>
                         (\E u \in User : <<u, r>> \in holds')]_vars

\* No role inherits from itself through at most three roles: two edits that complete
\* such a circle share a role, so one of them waits for the other and its trigger sees
\* the other's edges.
NoShortCycle == NoShortCircle(inherits)

\* The trigger's purpose: the inheritance graph has no cycle at all.
Acyclic == \A e \in inherits : e[1] \notin Reach({e[2]}, inherits)

Ends(h) == txs[h] # None /\ txs'[h] = None
Edited(r) ==
  \/ (r \in live) # (r \in live') \/ rank[r] # rank'[r] \/ (r \in grants) # (r \in grants')
  \/ {u \in User : <<u, r>> \in holds} # {u \in User : <<u, r>> \in holds'}
  \/ {i \in live' : <<r, i>> \in inherits} # {i \in live' : <<r, i>> \in inherits'}

\* When a user's mutation commits, that user outranks, as the tables stand at that
\* moment, every role it changes, both as the role was and as it becomes, and every role
\* newly inherited; and a permission that #authorize found on a role that the transaction
\* had locked is still there.
EditsAreEntitled ==
  [][\A h \in Handler : Ends(h) /\ txs[h].req.actor # Trusted =>
       LET own == Held(txs[h].req.actor)
           Below(k) == \E s \in own : k < rank[s]
       IN /\ \A r \in Role : Edited(r) =>
               (r \in live => Below(rank[r])) /\ (r \in live' => Below(rank'[r]))
          /\ \A e \in inherits' \ inherits : Below(rank[e[2]])
          /\ tables # tables' /\ txs[h].direct => own \cap grants # {}]_vars
===============================================================================
