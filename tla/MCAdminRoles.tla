----------------------------- MODULE MCAdminRoles -----------------------------
(* Instances of AdminRoles for TLC. *)
EXTENDS AdminRoles, TLC

CONSTANTS u1, u2

\* Role 1 is the system role. Role 3 carries its permission by inheritance, so that u2
\* keeps administering after the loss of role 1, and one edge of a circle is there.
Seeds1 == {[live |-> {1, 2, 3}, rank |-> 1 :> 2 @@ 2 :> 0 @@ 3 :> 1, grants |-> {1},
            inherits |-> {<<3, 1>>}, holds |-> {<<u1, 1>>, <<u2, 1>>, <<u2, 3>>}]}

\* A role inherits from at most one other, and no new rank is the lowest.
Offered1(q) ==
  /\ Cardinality(q.over) < 2
  /\ q.op \in {"createRole", "updateRole"} => q.rank > 0

\* Two edges of a circle of four roles that share no role with each other.
Seeds2 == {[live |-> 1..4, rank |-> [r \in 1..4 |-> 0], grants |-> {}, inherits |-> {<<2, 3>>, <<4, 1>>},
            holds |-> {}]}

\* The server's own edits of the inheritance.
Offered2(q) == q.op = "setRoleInheritance" /\ q.actor = Trusted /\ Cardinality(q.over) < 2
===============================================================================
