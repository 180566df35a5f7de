----------------------------- MODULE MCRequests -----------------------------
(* An instance of Requests for TLC, which here also evaluates the ASSUMEs of *)
(* Protocol, Callers and Rows.                                             *)
EXTENDS Requests, Callers, Rows

CONSTANTS u1, s1, b1, pk, sk, r1

MCOwner == [s \in {s1} |-> u1]
MCSessionOf == [b \in {b1} |-> s1]
MCManage == <<"auth.users", "manage">>
MCFamily == <<"auth", "*">>
\* The administration by the family of its permission, and a scoped wildcard.
MCGrantable == {<<u1, Global, MCFamily>>, <<u1, "org", <<"invoice", "*">>>>}
MCRequirements ==
  {[any |-> {<<"invoice", "read">>}, all |-> {}, scope |-> "org"],
   [any |-> {}, all |-> {<<"invoice", "pay">>}, scope |-> "org"],
   [any |-> {<<"invoice", "read">>, <<"auth", "read">>}, all |-> {}, scope |-> Global]}
=============================================================================
