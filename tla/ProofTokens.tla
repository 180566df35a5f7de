------------------------------ MODULE ProofTokens ------------------------------
(***************************************************************************)
(* What a one-time token promises: it is issued once and stands for one    *)
(* effect.  Taking it and applying its effect may be one step or two; a    *)
(* taken token whose effect never comes is lost, never usable again.       *)
(***************************************************************************)
CONSTANT Token
VARIABLE state

vars == <<state>>

Status == {"unissued", "issued", "taken", "applied", "burnt"}

TypeOK == state \in [Token -> Status]

Init == state \in [Token -> {"unissued", "issued"}]

Move(t, from, to) ==
  /\ state[t] \in from
  /\ state' = [state EXCEPT ![t] = to]

Issue(t) == Move(t, {"unissued"}, "issued")
Take(t) == Move(t, {"issued"}, "taken")
Apply(t) == Move(t, {"issued", "taken"}, "applied")
Burn(t) == Move(t, {"issued"}, "burnt")

Next == \E t \in Token : Issue(t) \/ Take(t) \/ Apply(t) \/ Burn(t)

Spec == Init /\ [][Next]_vars
================================================================================
