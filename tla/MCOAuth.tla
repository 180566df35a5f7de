-------------------------------- MODULE MCOAuth --------------------------------
(* Instances of OAuth for TLC. *)
EXTENDS OAuth, TLC

Symmetry == Permutations(User) \cup Permutations(Session) \cup Permutations(Identity)
              \cup Permutations(State) \cup Permutations(Code)
              \cup Permutations(Subject) \cup Permutations(Address)
              \cup Permutations(Req)
================================================================================
