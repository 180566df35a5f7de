------------------------------ MODULE MCSessions -------------------------------
(***************************************************************************)
(* Small instances of Sessions for TLC.                                    *)
(***************************************************************************)
EXTENDS Sessions, AccessTokens, TLC

\* Requests, sessions and tokens are interchangeable: no operator orders them.
Symmetry == Permutations(Req) \cup Permutations(Session) \cup Permutations(Token)
================================================================================
