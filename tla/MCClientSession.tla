---------------------------- MODULE MCClientSession ----------------------------
(***************************************************************************)
(* Small instances of ClientSession for TLC.                               *)
(***************************************************************************)
EXTENDS ClientSession, Cookies, TLC

\* Tabs and sessions are interchangeable: no operator orders them.
Symmetry == Permutations(Tab) \cup Permutations(Session)
================================================================================
