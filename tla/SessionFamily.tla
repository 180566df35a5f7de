----------------------------- MODULE SessionFamily -----------------------------
(***************************************************************************)
(* What the session store of mrjim-auth promises, without tables, locks,   *)
(* clocks or requests: a session is opened once, is carried by exactly one *)
(* current refresh token at a time, hands over to a token nobody held      *)
(* before, and once revoked is never carried by a token again.             *)
(*                                                                         *)
(* Sessions.tla implements this specification.                             *)
(***************************************************************************)
CONSTANTS Session, Token

VARIABLES
  opened,   \* the sessions that were ever created
  revoked,  \* the sessions that were revoked
  current,  \* current[s]: the tokens that may still be rotated for s
  spent     \* the tokens that were rotated away or revoked

vars == <<opened, revoked, current, spent>>

Init ==
  /\ opened = {}
  /\ revoked = {}
  /\ current = [s \in Session |-> {}]
  /\ spent = {}

Fresh(t) == t \notin spent /\ \A s \in Session : t \notin current[s]

\* A sign-in opens a session with one fresh token.
Open(s, t) ==
  /\ s \notin opened /\ Fresh(t)
  /\ opened' = opened \cup {s}
  /\ current' = [current EXCEPT ![s] = {t}]
  /\ UNCHANGED <<revoked, spent>>

\* A refresh spends the current token and replaces it by one fresh token.
HandOver(s, t, n) ==
  /\ s \in opened \ revoked /\ Fresh(n)
  /\ current[s] = {t}
  /\ current' = [current EXCEPT ![s] = {n}]
  /\ spent' = spent \cup {t}
  /\ UNCHANGED <<opened, revoked>>

\* Sign-out, deletion and replay containment revoke some of the sessions.
Revoke(S) ==
  /\ S \subseteq opened
  /\ revoked' = revoked \cup S
  /\ spent' = spent \cup UNION {current[s] : s \in S}
  /\ current' = [s \in Session |-> IF s \in S THEN {} ELSE current[s]]
  /\ UNCHANGED opened

Next ==
  \/ \E s \in Session, t \in Token : Open(s, t)
  \/ \E s \in Session, t, n \in Token : HandOver(s, t, n)
  \/ \E S \in SUBSET Session : Revoke(S)

Spec == Init /\ [][Next]_vars
================================================================================
