------------------------------- MODULE MCAccounts ------------------------------
(* Instances of Accounts for TLC, with the limiters its service counts calls in. *)
EXTENDS Accounts, RateLimits, TLC

Symmetry == Permutations(User) \cup Permutations(Session) \cup Permutations(Token)
              \cup Permutations(Address) \cup Permutations(Password)
              \cup Permutations(Req)

\* Who presents a token for another purpose, address or redirect than its own is
\* refused and has changed nothing (Consumable is false for good, and Stop remains):
\* only a code that is wrong or short of its redirect, which counts as a failure, is
\* worth following.
Presents(request) ==
  LET t == request.token IN
  \/ t = None /\ request.op = "verify" /\ request.purpose = "email_otp" /\ request.bound
  \/ /\ t # None /\ request.address = tokens[t].target
     /\ \/ request.op = "verify" /\ request.purpose = tokens[t].purpose
        \/ request.op = "resetPassword" /\ tokens[t].purpose = "recovery"
        \/ request.op = "confirmEmailChange" /\ tokens[t].purpose = "email_change"
     /\ request.bound \/ request.purpose = "email_otp"

\* The first step of the other requests only reads.  One that it would refuse now may
\* as well arrive when it does not.
Passes(request) ==
  CASE request.op = "signUp" -> Found(request.address) = {} /\ \E u \in User : users[u] = None
    [] request.op = "signIn" -> \E u \in Found(request.address) : passwords[u] = request.password
    [] request.op = "ask" -> \E u \in Found(request.address) : ~users[u].banned
    [] OTHER -> SessionLive(request.session) /\ Active(request.user)

SensibleRequests ==
  \A r \in Req : reqs[r].pc = "idle" /\ reqs'[r].pc # "idle" =>
    IF reqs'[r].pc = "consume" THEN Presents(reqs'[r]) ELSE Passes(reqs'[r])

\* A patch changes something, and one thing at a time: several are several patches.
SensiblePatches ==
  calls' # calls /\ reqs' = reqs =>
    \E u \in User : \/ users[u] = None /\ users'[u] # None
                    \/ /\ users[u] # None
                       /\ \E f \in DOMAIN users[u] :
                            /\ users'[u] # users[u]
                            /\ users'[u] = [users[u] EXCEPT ![f] = users'[u][f]]
================================================================================
