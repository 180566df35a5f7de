---------------------------- MODULE AccessTokens ----------------------------
(***************************************************************************)
(* server/tokens.ts and server/jwks.ts: what an access token says, which   *)
(* key signs it and which servers accept it until when.  Cryptography is   *)
(* a pair of keys that match or do not; the jose library is modelled from  *)
(* how it is called.  The ASSUMEs are about every form in which a key can  *)
(* be configured and about the replacement of a key.                       *)
(*                                                                         *)
(* Instants are milliseconds, the times of a token whole seconds.  A       *)
(* server is [keys, active, issuer, audience, ttl]: keys gives each key    *)
(* identifier its key pair and the form it was configured in.              *)
(***************************************************************************)
EXTENDS Integers

Second == 1000
NoHalf == "none"

Forms == {"jwk private", "jwk public", "pem private", "pem public"}
Key(pair, form) == [pair |-> pair, form |-> form]

\* importEs256Key: which half of the pair a material gives, if it is accepted.
Imported(key, purpose) ==
    IF key.form = "jwk public" /\ purpose = "signing" THEN NoHalf
    ELSE IF key.form = "jwk private" /\ purpose = "verification" THEN "public"
    ELSE IF key.form \in {"jwk private", "pem private"} THEN "private"
    ELSE "public"

\* jose signs with a private half and verifies with a public one, and throws otherwise.
Signs(key) == Imported(key, "signing") = "private"
Verifies(key) == Imported(key, "verification") = "public"

\* publicEs256Jwk: the public half of whatever was configured, by its identifier.
Published(server) == [kid \in DOMAIN server.keys |-> server.keys[kid].pair]

\* The provider of createAuthServer: one map of keys for every purpose.
ActiveKey(server) == server.keys[server.active]
VerificationKeys(server) == server.keys

Lesser(a, b) == IF a < b THEN a ELSE b
Expiry(server, session, now) ==
    Lesser(now \div Second + server.ttl, session.expires \div Second)

\* issueAccessToken: what it requires of the session, of its user, and of the key.
Issuable(server, session, now) ==
    /\ session.active
    /\ session.created <= session.refreshed /\ session.refreshed <= session.expires
    /\ server.active \in DOMAIN server.keys /\ Signs(ActiveKey(server))
    /\ session.refreshed <= now /\ now < session.expires
    /\ now \div Second < Expiry(server, session, now)

Issued(server, session, now) ==
    [kid |-> server.active, pair |-> ActiveKey(server).pair,
     iss |-> server.issuer, aud |-> server.audience,
     iat |-> now \div Second, exp |-> Expiry(server, session, now)]

\* verifyAccessToken, with the checks of jwtVerify and validClaims.
Accepted(server, token, now) ==
    /\ token.kid \in DOMAIN VerificationKeys(server)
    /\ LET key == VerificationKeys(server)[token.kid] IN
       Verifies(key) /\ key.pair = token.pair
    /\ token.iss = server.issuer /\ token.aud \intersect server.audience # {}
    /\ now \div Second < token.exp
    /\ token.iat < token.exp

-----------------------------------------------------------------------------
\* Servers of one project that differ in their keys only.
Server(keys, active) ==
    [keys |-> keys, active |-> active, issuer |-> "project", audience |-> {"app"}, ttl |-> 300]
Instants == {0, 999, 1000, 299999, 300000, 300001, 301000}
Sessions == {s \in [active : BOOLEAN, created : {0}, refreshed : Instants, expires : Instants] :
                s.refreshed <= s.expires}

(* A server accepts the tokens it issues, for as long as they say, with a  *)
(* key configured as a private JWK; with one configured as a private PEM   *)
(* key it issues tokens and publishes the key, and accepts none of them,   *)
(* though the comment on importEs256Key speaks of PEM and JWK material     *)
(* alike.  With half a pair it issues nothing.                             *)
ASSUME FormsAssumption ==
    \A form \in Forms, session \in Sessions, now \in Instants :
        LET server == Server([k |-> Key("p", form)], "k") IN
        /\ Published(server) = [k |-> "p"]
        /\ Issuable(server, session, now) =>
               /\ form \in {"jwk private", "pem private"}
               /\ \A later \in {i \in Instants : i >= now} :
                      Accepted(server, Issued(server, session, now), later) <=>
                          /\ form = "jwk private"
                          /\ later \div Second < Issued(server, session, now).exp

(* A new key replaces an old one in three rounds over the servers: it is   *)
(* published, it is made the active one, the old one is withdrawn.  While  *)
(* two servers are at most a round apart each accepts what the other       *)
(* issues, and further apart one of them does not; so a round may not      *)
(* begin before the last has reached every server.                         *)
ASSUME RotationAssumption ==
    LET old == Key("p", "jwk private")
        new == Key("q", "jwk private")
        rounds == << Server([a |-> old], "a"), Server([a |-> old, b |-> new], "a"),
                     Server([a |-> old, b |-> new], "b"), Server([b |-> new], "b") >>
        session == [active |-> TRUE, created |-> 0, refreshed |-> 0, expires |-> 300000]
        trusts(i, j) == Accepted(rounds[i], Issued(rounds[j], session, 0), 0) IN
    \A i, j \in 1..4 : trusts(i, j) /\ trusts(j, i) <=> i - j \in {-1, 0, 1}
=============================================================================
