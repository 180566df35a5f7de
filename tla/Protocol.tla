------------------------------ MODULE Protocol ------------------------------
(***************************************************************************)
(* The HTTP contract of AuthServer: the paths it routes, what each route   *)
(* demands of a query, a body and the credentials, which branch of which   *)
(* handler reads it, and what comes back.  There is no state here.  The    *)
(* module states what the tables of contracts.ts, the dispatcher of        *)
(* auth-server.ts, the three handlers and the OpenAPI document must have   *)
(* in common; none of them is derived from another in the code, so each    *)
(* ASSUME below is something one edit can break without a type error.      *)
(*                                                                         *)
(* A field of a query or a body is <<name>>, or <<name, value>> where the  *)
(* code distinguishes values; "options.x" is member x of an object         *)
(* "options".  A shape is a set of groups of alternatives: exactly one     *)
(* field of each group it needs, at most one of each it may have.          *)
(***************************************************************************)
EXTENDS Integers, Sequences, FiniteSets

One(names) == {{<<n>>} : n \in names}
Choice(name, values) == {<<name, v>> : v \in values}
Strict(required, optional) == [needs |-> required, may |-> optional]
Empty == Strict({}, {})

Groups(shape) == shape.needs \union shape.may
Names(fields) == {f[1] : f \in fields}
Fits(shape, fields) ==
    /\ fields \subseteq UNION Groups(shape)
    /\ \A g \in shape.needs : Cardinality(fields \intersect g) = 1
    /\ \A g \in shape.may : Cardinality(fields \intersect g) <= 1

-----------------------------------------------------------------------------
(* What a request may carry.                                               *)

(* The strict body schemas of the public and current-user routes.  Lengths *)
(* and encodings of the values are not distinguished.                      *)
RequestSchemas ==
    LET redirect == One({"redirect_to"}) IN
    [signup        |-> Strict(One({"email", "password"}),
                              One({"options.redirect_to", "options.data"})),
     passwordToken |-> Strict(One({"email", "password"}), {}),
     refreshToken  |-> Strict(One({"refresh_token"}), {}),
     otp           |-> Strict(One({"email"}),
                              {Choice("options.type", {"magic_link", "email_otp"})}
                                  \union One({"options.redirect_to"})),
     verify        |-> Strict(One({"email", "token"})
                                  \union {Choice("type", {"magic_link", "email_otp", "signup"})},
                              redirect),
     recover       |-> Strict(One({"email"}), redirect),
     recoverVerify |-> Strict(One({"email", "token", "password"}), redirect),
     resend        |-> Strict(One({"email"}) \union {Choice("type", {"signup", "recovery"})},
                              One({"options.redirect_to"})),
     updateUser    |-> Strict({}, One({"email", "user_metadata", "redirect_to"})),
     updatePassword |-> Strict(One({"current_password", "password"}),
                               One({"revoke_other_sessions"})),
     logout        |-> Strict({}, {Choice("scope", {"local", "global", "others"})}
                                      \union One({"refresh_token"})),
     exchange      |-> Strict(One({"code", "code_verifier"}), redirect)]

(* The strict body schemas of the administration routes.                   *)
AdminRequestSchemas ==
    LET profile == {"email", "phone", "email_confirmed_at", "phone_confirmed_at",
                    "confirmed_at", "user_metadata", "app_metadata"}
        role == {"key", "name", "rank"}
        permission == {"key", "resource", "action"} IN
    [userCreate       |-> Strict({}, One(profile)),
     userUpdate       |-> Strict({}, One(profile \union {"last_sign_in_at", "banned_until"})),
     invite           |-> Strict(One({"email"}), One({"options"})),
     roleCreate       |-> Strict(One(role), One({"description", "is_system"})),
     roleUpdate       |-> Strict({}, One(role \union {"description", "is_system"})),
     permissionCreate |-> Strict(One(permission), One({"description"})),
     permissionUpdate |-> Strict({}, One(permission \union {"description"})),
     permissionIds    |-> Strict(One({"permission_ids"}), {}),
     inheritedRoleIds |-> Strict(One({"inherited_role_ids"}), {})]

Body(name) == IF name \in DOMAIN RequestSchemas THEN RequestSchemas[name]
              ELSE IF name \in DOMAIN AdminRequestSchemas THEN AdminRequestSchemas[name]
              ELSE Empty

-----------------------------------------------------------------------------
(* What an answer carries: the members of each named type, as a name, the  *)
(* type of its value, and whether it is always there, there but perhaps    *)
(* null, perhaps absent, or there as a list.                               *)
Members(names, type, presence) == {<<n, type, presence>> : n \in names}
Always(names, type)   == Members(names, type, "always")
Nullable(names, type) == Members(names, type, "null")
Optional(names, type) == Members(names, type, "absent")
Listed(names, type)   == Members(names, type, "list")

(* The response schemas of the public and current-user routes.             *)
ResponseTypes ==
    [user     |-> Always({"id"}, "uuid") \union Always({"created_at", "updated_at"}, "text")
                  \union Always({"user_metadata", "app_metadata"}, "json")
                  \union Nullable({"email", "phone", "email_confirmed_at", "phone_confirmed_at",
                         "confirmed_at", "last_sign_in_at", "banned_until", "deleted_at"}, "text"),
     identityData |-> Optional({"email_verified"}, "boolean")
                  \union Optional({"sub", "email", "name", "given_name", "family_name", "picture",
                         "avatar_url", "locale", "hd", "preferred_username"}, "text"),
     identity |-> Always({"id", "user_id"}, "uuid") \union Always({"identity_data"}, "identityData")
                  \union Always({"provider", "provider_subject", "created_at", "updated_at"}, "text")
                  \union Nullable({"email"}, "text"),
     session  |-> Always({"access_token", "refresh_token"}, "text")
                  \union Always({"token_type"}, "bearer") \union Always({"user"}, "user")
                  \union Always({"expires_in", "expires_at"}, "number"),
     publicAuth |-> Nullable({"user"}, "user") \union Nullable({"session"}, "session"),
     sent       |-> Always({"sent"}, "true"),
     userData   |-> Always({"user"}, "user"),
     identities |-> Listed({"identities"}, "identity"),
     permissions |-> Listed({"permissions"}, "text"),
     providers  |-> Listed({"providers"}, "provider"),
     provider   |-> Always({"name"}, "text") \union Listed({"scopes"}, "text")
                    \union Always({"capabilities"}, "capabilities"),
     capabilities |-> Always({"authorization_code", "pkce", "identity_linking"}, "true"),
     authorize  |-> Always({"provider", "url", "redirect", "expires_at"}, "text"),
     exchange   |-> Always({"user"}, "user") \union Always({"identity"}, "identity")
                    \union Always({"session"}, "session"),
     jwks       |-> Listed({"keys"}, "json"),
     null       |-> {}]

(* The response schemas of the administration routes.                      *)
AdminTypes ==
    LET page == Always({"total", "page", "per_page"}, "number")
        row == Always({"id"}, "uuid") \union Always({"created_at", "updated_at", "key"}, "text")
                   \union Nullable({"description"}, "text") IN
    [adminUsers |-> Listed({"users"}, "user") \union page,
     adminUser  |-> Nullable({"user"}, "user"),
     adminRoleRow |-> row \union Always({"name"}, "text") \union Always({"rank"}, "number")
                      \union Always({"is_system"}, "boolean"),
     adminRoles |-> Listed({"roles"}, "adminRoleRow"),
     adminRole  |-> Always({"role"}, "adminRoleRow"),
     adminPermissionRow |-> row \union Always({"resource", "action"}, "text"),
     adminPermissions   |-> Listed({"permissions"}, "adminPermissionRow"),
     adminPermission    |-> Always({"permission"}, "adminPermissionRow"),
     adminEvent |-> Always({"id"}, "uuid")
                    \union Always({"action", "target_type", "outcome", "occurred_at"}, "text")
                    \union Always({"metadata"}, "json")
                    \union Nullable({"actor_user_id", "actor_key_id", "actor_session_id",
                                     "target_id"}, "uuid")
                    \union Nullable({"ip_address", "user_agent"}, "text"),
     adminAudit |-> Listed({"events"}, "adminEvent") \union page,
     invited    |-> Always({"invited"}, "json")]

Types == [t \in DOMAIN ResponseTypes \union DOMAIN AdminTypes |->
             IF t \in DOMAIN ResponseTypes THEN ResponseTypes[t] ELSE AdminTypes[t]]
Scalars == {"uuid", "text", "json", "number", "boolean", "true", "bearer"}

-----------------------------------------------------------------------------
(* The routes.                                                             *)
Row(method, path, op, security, query, body, response) ==
    [method |-> method, path |-> path, op |-> op, security |-> security,
     query |-> query, body |-> body, response |-> response]

ScopeQuery == Strict({}, One({"scope_type", "scope_id"}))
PageQuery  == Strict({}, One({"page", "per_page"}))

\* What a provider adds to its redirect; the callback admits it unread.
Hints == {"iss", "scope", "authuser", "prompt"}

CallbackQuery == Strict(One({"code", "state"}), One(Hints))

(* Every route AuthServer serves.                                          *)
Contracts ==
    LET key(method, path, op, query, body, response) ==
            Row(method, path, op, "api_key", query, body, response)
        own(method, rest, op, query, body, response) ==
            Row(method, <<"user">> \o rest, op, "user", query, body, response)
        admin(method, rest, op, query, body, response) ==
            Row(method, <<"admin">> \o rest, op, "admin", query, body, response)
        user == <<"users", "{id}">>
        role == <<"roles", "{id}">>
        held == <<"users", "{id}", "roles", "{roleId}">>
        permission == <<"permissions", "{id}">>
        grant == Strict({Choice("grant_type", {"password", "refresh_token", "other"})}, {})
        start == Strict(One({"provider", "code_challenge"}),
                        One({"redirect_to"})
                        \union {Choice("code_challenge_method", {"S256", "plain"}),
                                Choice("flow", {"sign_in", "link_identity"})})
        soft == Strict({}, {Choice("soft", {"true", "false"})}) IN
    {key("POST", <<"signup">>, "signUp", Empty, "signup", "publicAuth"),
     key("POST", <<"token">>, "token", grant, "token", "session"),
     key("POST", <<"otp">>, "signInWithOtp", Empty, "otp", "publicAuth"),
     key("POST", <<"verify">>, "verifyOtp", Empty, "verify", "publicAuth"),
     key("POST", <<"recover">>, "resetPasswordForEmail", Empty, "recover", "sent"),
     key("POST", <<"recover", "verify">>, "resetPassword", Empty, "recoverVerify", "userData"),
     key("POST", <<"resend">>, "resend", Empty, "resend", "sent"),
     key("GET", <<"providers">>, "listProviders", Empty, "none", "providers"),
     key("GET", <<"authorize">>, "authorizeOAuth", start, "none", "authorize"),
     Row("GET", <<"callback", "{provider}">>, "oauthCallback", "signed", CallbackQuery, "none", "null"),
     key("POST", <<"exchange">>, "exchangeCodeForSession", Empty, "exchange", "exchange"),
     own("GET", << >>, "getUser", Empty, "none", "userData"),
     own("PUT", << >>, "updateUser", Empty, "updateUser", "userData"),
     own("PUT", <<"password">>, "updatePassword", Empty, "updatePassword", "userData"),
     own("GET", <<"identities">>, "getUserIdentities", Empty, "none", "identities"),
     own("DELETE", <<"identities", "{id}">>, "unlinkIdentity", Empty, "none", "null"),
     own("GET", <<"permissions">>, "getUserPermissions", ScopeQuery, "none", "permissions"),
     key("POST", <<"logout">>, "signOut", Empty, "logout", "null"),
     key("GET", <<".well-known", "jwks.json">>, "jwks", Empty, "none", "jwks"),
     admin("GET", <<"users">>, "adminListUsers", PageQuery, "none", "adminUsers"),
     admin("POST", <<"users">>, "adminCreateUser", Empty, "userCreate", "adminUser"),
     admin("GET", <<"users", "find">>, "adminFindUser", Strict(One({"email"}), {}), "none", "adminUser"),
     admin("POST", <<"users", "invite">>, "adminInviteUser", Empty, "invite", "invited"),
     admin("GET", user, "adminGetUser", Empty, "none", "adminUser"),
     admin("PATCH", user, "adminUpdateUser", Empty, "userUpdate", "adminUser"),
     admin("DELETE", user, "adminDeleteUser", soft, "none", "adminUser"),
     admin("PUT", held, "adminAssignRole", ScopeQuery, "none", "null"),
     admin("DELETE", held, "adminUnassignRole", ScopeQuery, "none", "null"),
     admin("GET", <<"roles">>, "adminListRoles", Empty, "none", "adminRoles"),
     admin("POST", <<"roles">>, "adminCreateRole", Empty, "roleCreate", "adminRole"),
     admin("PATCH", role, "adminUpdateRole", Empty, "roleUpdate", "adminRole"),
     admin("DELETE", role, "adminDeleteRole", Empty, "none", "null"),
     admin("PUT", role \o <<"permissions">>, "adminSetRolePermissions", Empty, "permissionIds", "null"),
     admin("PUT", role \o <<"inheritance">>, "adminSetRoleInheritance", Empty, "inheritedRoleIds", "null"),
     admin("GET", <<"permissions">>, "adminListPermissions", Empty, "none", "adminPermissions"),
     admin("POST", <<"permissions">>, "adminCreatePermission", Empty, "permissionCreate", "adminPermission"),
     admin("PATCH", permission, "adminUpdatePermission", Empty, "permissionUpdate", "adminPermission"),
     admin("DELETE", permission, "adminDeletePermission", Empty, "none", "null"),
     admin("GET", <<"audit">>, "adminListAudit", PageQuery, "none", "adminAudit")}

Paths == {c.path : c \in Contracts}

-----------------------------------------------------------------------------
(* From a request to the branch of a handler.  A path is the sequence of   *)
(* its decoded segments below the base path; UUID stands for any           *)
(* identifier, "" for what follows a trailing slash.                       *)
UUID == "6ba7b810-9dad-41d1-80b4-00c04fd430c8"
Unrouted == << >>

(* exactPath: the template a path is an instance of, or the path itself.   *)
Routed(path) ==
    LET n == Len(path)
        first == path[1]
        under == IF n > 1 THEN path[2] ELSE ""
        template(ids, t) == IF \A i \in ids : path[i] = UUID THEN t ELSE Unrouted IN
    IF first = "callback"
    THEN IF n = 2 /\ under # "" THEN <<"callback", "{provider}">> ELSE Unrouted
    ELSE IF first = "user" /\ under = "identities" /\ n > 2
    THEN IF n = 3 THEN template({3}, <<"user", "identities", "{id}">>) ELSE Unrouted
    ELSE IF first = "admin" /\ under = "users" /\ n = 3 /\ path[3] \notin {"find", "invite"}
    THEN template({3}, <<"admin", "users", "{id}">>)
    ELSE IF first = "admin" /\ under = "users" /\ n = 5 /\ path[4] = "roles"
    THEN template({3, 5}, <<"admin", "users", "{id}", "roles", "{roleId}">>)
    ELSE IF first = "admin" /\ under \in {"roles", "permissions"} /\ n = 3
    THEN template({3}, <<"admin", under, "{id}">>)
    ELSE IF first = "admin" /\ under = "roles" /\ n = 4 /\ path[4] \in {"permissions", "inheritance"}
    THEN template({3}, <<"admin", "roles", "{id}", path[4]>>)
    ELSE IF path[n] = "" THEN Unrouted ELSE path

(* The branches of the three handlers: the query and body fields each one  *)
(* reads, and the schema it gives its answer to be checked against.        *)
Branch(method, path, reads, answers) ==
    [method |-> method, path |-> path, reads |-> reads, answers |-> answers]

\* This handler looks at the path alone.
PublicBranches ==
    LET on(path, reads, answers) == Branch("*", path, reads, answers)
        redirect == {"options.redirect_to"} IN
    {on(<<"signup">>, {"email", "password", "options.data"} \union redirect, "publicAuth"),
     on(<<"token">>, {"grant_type", "email", "password", "refresh_token"}, "session"),
     on(<<"otp">>, {"email", "options.type"} \union redirect, "publicAuth"),
     on(<<"verify">>, {"email", "token", "type", "redirect_to"}, "publicAuth"),
     on(<<"recover">>, {"email", "redirect_to"}, "sent"),
     on(<<"recover", "verify">>, {"email", "token", "password", "redirect_to"}, "userData"),
     on(<<"resend">>, {"type", "email"} \union redirect, "sent"),
     on(<<"providers">>, {}, "providers"),
     on(<<"authorize">>, {"provider", "code_challenge", "code_challenge_method",
                          "redirect_to", "flow"}, "authorize"),
     on(<<"callback", "{provider}">>, {"code", "state"}, "redirect"),
     on(<<"exchange">>, {"code", "code_verifier", "redirect_to"}, "exchange"),
     on(<<".well-known", "jwks.json">>, {}, "jwks")}

UserBranches ==
    {Branch("GET", <<"user">>, {}, "userData"),
     Branch("PUT", <<"user">>, {"email", "user_metadata", "redirect_to"}, "userData"),
     Branch("PUT", <<"user", "password">>,
            {"current_password", "password", "revoke_other_sessions"}, "userData"),
     Branch("GET", <<"user", "identities">>, {}, "identities"),
     Branch("DELETE", <<"user", "identities", "{id}">>, {}, "null"),
     Branch("GET", <<"user", "permissions">>, {"scope_type", "scope_id"}, "permissions"),
     Branch("POST", <<"logout">>, {"scope", "refresh_token"}, "null")}

\* userInput reads the same members for a new user and for an existing one.
AdminBranches ==
    LET on(method, rest, reads, answers) == Branch(method, <<"admin">> \o rest, reads, answers)
        userInput == {"email", "phone", "email_confirmed_at", "phone_confirmed_at", "confirmed_at",
                      "last_sign_in_at", "banned_until", "user_metadata", "app_metadata"}
        role == {"key", "name", "description", "rank", "is_system"}
        permission == {"key", "resource", "action", "description"}
        scope == {"scope_type", "scope_id"}
        pagination == {"page", "per_page"} IN
    {on("GET", <<"users">>, pagination, "adminUsers"),
     on("POST", <<"users">>, userInput, "adminUser"),
     on("GET", <<"users", "find">>, {"email"}, "adminUser"),
     on("POST", <<"users", "invite">>, {"email", "options"}, "invited"),
     on("GET", <<"users", "{id}">>, {}, "adminUser"),
     on("PATCH", <<"users", "{id}">>, userInput, "adminUser"),
     on("DELETE", <<"users", "{id}">>, {"soft"}, "adminUser"),
     on("PUT", <<"users", "{id}", "roles", "{roleId}">>, scope, "null"),
     on("DELETE", <<"users", "{id}", "roles", "{roleId}">>, scope, "null"),
     on("GET", <<"roles">>, {}, "adminRoles"),
     on("POST", <<"roles">>, role, "adminRole"),
     on("PATCH", <<"roles", "{id}">>, role, "adminRole"),
     on("DELETE", <<"roles", "{id}">>, {}, "null"),
     on("PUT", <<"roles", "{id}", "permissions">>, {"permission_ids"}, "null"),
     on("PUT", <<"roles", "{id}", "inheritance">>, {"inherited_role_ids"}, "null"),
     on("GET", <<"permissions">>, {}, "adminPermissions"),
     on("POST", <<"permissions">>, permission, "adminPermission"),
     on("PATCH", <<"permissions", "{id}">>, permission, "adminPermission"),
     on("DELETE", <<"permissions", "{id}">>, {}, "null"),
     on("GET", <<"audit">>, pagination, "adminAudit")}

(* handle: the handler a routed path is given to.                          *)
Dispatched(path) ==
    IF path[1] = "admin" THEN AdminBranches
    ELSE IF path[1] = "user" \/ path = <<"logout">> THEN UserBranches
    ELSE PublicBranches

-----------------------------------------------------------------------------
(* What becomes of a call.  A call is a method, a path, the fields of its  *)
(* query, whether it has a body and that body's fields, the kind of its    *)
(* API key ("none" without one), whether it has a bearer token and whether *)
(* a browser sent it.  The key and the token are good ones, and the        *)
(* service the handler asks succeeds: what is left are the answers the     *)
(* HTTP layer gives of its own accord, each a code and a status.           *)
Granted == <<"ok", 200>>
Malformed == <<"invalid_request", 400>>

(* queryFor: every parameter known and given once, the required ones there.*)
QueryAdmitted(c, call) == Fits(c.query, call.query)

(* parseRequestBody: a route without a schema does not look at the body;   *)
(* /token takes its schema from grant_type; /logout may have no body.      *)
BodyAdmitted(c, call) ==
    LET schemas ==
            IF c.body # "token" THEN {c.body}
            ELSE IF <<"grant_type", "refresh_token">> \in call.query THEN {"refreshToken"}
            ELSE IF <<"grant_type", "password">> \in call.query THEN {"passwordToken"}
            ELSE {"refreshToken", "passwordToken"} IN
    \/ c.body = "none"
    \/ c.body = "logout" /\ ~call.sent
    \/ call.sent /\ \E s \in schemas : Fits(Body(s), call.body)

(* authenticate: which credentials a route takes together.                 *)
Credentials(c, call) ==
    LET needed == \/ c.security = "user"
                  \/ c.security = "admin" /\ call.key # "secret"
                  \/ c.op = "authorizeOAuth" /\ <<"flow", "link_identity">> \in call.query
        taken == needed \/ c.security = "admin" \/ c.op \in {"signOut", "authorizeOAuth"} IN
    IF c.security = "signed" THEN Granted
    ELSE IF call.key = "none" THEN <<"unauthorized", 401>>
    ELSE IF call.key = "secret" /\ call.browser THEN <<"forbidden", 403>>
    ELSE IF needed /\ ~call.bearer THEN <<"unauthorized", 401>>
    ELSE IF call.bearer /\ ~taken THEN Malformed
    ELSE Granted

(* What the handlers refuse before they ask a service.                     *)
Handled(c, call) ==
    LET q == Names(call.query)
        byToken == <<"refresh_token">> \in call.body IN
    IF \/ <<"grant_type", "other">> \in call.query
       \/ <<"code_challenge_method", "plain">> \in call.query
       \/ <<"soft", "false">> \in call.query
       \/ ("scope_type" \in q) # ("scope_id" \in q)
       \/ c.op = "signOut" /\ byToken /\ call.bearer
    THEN Malformed
    ELSE IF c.op = "signOut" /\ ~byToken /\ ~call.bearer THEN <<"unauthorized", 401>>
    ELSE IF c.security = "signed" THEN <<"ok", 303>> ELSE Granted

(* handle: the checks in the order the server makes them.                  *)
Answered(call) ==
    LET path == Routed(call.path)
        found == {c \in Contracts : c.path = path /\ c.method = call.method} IN
    IF found = {} THEN IF path \in Paths THEN <<"invalid_request", 405>> ELSE <<"not_found", 404>>
    ELSE LET c == CHOOSE c \in found : TRUE
             right == Credentials(c, call) IN
         IF ~QueryAdmitted(c, call) \/ ~BodyAdmitted(c, call) THEN Malformed
         ELSE IF right # Granted THEN right
         ELSE Handled(c, call)

(* What a browser asks before a cross-origin call.                         *)
Preflight(path, method, headers) ==
    LET routed == Routed(path) IN
    IF routed \notin Paths \/ method \notin {"GET", "POST", "PUT", "DELETE"} THEN Malformed
    ELSE IF ~\E c \in Contracts : c.path = routed /\ c.method = method THEN <<"invalid_request", 405>>
    ELSE IF ~(headers \subseteq {"apikey", "authorization", "content-type", "x-request-id"})
    THEN <<"forbidden", 403>>
    ELSE <<"ok", 204>>

-----------------------------------------------------------------------------
(* Errors.                                                                 *)
PublicCodes ==
    {"invalid_request", "invalid_credentials", "unauthorized", "forbidden",
     "insufficient_permission", "not_found", "conflict", "invalid_token", "token_expired",
     "refresh_token_reused", "session_expired", "otp_invalid", "otp_expired",
     "otp_attempts_exceeded", "rate_limit_exceeded", "redirect_not_allowed",
     "oauth_state_invalid", "oauth_provider_error", "identity_already_linked",
     "identity_unlink_not_allowed", "internal_error"}

\* The codes services know among themselves, and what is said of them outside.
MappedCode ==
    [email_exists |-> "invalid_request", email_not_confirmed |-> "invalid_credentials",
     user_not_found |-> "invalid_request", identity_not_found |-> "not_found",
     protected_role |-> "forbidden", role_rank_violation |-> "forbidden"]

Denied == {"invalid_credentials", "unauthorized", "invalid_token", "token_expired",
           "refresh_token_reused", "session_expired", "otp_invalid", "otp_expired",
           "otp_attempts_exceeded"}

StatusForCode(code) ==
    CASE code \in Denied \union {"oauth_state_invalid"} -> 401
      [] code \in {"forbidden", "insufficient_permission"} -> 403
      [] code = "not_found" -> 404
      [] code \in {"conflict", "identity_already_linked"} -> 409
      [] code = "rate_limit_exceeded" -> 429
      [] code = "oauth_provider_error" -> 502
      [] code = "internal_error" -> 500
      [] OTHER -> 400

\* safeError: the answer to an error thrown below, whatever its code and status.
SafeError(code, status) ==
    LET known == IF code \in PublicCodes THEN code ELSE "internal_error" IN
    <<known, IF known = "invalid_request" /\ status \in {405, 413} THEN status
             ELSE StatusForCode(known)>>

\* The errors of the OAuth service, whose statuses are its own choice.
OAuthErrors ==
    {<<"oauth_state_invalid", 400>>, <<"oauth_provider_error", 502>>, <<"internal_error", 500>>,
     <<"invalid_request", 400>>, <<"invalid_token", 401>>, <<"not_found", 404>>,
     <<"redirect_not_allowed", 400>>, <<"conflict", 409>>, <<"unauthorized", 401>>,
     <<"identity_already_linked", 409>>, <<"identity_unlink_not_allowed", 400>>}

\* errorResponse: where the members of an error are in the body.
ErrorBody(code) == [error |-> "object", code |-> code, members |-> {"code", "message", "request_id"}]

\* safeRedirectTarget, of a URL's parts: a callback may only lead to an allowed page.
SafeRedirectTarget(url, allowed) ==
    /\ ~url.hash
    /\ \E base \in allowed : url.origin = base.origin /\ url.pathname = base.pathname

-----------------------------------------------------------------------------
(* The OpenAPI document, drawn from the same table.                        *)
DocumentedSecurity(c) ==
    CASE c.security = "signed" -> {[key |-> "none", bearer |-> FALSE]}
      [] c.security = "user" -> {[key |-> k, bearer |-> TRUE] : k \in {"publishable", "secret"}}
      [] c.security = "admin" -> {[key |-> "secret", bearer |-> FALSE],
                                  [key |-> "publishable", bearer |-> TRUE]}
      [] OTHER -> {[key |-> k, bearer |-> FALSE] : k \in {"publishable", "secret"}}

DocumentedStatuses(c) ==
    {400, 401, 403, 404, 405, 409, 413, 429, 500, 502}
        \union {IF c.op = "oauthCallback" THEN 303 ELSE 200}

DocumentedBody(c) == IF c.body = "none" THEN "none" ELSE "required"

DocumentedError == {"code", "message", "request_id"}

-----------------------------------------------------------------------------
(* What must hold of the tables.                                           *)
Instances(shape) == {fields \in SUBSET UNION Groups(shape) : Fits(shape, fields)}
BodySchemas(c) == IF c.body = "token" THEN {"refreshToken", "passwordToken"} ELSE {c.body}
Bodies(c) == UNION {Instances(Body(s)) : s \in BodySchemas(c)}
Admitted(c) == Names(UNION Groups(c.query))
                   \union UNION {Names(UNION Groups(Body(s))) : s \in BodySchemas(c)}

\* A path a template stands for.
Filled(path) == [i \in DOMAIN path |-> CASE path[i] \in {"{id}", "{roleId}"} -> UUID
                                         [] path[i] = "{provider}" -> "google"
                                         [] OTHER -> path[i]]

Call(c, query, sent, body, key, bearer, browser) ==
    [method |-> c.method, path |-> Filled(c.path), query |-> query, sent |-> sent,
     body |-> body, key |-> key, bearer |-> bearer, browser |-> browser]

\* Whether some call of a route succeeds with these credentials.
Served(c, sent, key, bearer) ==
    \E q \in Instances(c.query), b \in Bodies(c) :
        Answered(Call(c, q, sent, b, key, bearer, FALSE))[1] = "ok"

(* No two routes share a method and a path, or a name in the OpenAPI       *)
(* document, and every schema a route or a type names exists.  (The first  *)
(* of two such routes would be served and the second never: routeContract  *)
(* takes the first match.)                                                 *)
ASSUME ContractsAssumption ==
    /\ \A c \in Contracts, d \in Contracts :
           (c.method = d.method /\ c.path = d.path) \/ c.op = d.op => c = d
    /\ \A c \in Contracts :
           /\ c.body \in DOMAIN RequestSchemas \union DOMAIN AdminRequestSchemas \union {"none", "token"}
           /\ c.response \in DOMAIN Types
    /\ \A t \in DOMAIN Types : \A m \in Types[t] : m[2] \in Scalars \union DOMAIN Types

(* exactPath, written by hand, routes exactly the instances of the routes' *)
(* templates, each to its own template: for every route's path, whole, cut *)
(* short, lengthened, or with one segment replaced by another word.        *)
ASSUME RoutingAssumption ==
    LET Parameters == {"{id}", "{roleId}", "{provider}"}
        Words == (UNION {{p[i] : i \in DOMAIN p} : p \in Paths} \ Parameters)
                     \union {UUID, "", "other"}
        Whole == {Filled(p) : p \in Paths}
        Probes == Whole \union {SubSeq(p, 1, Len(p) - 1) : p \in {x \in Whole : Len(x) > 1}}
                        \union {Append(p, w) : p \in Whole, w \in Words}
                        \union UNION {{[p EXCEPT ![i] = w] : i \in DOMAIN p, w \in Words} : p \in Whole}
        Stands(t, p) == /\ Len(t) = Len(p)
                        /\ \A i \in DOMAIN t : \/ t[i] = p[i]
                                               \/ t[i] \in {"{id}", "{roleId}"} /\ p[i] = UUID
                                               \/ t[i] = "{provider}" /\ p[i] # "" IN
    \A p \in Probes : {t \in Paths : Stands(t, p)} = {Routed(p)} \intersect Paths

(* The handler a route is dispatched to has exactly one branch for it,     *)
(* which answers in the schema the route declares and leaves no admitted   *)
(* field unread but the provider's hints; and no branch is out of reach.   *)
ASSUME HandlersAssumption ==
    LET For(c) == {b \in Dispatched(c.path) : b.path = c.path /\ b.method \in {"*", c.method}} IN
    /\ \A c \in Contracts :
           /\ Cardinality(For(c)) = 1
           /\ \A b \in For(c) :
                  /\ b.answers = IF c.security = "signed" THEN "redirect" ELSE c.response
                  /\ Admitted(c) \ b.reads = IF c.security = "signed" THEN Hints ELSE {}
                  /\ c.op # "adminCreateUser" => b.reads \subseteq Admitted(c)
    /\ \A b \in PublicBranches \union UserBranches \union AdminBranches :
           \E c \in Contracts : b \in For(c)

(* An error has a documented status whatever was thrown; the OAuth         *)
(* service's errors keep theirs, but for a bad state, which it calls 400   *)
(* and the server 401; the codes services keep to themselves come out as   *)
(* public ones that do not tell a taken address from an unknown one.       *)
ASSUME ErrorsAssumption ==
    /\ \A c \in Contracts, code \in PublicCodes \union DOMAIN MappedCode, s \in {0, 200, 400, 405, 413, 503} :
           /\ SafeError(code, s)[2] \in DocumentedStatuses(c)
           /\ ErrorBody(SafeError(code, s)[1]).members = DocumentedError
    /\ \A e \in OAuthErrors : SafeError(e[1], e[2]) = e \/ e = <<"oauth_state_invalid", 400>>
    /\ \A code \in DOMAIN MappedCode : code \notin PublicCodes /\ MappedCode[code] \in PublicCodes
    /\ MappedCode.email_exists = MappedCode.user_not_found

(* The document tells the truth about credentials and bodies: with any set *)
(* of credentials it lists some call of the route succeeds, no call does   *)
(* with less, and a route said to require a body does, but for /logout,    *)
(* which serves the holder of an access token without one.                 *)
ASSUME DocumentAssumption ==
    \A c \in Contracts :
        /\ \A d \in DocumentedSecurity(c) : Served(c, TRUE, d.key, d.bearer)
        /\ \A key \in {"none", "publishable", "secret"}, bearer \in BOOLEAN :
               Served(c, TRUE, key, bearer) =>
                   \E d \in DocumentedSecurity(c) : d.key \in {"none", key} /\ (d.bearer => bearer)
        /\ DocumentedBody(c) = "required" /\ c.op # "signOut" =>
               \A key \in {"publishable", "secret"}, bearer \in BOOLEAN : ~Served(c, FALSE, key, bearer)
        /\ c.op = "signOut" => Answered(Call(c, {}, FALSE, {}, "publishable", TRUE, FALSE)) = Granted

=============================================================================
