------------------------------ MODULE Callers -------------------------------
(***************************************************************************)
(* Who stands at the two ends of AuthServer's HTTP contract: the browser   *)
(* client (client/auth-client.ts over client/transport.ts), the Node       *)
(* administration client (server/admin.ts), the routes an application can  *)
(* mount by themselves instead of AuthServer (routes/oauth.ts,             *)
(* routes/permissions.ts) and the Express adapter.  Each was written       *)
(* against the contract by hand.  The ASSUMEs say that they fit: what a    *)
(* client sends is admitted and served, what comes back is what its        *)
(* readers accept, and an error keeps its code on the way.                 *)
(***************************************************************************)
EXTENDS Protocol

-----------------------------------------------------------------------------
(* The browser client's readers: the members each copy function demands.   *)
(* "any" is a member that must be there and is not looked into.            *)
SessionReaders ==
    [user |-> Always({"id"}, "uuid") \union Always({"created_at", "updated_at"}, "text")
              \union Always({"user_metadata", "app_metadata"}, "json")
              \union Nullable({"email", "phone", "email_confirmed_at", "phone_confirmed_at",
                     "confirmed_at", "last_sign_in_at", "banned_until", "deleted_at"}, "text"),
     session |-> Always({"access_token", "refresh_token"}, "text")
              \union Always({"token_type"}, "bearer") \union Always({"user"}, "user")
              \union Always({"expires_in", "expires_at"}, "number"),
     publicAuth |-> Nullable({"user"}, "user") \union Nullable({"session"}, "session"),
     userData |-> Always({"user"}, "user"),
     sent |-> Always({"sent"}, "true")]

LoginReaders ==
    [authorize |-> Always({"provider", "url", "redirect", "expires_at"}, "text"),
     identityData |-> Optional({"email_verified"}, "boolean")
              \union Optional({"sub", "email", "name", "given_name", "family_name", "picture",
                     "avatar_url", "locale", "hd", "preferred_username"}, "text"),
     identity |-> Always({"id", "user_id"}, "uuid")
              \union Always({"provider", "provider_subject", "created_at", "updated_at"}, "text")
              \union Nullable({"email"}, "text") \union Always({"identity_data"}, "identityData"),
     identities |-> Listed({"identities"}, "identity"),
     permissions |-> Listed({"permissions"}, "text"),
     exchange |-> Always({"user"}, "user") \union Always({"session"}, "session")
              \union Always({"identity"}, "any"),
     null |-> {}]

Readers == [t \in DOMAIN SessionReaders \union DOMAIN LoginReaders |->
               IF t \in DOMAIN SessionReaders THEN SessionReaders[t] ELSE LoginReaders[t]]

\* Readers that refuse a member they do not know.
Closed == {"identityData", "null"}

(* Whether a reader accepts every answer of a type: it finds each member   *)
(* it demands, as the type it demands, and tolerates the member's absence  *)
(* or null wherever the answer may have it so.                             *)
Accepts(reader, type) ==
    /\ \A m \in Readers[reader] : \E n \in Types[type] :
           /\ n[1] = m[1]
           /\ m[2] \in {n[2], "any"}
           /\ n[3] = m[3] \/ (n[3] = "always" /\ m[3] = "null")
    /\ reader \in Closed => Names(Types[type]) \subseteq Names(Readers[reader])

-----------------------------------------------------------------------------
(* The browser client's calls: each a method, a path, the query and body   *)
(* it may send, whether it sends a body and the user's access token, and   *)
(* the reader of the answer.                                               *)
Asks(op, method, path, query, sent, body, bearer, reader) ==
    [op |-> op, method |-> method, path |-> path, query |-> query, sent |-> sent,
     body |-> body, bearer |-> bearer, reader |-> reader]
Posts(op, path, body, reader) == Asks(op, "POST", path, Empty, TRUE, body, FALSE, reader)

\* What the client calls the type of a one-time code, and what it sends for it.
WireOtpType == [emailOtp |-> "email_otp", email_otp |-> "email_otp", magicLink |-> "magic_link",
                magic_link |-> "magic_link", signup |-> "signup"]
OtpTypes == {WireOtpType[t] : t \in DOMAIN WireOtpType}

\* wireOptions: an empty object of options is sent as such, and is admitted.
WireOptions == One({"options.redirect_to", "options.data"})

SignInCalls ==
    {Posts("signUp", <<"signup">>, Strict(One({"email", "password"}), WireOptions), "publicAuth"),
     Asks("signInWithPassword", "POST", <<"token">>, Strict({{<<"grant_type", "password">>}}, {}),
          TRUE, Strict(One({"email", "password"}), {}), FALSE, "session"),
     Posts("signInWithOtp", <<"otp">>,
           Strict(One({"email"}), {Choice("options.type", OtpTypes)} \union One({"options.redirect_to"})),
           "publicAuth"),
     Posts("verifyOtp", <<"verify">>,
           Strict(One({"email", "token"}) \union {Choice("type", OtpTypes)}, One({"redirect_to"})),
           "publicAuth")}

\* startOAuth, for its two flows: only linking sends the access token.
OAuthCalls ==
    LET start(op, flow, bearer) ==
            Asks(op, "GET", <<"authorize">>,
                 Strict(One({"provider", "code_challenge", "redirect_to"})
                            \union {{<<"code_challenge_method", "S256">>}, {<<"flow", flow>>}}, {}),
                 FALSE, Empty, bearer, "authorize") IN
    {start("signInWithOAuth", "sign_in", FALSE), start("linkIdentity", "link_identity", TRUE)}

RefreshCall == Asks("refreshSession", "POST", <<"token">>, Strict({{<<"grant_type", "refresh_token">>}}, {}),
                    TRUE, Strict(One({"refresh_token"}), {}), FALSE, "session")

ExchangeCall == Posts("exchangeCodeForSession", <<"exchange">>,
                      Strict(One({"code", "code_verifier", "redirect_to"}), {}), "exchange")

RecoveryCalls ==
    {Posts("resetPasswordForEmail", <<"recover">>, Strict(One({"email"}), One({"redirect_to"})), "sent"),
     Posts("resetPassword", <<"recover", "verify">>,
           Strict(One({"email", "token", "password"}), One({"redirect_to"})), "userData"),
     Posts("resend", <<"resend">>,
           Strict(One({"email"}) \union {Choice("type", {"signup", "recovery"})},
                  One({"options.redirect_to"})), "sent")}

\* getUser and setSession ask the same.
SessionCalls ==
    {Asks(op, "GET", <<"user">>, Empty, FALSE, Empty, TRUE, "userData") : op \in {"getUser", "setSession"}}

UserCalls ==
    {Asks("updateUser", "PUT", <<"user">>, Empty, TRUE,
          Strict({}, One({"email", "user_metadata", "redirect_to"})), TRUE, "userData"),
     Asks("updatePassword", "PUT", <<"user", "password">>, Empty, TRUE,
          Strict(One({"current_password", "password"}), One({"revoke_other_sessions"})), TRUE, "userData"),
     Asks("getUserIdentities", "GET", <<"user", "identities">>, Empty, FALSE, Empty, TRUE, "identities"),
     Asks("unlinkIdentity", "DELETE", <<"user", "identities", UUID>>, Empty, FALSE, Empty, TRUE, "null"),
     Asks("getPermissions", "GET", <<"user", "permissions">>, Empty, FALSE, Empty, TRUE, "permissions"),
     Asks("getPermissions", "GET", <<"user", "permissions">>, Strict(One({"scope_type", "scope_id"}), {}),
          FALSE, Empty, TRUE, "permissions"),
     Asks("signOut", "POST", <<"logout">>, Empty, TRUE,
          Strict({Choice("scope", {"local", "global", "others"})}, {}), TRUE, "null")}

ClientCalls == SignInCalls \union OAuthCalls \union {RefreshCall, ExchangeCall}
                   \union RecoveryCalls \union SessionCalls \union UserCalls

\* The headers the transport puts on a call, besides the application's own.
HeadersOf(call) == {"apikey"} \union (IF call.bearer THEN {"authorization"} ELSE {})
                              \union (IF call.sent THEN {"content-type"} ELSE {})

-----------------------------------------------------------------------------
(* The administration client's calls, with the secret key, no access token *)
(* and no browser.  A body is the application's own object ("free") or one *)
(* the client builds; the answer goes to the application unread.           *)
Page == Strict({{<<"page">>}, {<<"per_page">>}}, {})
ScopeForms == {Empty, Strict(One({"scope_type", "scope_id"}), {})}

AdminCalls ==
    LET on(method, rest, query, body) ==
            [method |-> method, path |-> <<"admin">> \o rest, query |-> query, body |-> body]
        user == <<"users", UUID>>
        role == <<"roles", UUID>>
        permission == <<"permissions", UUID>>
        email == One({"email"}) IN
    {on("GET", <<"users">>, Page, "none"), on("GET", user, Empty, "none"),
     on("GET", <<"users", "find">>, Strict(email, {}), "none"),
     on("POST", <<"users">>, Empty, "free"), on("PATCH", user, Empty, "free"),
     on("DELETE", user, Strict({{<<"soft", "true">>}}, {}), "none"),
     on("POST", <<"users", "invite">>, Empty, "invite"),
     on("GET", <<"roles">>, Empty, "none"), on("POST", <<"roles">>, Empty, "free"),
     on("PATCH", role, Empty, "free"), on("DELETE", role, Empty, "none"),
     on("PUT", role \o <<"permissions">>, Empty, "permissionIds"),
     on("PUT", role \o <<"inheritance">>, Empty, "inheritedRoleIds"),
     on("GET", <<"permissions">>, Empty, "none"), on("POST", <<"permissions">>, Empty, "free"),
     on("PATCH", permission, Empty, "free"), on("DELETE", permission, Empty, "none"),
     on("GET", <<"audit">>, Page, "none")}
    \union {on(method, user \o role, scope, "none") : method \in {"PUT", "DELETE"}, scope \in ScopeForms}

(* Bounds the two ends put on the same value: the least and the greatest   *)
(* length of a string, of a list of ids, and of a body in bytes.           *)
ClientBounds ==
    [email |-> <<1, 320>>, signInPassword |-> <<1, 1024>>, newPassword |-> <<8, 1024>>,
     recoveryToken |-> <<1, 128>>, redirect |-> <<1, 2048>>]
ServerBounds ==
    [email |-> <<1, 320>>, signInPassword |-> <<8, 1024>>, newPassword |-> <<8, 1024>>,
     recoveryToken |-> <<1, 128>>, redirect |-> <<1, 2048>>]
IdsOfClient == 1000
IdsOfSchema == 10000
BodyBytes == 64 * 1024

\* {"inherited_role_ids":[...]}: an id is 36 characters, two quotes and a comma.
IdsBytes(n) == 24 + 39 * n

-----------------------------------------------------------------------------
(* Errors, as the two clients read them: a code and a status.              *)
Unreadable == <<"internal_error", 500>>

\* parseError: without a public code and a message there is nothing to tell.
ErrorRead(status, body) ==
    IF body.error = "object" /\ {"code", "message"} \subseteq body.members /\ body.code \in PublicCodes
    THEN <<body.code, status>> ELSE Unreadable

\* parsedError of the administration client has messages of its own.
AdminErrorRead(status, body) ==
    IF body.error # "object" THEN Unreadable
    ELSE <<IF "code" \in body.members /\ body.code \in PublicCodes THEN body.code ELSE "internal_error",
           IF status \in 400..599 THEN status ELSE 500>>

-----------------------------------------------------------------------------
(* The OAuth routes an application mounts without AuthServer.  They take   *)
(* no API key, admit fields of any name, and read "" for a missing one.    *)
RouteErrorStatus(code, status) ==
    LET allowed ==
            CASE code = "invalid_request" -> {400, 405}
              [] code \in Denied -> {401}
              [] code \in {"forbidden", "insufficient_permission", "identity_unlink_not_allowed"} -> {403}
              [] code = "not_found" -> {404}
              [] code \in {"conflict", "identity_already_linked"} -> {409}
              [] code = "rate_limit_exceeded" -> {429}
              [] code = "oauth_provider_error" -> {502}
              [] code \in {"redirect_not_allowed", "oauth_state_invalid"} -> {400}
              [] OTHER -> {500}
        fallback == CASE code = "invalid_request" -> 400 [] code = "oauth_provider_error" -> 502
                      [] code = "internal_error" -> 500 [] OTHER -> 401 IN
    IF status \in allowed THEN status ELSE fallback

MountedError(code) == [error |-> "object", code |-> code,
                       members |-> {"name", "message", "status", "code"}]

\* resultResponse: an error is written with its status, anything else is data.
MountedResult(e) == IF e[1] = "ok" THEN Granted ELSE <<e[1], RouteErrorStatus(e[1], e[2])>>

\* mapAuthorizeData and mapProviderDiscoveryData build these member by member.
MountedTypes ==
    [authorize |-> Always({"provider", "url", "redirect", "expires_at"}, "text"),
     provider |-> Always({"name"}, "text") \union Listed({"scopes"}, "text")
                  \union Always({"capabilities"}, "capabilities"),
     capabilities |-> Always({"authorization_code", "pkce", "identity_linking"}, "true")]

(* The four routes: method, fields read, and what a success is answered    *)
(* with.  providersRoute answers the list itself, where AuthServer answers *)
(* it as the member "providers".                                           *)
MountedRoutes ==
    {[op |-> "listProviders", method |-> "GET", reads |-> {}, answers |-> "list of provider"],
     [op |-> "authorizeOAuth", method |-> "GET", answers |-> "authorize",
      reads |-> {"flow", "code_challenge_method", "provider", "code_challenge", "redirect_to"}],
     [op |-> "oauthCallback", method |-> "GET", reads |-> {"code", "state"}, answers |-> "redirect"],
     [op |-> "exchangeCodeForSession", method |-> "POST", answers |-> "exchange",
      reads |-> {"code", "code_verifier", "redirect_to"}]}

(* A URL is its origin, its path, the names of its parameters, the code    *)
(* among them, and whether it has a fragment.                              *)
RedirectWithCode(url, code) == [url EXCEPT !.params = @ \union {"code"}, !.code = code]

Reserved == {"state", "code_verifier", "access_token", "refresh_token", "id_token"}

\* mapCallbackData: where callbackRoute lets the browser be sent.
ValidCallbackUrl(redirect, url, code, allowed) ==
    /\ redirect \in allowed
    /\ url.origin = redirect.origin /\ url.pathname = redirect.pathname /\ ~url.hash
    /\ url.code = code
    /\ url.params \intersect Reserved = {}

(* permissionsRoute, of a method, a query and whether it was given a       *)
(* subject: the malformed request is told before the missing subject.      *)
PermissionsAnswer(method, query, subject) ==
    IF method # "GET" THEN <<"invalid_request", 405>>
    ELSE IF query \notin {{}, {<<"scope_type">>, <<"scope_id">>}} THEN Malformed
    ELSE IF ~subject THEN <<"unauthorized", 401>> ELSE Granted

\* What becomes there of an error's code; internal_error is the route's own.
PermissionsCode(code) ==
    IF code \in {"invalid_request", "unauthorized", "forbidden", "insufficient_permission"}
    THEN code ELSE "invalid_request"

-----------------------------------------------------------------------------
(* The Express adapter.                                                    *)

\* Which entry, from 0, of a forwarded chain is the client, behind `hops` proxies.
ClientEntry(length, hops) == IF length > hops THEN length - hops ELSE 0

(* The body given to the Web request, of what Express left in request.body *)
(* ("none", "null", "text" or "object") and the content type.              *)
AdaptedBody(method, parsed, type) ==
    IF method \in {"GET", "HEAD"} THEN "none"
    ELSE IF parsed = "none" THEN "stream"
    ELSE IF parsed = "text" \/ type = "json" \/ (parsed = "object" /\ type = "form") THEN "text"
    ELSE "refused"

\* Headers: what a proxy may have said is replaced by what the adapter found.
AdaptedHeaders(headers, rebuilt, forwarded) ==
    LET spoken == {"x-forwarded-for", "x-forwarded-host", "x-forwarded-proto"} IN
    (headers \ (spoken \union {"host", "x-real-ip", "forwarded"}
                    \union IF rebuilt THEN {"content-length", "transfer-encoding"} ELSE {}))
        \union {"host", "x-real-ip"} \union (IF forwarded THEN spoken ELSE {})

\* fail: the error is a text, not an object.
AdapterFailure == [error |-> "text", code |-> "none", members |-> {}]

\* toExpressHandler: its status and whether the body is the server's.
Adapted(body, handled) ==
    IF body = "refused" THEN <<400, "adapter">>
    ELSE IF handled THEN <<200, "server">> ELSE <<500, "adapter">>

-----------------------------------------------------------------------------
(* What must hold between the two ends.                                    *)
RowOf(call) == CHOOSE c \in Contracts : c.method = call.method /\ c.path = Routed(call.path)

\* A call of the browser client in all its forms.
Forms(call) ==
    {[method |-> call.method, path |-> call.path, query |-> q, sent |-> call.sent, body |-> b,
      key |-> "publishable", bearer |-> call.bearer, browser |-> TRUE] :
         q \in Instances(call.query), b \in Instances(call.body)}

(* Everything the browser client sends is admitted and served, but for the *)
(* one-time code of a sign-up, which the client offers and the schema of   *)
(* /otp does not.  It sends the access token exactly where the call is     *)
(* refused without it, and nowhere else.                                   *)
ASSUME ClientCallsAssumption ==
    \A call \in ClientCalls : \A form \in Forms(call) :
        /\ Answered(form) =
               IF call.op = "signInWithOtp" /\ <<"options.type", "signup">> \in form.body
               THEN Malformed ELSE Granted
        /\ call.bearer => Answered([form EXCEPT !.bearer = FALSE]) = <<"unauthorized", 401>>

(* So is everything the administration client sends, with any object the   *)
(* schema admits where the object is the application's; every              *)
(* administration route has a call, and a browser with the publishable key *)
(* and an access token could make it too.                                  *)
ASSUME AdminCallsAssumption ==
    /\ \A call \in AdminCalls :
           LET c == RowOf(call)
               sent == call.body # "none" IN
           /\ call.body \in {"free", c.body}
           /\ \A q \in Instances(call.query), b \in Bodies(c) :
                  /\ \A bearer \in BOOLEAN :
                         Answered(Call(c, q, sent, b, "secret", bearer, FALSE)) = Granted
                  /\ Answered(Call(c, q, sent, b, "publishable", TRUE, TRUE)) = Granted
    /\ {c \in Contracts : c.security = "admin"} = {RowOf(call) : call \in AdminCalls}

(* A browser lets the client make each of its calls across origins: the    *)
(* preflight admits the method and the headers.  It does not admit PATCH,  *)
(* though it advertises it, so that a page cannot make the calls of the    *)
(* administration routes that need it.                                     *)
ASSUME PreflightAssumption ==
    /\ \A call \in ClientCalls : Preflight(call.path, call.method, HeadersOf(call)) = <<"ok", 204>>
    /\ \A c \in Contracts : c.method = "PATCH" =>
           Preflight(Filled(c.path), c.method, {"apikey"}) = Malformed

(* Every answer a route may give is one the client's reader for that call  *)
(* accepts; and the types read inside another are accepted the same way.   *)
ASSUME ReadersAssumption ==
    /\ \A call \in ClientCalls : Accepts(call.reader, RowOf(call).response)
    /\ \A t \in DOMAIN Readers \intersect DOMAIN Types : Accepts(t, t)

(* What the client lets through is not too long for the server, and the    *)
(* server's own least lengths hold but for the password of a sign-in.  The *)
(* longest list of ids of the administration client fits into a body; the  *)
(* longest the schema names does not.                                      *)
ASSUME BoundsAssumption ==
    /\ \A f \in DOMAIN ClientBounds :
           /\ ClientBounds[f][2] <= ServerBounds[f][2]
           /\ ClientBounds[f][1] >= ServerBounds[f][1] \/ f = "signInPassword"
    /\ IdsBytes(IdsOfClient) <= BodyBytes
    /\ IdsBytes(IdsOfSchema) > BodyBytes

(* Both clients read the code and the status of every error of AuthServer  *)
(* and of the mounted routes; a failure of the adapter is an internal      *)
(* error to both.                                                          *)
ASSUME ErrorsReadAssumption ==
    /\ \A code \in PublicCodes, status \in {400, 401, 403, 404, 405, 409, 413, 429, 500, 502} :
           \A body \in {ErrorBody(code), MountedError(code)} :
               /\ ErrorRead(status, body) = <<code, status>>
               /\ AdminErrorRead(status, body) = <<code, status>>
    /\ \A status \in {400, 500} : /\ ErrorRead(status, AdapterFailure) = Unreadable
                                  /\ AdminErrorRead(status, AdapterFailure) = Unreadable

(* A mounted route and AuthServer give an error of the OAuth service the   *)
(* same code, and the same status but for two: a bad state is 400 there    *)
(* and 401 here, a refused unlink 401 there and 400 here.  They read the   *)
(* same fields and build the same types.                                   *)
ASSUME MountedAssumption ==
    /\ \A e \in OAuthErrors :
           /\ MountedResult(e)[1] = SafeError(e[1], e[2])[1]
           /\ MountedResult(e) = SafeError(e[1], e[2])
                  \/ e[1] \in {"oauth_state_invalid", "identity_unlink_not_allowed"}
    /\ MountedResult(<<"oauth_state_invalid", 400>>) = <<"oauth_state_invalid", 400>>
    /\ MountedResult(<<"identity_unlink_not_allowed", 400>>) = <<"identity_unlink_not_allowed", 401>>
    /\ \A t \in DOMAIN MountedTypes : MountedTypes[t] = Types[t]
    /\ \A m \in MountedRoutes : \E c \in Contracts, b \in PublicBranches :
           /\ c.op = m.op /\ c.method = m.method /\ b.path = c.path
           /\ b.reads = m.reads
           /\ m.answers = b.answers \/ m.op = "listProviders"

(* The permissions route mounted alone serves what AuthServer serves to    *)
(* the holder of a good key: the subject stands for the access token.      *)
ASSUME PermissionsAssumption ==
    LET c == CHOOSE r \in Contracts : r.op = "getUserPermissions" IN
    \A q \in SUBSET {<<"scope_type">>, <<"scope_id">>, <<"page">>}, subject \in BOOLEAN :
        LET here == Answered(Call(c, q, FALSE, {}, "publishable", subject, FALSE))
            there == PermissionsAnswer("GET", q, subject) IN
        /\ (here = Granted) <=> (there = Granted)
        /\ PermissionsCode(there[1]) = there[1] \/ there = Granted
        /\ subject => here = there

(* Where the OAuth service sends the browser back, both callback routes    *)
(* let it go, if the redirect has no fragment.  The mounted one also       *)
(* refuses a redirect that has a parameter of its own by one of five       *)
(* names, when the code it was to carry is already issued.                 *)
ASSUME CallbackAssumption ==
    \A params \in SUBSET {"state", "id_token", "tab", "code"}, hash \in BOOLEAN :
        LET redirect == [origin |-> "app", pathname |-> "/done", params |-> params,
                         code |-> "old", hash |-> hash]
            url == RedirectWithCode(redirect, "new") IN
        /\ SafeRedirectTarget(url, {redirect}) <=> ~hash
        /\ ValidCallbackUrl(redirect, url, "new", {redirect}) <=>
               ~hash /\ params \intersect Reserved = {}

(* Behind `hops` proxies that each append the address they were called     *)
(* from, the entry the adapter takes is the one the first of them wrote,   *)
(* however many the caller wrote before.  Every call of the client gets    *)
(* through with its headers, when Express leaves a call without a body     *)
(* none; an empty object in its place is refused.                          *)
ASSUME AdapterAssumption ==
    /\ \A hops \in 1..32, written \in 0..32 :
           written + hops <= 33 => ClientEntry(written + hops, hops) = written
    /\ \A call \in ClientCalls :
           LET type == IF call.sent THEN "json" ELSE "none"
               body == AdaptedBody(call.method, IF call.sent THEN "object" ELSE "none", type) IN
           /\ Adapted(body, TRUE) = <<200, "server">>
           /\ HeadersOf(call) \subseteq AdaptedHeaders(HeadersOf(call), call.sent, TRUE)
           /\ ~call.sent /\ call.method # "GET" =>
                  Adapted(AdaptedBody(call.method, "object", type), TRUE) = <<400, "adapter">>

=============================================================================
