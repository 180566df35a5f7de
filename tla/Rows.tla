-------------------------------- MODULE Rows --------------------------------
(***************************************************************************)
(* The rows of the auth tables between PostgreSQL and an HTTP answer: the  *)
(* columns the schema contract requires, the row types the repositories    *)
(* are compiled against (repositories/schema.ts), the columns their        *)
(* queries select, and what the mappers (repositories/mapping.ts and       *)
(* repositories/admin.ts) make of a row.  Nothing in the code derives one  *)
(* of these lists from another: Kysely believes schema.ts, and a response  *)
(* schema is applied when the answer is already on its way.                *)
(*                                                                         *)
(* A column is <<name, type, presence>>, as a member of an answer is.      *)
(***************************************************************************)
EXTENDS Protocol

\* Columns by type: those that are NOT NULL and those that may be null.
Table(firm, nullable) == UNION {Always(firm[t], t) : t \in DOMAIN firm}
                             \union UNION {Nullable(nullable[t], t) : t \in DOMAIN nullable}
Firm(firm) == Table(firm, << >>)

(* REQUIRED_COLUMNS, which verifySchema compares with the database.        *)
RequiredColumns ==
    LET kept == {"created_at", "updated_at"} IN
    [users |-> Table([uuid |-> {"id"}, json |-> {"user_metadata", "app_metadata"}, time |-> kept],
                     [text |-> {"email", "email_normalized", "phone", "phone_normalized"},
                      time |-> {"email_confirmed_at", "phone_confirmed_at", "last_sign_in_at",
                                "banned_until", "deleted_at"}]),
     identities |-> Table([uuid |-> {"id", "user_id"}, text |-> {"provider", "provider_subject"},
                           json |-> {"identity_data"}, time |-> kept],
                          [text |-> {"email", "email_normalized"}]),
     password_credentials |-> Firm([uuid |-> {"user_id"}, text |-> {"password_hash"},
                                    time |-> {"password_updated_at"}]),
     sessions |-> Table([uuid |-> {"id", "user_id"}, number |-> {"aal"},
                         time |-> {"created_at", "refreshed_at", "expires_at"}],
                        [inet |-> {"ip_address"}, text |-> {"user_agent"}, time |-> {"revoked_at"}]),
     refresh_tokens |-> Table([uuid |-> {"id", "session_id", "family_id"}, bytes |-> {"token_hash"},
                               time |-> {"issued_at", "expires_at"}],
                              [uuid |-> {"parent_id", "replacement_id"},
                               time |-> {"used_at", "revoked_at"}]),
     one_time_tokens |-> Table([uuid |-> {"id"}, text |-> {"purpose", "target"},
                                bytes |-> {"token_hash"}, json |-> {"metadata"},
                                number |-> {"attempt_count"}, time |-> {"created_at", "expires_at"}],
                               [uuid |-> {"user_id"}, text |-> {"redirect"}, time |-> {"consumed_at"}]),
     oauth_states |-> Table([uuid |-> {"id"}, bytes |-> {"state_hash"},
                             text |-> {"provider", "flow", "pkce_challenge", "redirect_target"},
                             time |-> {"expires_at", "created_at"}],
                            [bytes |-> {"encrypted_verifier"}, uuid |-> {"linking_user_id"},
                             time |-> {"consumed_at"}]),
     roles |-> Table([uuid |-> {"id"}, text |-> {"key", "name"}, number |-> {"rank"},
                      boolean |-> {"is_system"}, time |-> kept], [text |-> {"description"}]),
     permissions |-> Table([uuid |-> {"id"}, text |-> {"key", "resource", "action"}, time |-> kept],
                           [text |-> {"description"}]),
     role_permissions |-> Firm([uuid |-> {"role_id", "permission_id"}]),
     role_inheritance |-> Firm([uuid |-> {"role_id", "inherits_role_id"}]),
     user_roles |-> Table([uuid |-> {"user_id", "role_id"}, time |-> {"assigned_at"}],
                          [text |-> {"scope_type", "scope_id"}, uuid |-> {"assigned_by"},
                           time |-> {"expires_at"}]),
     api_keys |-> Table([uuid |-> {"id"}, text |-> {"prefix", "kind", "name"}, bytes |-> {"key_hash"},
                         texts |-> {"scopes"}, time |-> {"created_at"}],
                        [time |-> {"last_used_at", "expires_at", "revoked_at"}]),
     audit_log |-> Table([uuid |-> {"id"}, text |-> {"action", "target_type", "outcome"},
                          json |-> {"metadata"}, time |-> {"occurred_at"}],
                         [uuid |-> {"actor_user_id", "actor_key_id", "actor_session_id", "target_id"},
                          inet |-> {"ip_address"}, text |-> {"user_agent"}]),
     rate_limit_buckets |-> Firm([bytes |-> {"key_digest"}, text |-> {"bucket"}, number |-> {"count"},
                                  time |-> kept \union {"window_start", "window_end"}]),
     schema_migrations |-> Firm([text |-> {"version", "checksum", "package_version"},
                                 number |-> {"migration_order"}, time |-> {"applied_at"}])]

(* The row types of the tables that hold accounts ...                      *)
AccountRows ==
    [users |-> Table([uuid |-> {"id"}, json |-> {"user_metadata", "app_metadata"},
                      time |-> {"created_at", "updated_at"}],
                     [text |-> {"email", "email_normalized", "phone", "phone_normalized"},
                      time |-> {"email_confirmed_at", "phone_confirmed_at", "last_sign_in_at",
                                "banned_until", "deleted_at"}]),
     identities |-> Table([uuid |-> {"id", "user_id"}, text |-> {"provider", "provider_subject"},
                           json |-> {"identity_data"}, time |-> {"created_at", "updated_at"}],
                          [text |-> {"email", "email_normalized"}]),
     password_credentials |-> Firm([uuid |-> {"user_id"}, text |-> {"password_hash"},
                                    time |-> {"password_updated_at"}]),
     sessions |-> Table([uuid |-> {"id", "user_id"}, number |-> {"aal"},
                         time |-> {"created_at", "refreshed_at", "expires_at"}],
                        [text |-> {"ip_address", "user_agent"}, time |-> {"revoked_at"}]),
     refresh_tokens |-> Table([uuid |-> {"id", "session_id", "family_id"}, bytes |-> {"token_hash"},
                               time |-> {"issued_at", "expires_at"}],
                              [uuid |-> {"parent_id", "replacement_id"},
                               time |-> {"used_at", "revoked_at"}]),
     one_time_tokens |-> Table([uuid |-> {"id"}, text |-> {"purpose", "target"},
                                bytes |-> {"token_hash"}, json |-> {"metadata"},
                                number |-> {"attempt_count"}, time |-> {"created_at", "expires_at"}],
                               [uuid |-> {"user_id"}, text |-> {"redirect"}, time |-> {"consumed_at"}])]

(* ... and of those that hold grants, keys and records.                    *)
GrantRows ==
    [roles |-> Table([uuid |-> {"id"}, text |-> {"key", "name"}, number |-> {"rank"},
                      boolean |-> {"is_system"}, time |-> {"created_at", "updated_at"}],
                     [text |-> {"description"}]),
     permissions |-> Table([uuid |-> {"id"}, text |-> {"key", "resource", "action"},
                            time |-> {"created_at", "updated_at"}], [text |-> {"description"}]),
     role_permissions |-> Firm([uuid |-> {"role_id", "permission_id"}]),
     role_inheritance |-> Firm([uuid |-> {"role_id", "inherits_role_id"}]),
     user_roles |-> Table([uuid |-> {"user_id", "role_id"}, time |-> {"assigned_at"}],
                          [text |-> {"scope_type", "scope_id"}, uuid |-> {"assigned_by"},
                           time |-> {"expires_at"}]),
     oauth_states |-> Table([uuid |-> {"id"}, bytes |-> {"state_hash"},
                             text |-> {"provider", "flow", "pkce_challenge", "redirect_target"},
                             time |-> {"expires_at", "created_at"}],
                            [bytes |-> {"encrypted_verifier"}, uuid |-> {"linking_user_id"},
                             time |-> {"consumed_at"}]),
     api_keys |-> Table([uuid |-> {"id"}, text |-> {"prefix", "kind", "name"}, bytes |-> {"key_hash"},
                         texts |-> {"scopes"}, time |-> {"created_at"}],
                        [time |-> {"last_used_at", "expires_at", "revoked_at"}]),
     audit_log |-> Table([uuid |-> {"id"}, text |-> {"action", "target_type", "outcome"},
                          json |-> {"metadata"}, time |-> {"occurred_at"}],
                         [uuid |-> {"actor_user_id", "actor_key_id", "actor_session_id", "target_id"},
                          text |-> {"ip_address", "user_agent"}]),
     rate_limit_buckets |-> Firm([bytes |-> {"key_digest"}, text |-> {"bucket"}, number |-> {"count"},
                                  time |-> {"window_start", "window_end", "created_at", "updated_at"}])]

RowTypes == [t \in DOMAIN AccountRows \union DOMAIN GrantRows |->
                IF t \in DOMAIN AccountRows THEN AccountRows[t] ELSE GrantRows[t]]

\* What the driver makes of a column's type: an address comes as a string.
Read(columns) == {<<c[1], IF c[2] = "inet" THEN "text" ELSE c[2], c[3]>> : c \in columns}

(* The columns a query selects for each mapper; the lists that name every  *)
(* column of their table are written out there all the same.               *)
SelectedColumns ==
    [mapUser |-> Names(AccountRows.users), mapIdentity |-> Names(AccountRows.identities),
     mapSession |-> Names(AccountRows.sessions),
     mapRefreshToken |-> Names(AccountRows.refresh_tokens),
     mapRole |-> Names(GrantRows.roles), mapPermission |-> Names(GrantRows.permissions),
     mapConsumedOneTimeToken |-> {"user_id", "purpose", "target", "redirect", "metadata", "expires_at"},
     mapOAuthState |-> {"id", "state_hash", "provider", "flow", "pkce_challenge", "encrypted_verifier",
                        "redirect_target", "linking_user_id", "expires_at", "consumed_at"},
     mapApiKey |-> {"id", "prefix", "key_hash", "kind", "scopes", "expires_at", "revoked_at"}]

AuditColumns == {"id", "actor_user_id", "actor_key_id", "actor_session_id", "action", "target_type",
                 "target_id", "ip_address", "user_agent", "metadata", "outcome", "occurred_at"}
ApiKeyColumns == {"id", "name", "prefix", "kind", "scopes", "last_used_at", "expires_at",
                  "revoked_at", "created_at"}

(* The mappers: the table, the members copied under their column's name,   *)
(* and those an iso or a nullableIso makes a text of.                      *)
Mapper(table, copied, iso, nullableIso) ==
    [table |-> table, copied |-> copied, iso |-> iso, nullableIso |-> nullableIso]

RowMappers ==
    LET kept == {"created_at", "updated_at"}
        whole(table) == Mapper(table, Names(RowTypes[table]), {}, {}) IN
    [mapUser |-> Mapper("users", {"id", "email", "phone", "user_metadata", "app_metadata"}, kept,
                        {"email_confirmed_at", "phone_confirmed_at", "last_sign_in_at",
                         "banned_until", "deleted_at"}),
     mapIdentity |-> Mapper("identities", {"id", "user_id", "provider", "provider_subject", "email",
                                           "identity_data"}, kept, {}),
     mapSession |-> whole("sessions"), mapRefreshToken |-> whole("refresh_tokens"),
     mapRole |-> Mapper("roles", {"id", "key", "name", "description", "rank", "is_system"}, kept, {}),
     mapPermission |-> Mapper("permissions", {"id", "key", "resource", "action", "description"}, kept, {}),
     mapConsumedOneTimeToken |-> Mapper("one_time_tokens", {"user_id", "purpose", "target", "redirect",
                                                            "metadata", "expires_at"}, {}, {}),
     mapOAuthState |-> Mapper("oauth_states", {"id", "state_hash", "provider", "flow", "pkce_challenge",
                                               "encrypted_verifier", "redirect_target",
                                               "linking_user_id", "expires_at", "consumed_at"}, {}, {}),
     mapApiKey |-> Mapper("api_keys", {"id", "prefix", "kind", "scopes", "key_hash", "expires_at",
                                       "revoked_at"}, {}, {})]

AdminRowMappers ==
    [mapAdminApiKey |-> Mapper("api_keys", {"id", "name", "prefix", "kind", "scopes", "last_used_at",
                                            "expires_at", "revoked_at", "created_at"}, {}, {}),
     mapAudit |-> Mapper("audit_log", {"id", "actor_user_id", "actor_key_id", "actor_session_id",
                                       "action", "target_type", "target_id", "ip_address", "user_agent",
                                       "metadata", "outcome", "occurred_at"}, {}, {})]

\* firstConfirmation: the earlier of the two confirmations that are there.
Confirmed(m) == IF m.table = "users" THEN Nullable({"confirmed_at"}, "text") ELSE {}

Reads(m) == m.copied \union m.iso \union m.nullableIso
Gives(m) ==
    {c \in RowTypes[m.table] : c[1] \in m.copied} \union Confirmed(m)
        \union {<<c[1], "text", c[3]>> : c \in {d \in RowTypes[m.table] : d[1] \in m.iso \union m.nullableIso}}

(* snapshotValue: an answer is copied before it is checked, and a Date, a  *)
(* Buffer or any object with a prototype of its own ends it there.         *)
Plain(members) == \A m \in members : m[2] \notin {"time", "bytes"}

\* What of an answer the schema looks at: identity_data is safe by its parse.
Validated(members) == {<<m[1], IF m[1] = "identity_data" THEN "identityData" ELSE m[2], m[3]>> : m \in members}

-----------------------------------------------------------------------------
(* The row types are the tables the contract requires, but for the history *)
(* of migrations, which no repository reads.                               *)
ASSUME RowTypesAssumption ==
    /\ DOMAIN RequiredColumns = DOMAIN RowTypes \union {"schema_migrations"}
    /\ \A t \in DOMAIN RowTypes : RowTypes[t] = Read(RequiredColumns[t])

(* A mapper reads only what its query selects, converts a time as its      *)
(* column's nullability asks, and every selected column exists.            *)
ASSUME MappersAssumption ==
    LET fits(m, selected) ==
            /\ Reads(m) \subseteq selected
            /\ selected \subseteq Names(RowTypes[m.table])
            /\ \A n \in m.iso : <<n, "time", "always">> \in RowTypes[m.table]
            /\ \A n \in m.nullableIso : <<n, "time", "null">> \in RowTypes[m.table] IN
    /\ \A f \in DOMAIN RowMappers : fits(RowMappers[f], SelectedColumns[f])
    /\ fits(AdminRowMappers.mapAudit, AuditColumns)
    /\ fits(AdminRowMappers.mapAdminApiKey, ApiKeyColumns)

(* What the mappers give is, member for member, what the strict response   *)
(* schemas admit, and passes the copy that precedes them; except an audit  *)
(* event, whose occurred_at is still a Date, so that GET /admin/audit      *)
(* answers internal_error as soon as one event is stored.  A digest or a   *)
(* password is in no answer and in no administration record of a key.      *)
ASSUME AnswersFromRowsAssumption ==
    LET answered == [user |-> "mapUser", identity |-> "mapIdentity", adminRoleRow |-> "mapRole",
                     adminPermissionRow |-> "mapPermission"] IN
    /\ \A t \in DOMAIN answered :
           /\ Validated(Gives(RowMappers[answered[t]])) = Types[t]
           /\ Plain(Gives(RowMappers[answered[t]]))
    /\ LET event == Gives(AdminRowMappers.mapAudit) IN
           /\ ~Plain(event)
           /\ event = {m \in Types.adminEvent : m[1] # "occurred_at"}
                          \union {<<"occurred_at", "time", "always">>}
    /\ \A m \in Gives(AdminRowMappers.mapAdminApiKey) : m[2] # "bytes"

=============================================================================
