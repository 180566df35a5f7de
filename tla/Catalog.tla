-------------------------------- MODULE Catalog --------------------------------
(***************************************************************************)
(* What the migration files of packages/mrjim-auth/src/postgres/migrations *)
(* make of the auth schema, and what internal/schema-contract.ts requires  *)
(* of it.                                                                  *)
(*                                                                         *)
(* An object of the schema is <<table, name>>, and <<"auth", name>> when   *)
(* it belongs to no table: the constraint sessions_aal_check is            *)
(* <<"sessions", "aal_check">>.  Its form (its SQL) is named by the file   *)
(* that made it so.  The columns of a table are one object.                *)
(***************************************************************************)
EXTENDS Integers, Sequences

Manifest == <<"0001_core", "0002_authorization", "0003_oauth_operations",
              "0004_repository_hardening", "0005_oauth_callback",
              "0006_admin_operations", "0007_legacy_bcrypt_passwords">>
Content == {Manifest[i] : i \in 1..Len(Manifest)}

\* The catalog queries, in the order in which they are made.
Kinds == <<"tables", "columns", "indexes", "constraints", "functions", "triggers">>
Kind == {Kinds[i] : i \in 1..Len(Kinds)}

\* Objects by table, and objects of the schema.
Of(byTable) == UNION {{<<t, n>> : n \in byTable[t]} : t \in DOMAIN byTable}
Own(names) == {<<"auth", n>> : n \in names}

-------------------------------------------------------------------------------
\* What a file creates, adds or replaces.  keys: primary keys and UNIQUE constraints,
\* which are constraints and indexes.

Core == [
  tables |-> {"schema_migrations", "users", "identities", "password_credentials",
              "sessions", "refresh_tokens", "one_time_tokens"},
  alters |-> {},
  keys |-> [schema_migrations |-> {"pkey", "migration_order_key"}, users |-> {"pkey"},
            identities |-> {"pkey", "provider_subject_key"}, password_credentials |-> {"pkey"},
            sessions |-> {"pkey"}, refresh_tokens |-> {"pkey", "token_hash_key"},
            one_time_tokens |-> {"pkey", "token_hash_key"}],
  checks |-> [
    schema_migrations |-> {"version_check", "migration_order_check", "checksum_check",
                           "package_version_check"},
    users |-> {"user_metadata_object_check", "app_metadata_object_check",
               "email_normalized_check", "phone_normalized_check"},
    identities |-> {"provider_check", "provider_subject_check", "email_normalized_check",
                    "identity_data_object_check", "user_id_fkey"},
    password_credentials |-> {"hash_check", "user_id_fkey"},
    sessions |-> {"aal_check", "expiry_check", "user_id_fkey"},
    refresh_tokens |-> {"token_hash_length_check", "expiry_check", "parent_check",
                        "replacement_check", "session_id_fkey", "parent_id_fkey",
                        "replacement_id_fkey"},
    one_time_tokens |-> {"purpose_check", "token_hash_length_check", "target_check",
                         "attempt_count_check", "metadata_object_check", "expiry_check",
                         "recovery_ttl_check", "signup_ttl_check", "user_id_fkey"}],
  indexes |-> [users |-> {"email_normalized_key", "phone_normalized_key"}],
  functions |-> {"is_strong_argon2id_hash"},
  triggers |-> <<>>]

Authorization == [
  tables |-> {"roles", "permissions", "role_permissions", "role_inheritance", "user_roles"},
  alters |-> {},
  keys |-> [roles |-> {"pkey", "key_unique"}, permissions |-> {"pkey", "key_unique"},
            role_permissions |-> {"pkey"}, role_inheritance |-> {"pkey"}],
  checks |-> [
    roles |-> {"key_check", "name_check", "rank_check"},
    permissions |-> {"resource_check", "action_check", "key_check", "wildcard_check"},
    role_permissions |-> {"role_id_fkey", "permission_id_fkey"},
    \* A constraint trigger has a row among the constraints too.
    role_inheritance |-> {"role_id_fkey", "inherits_role_id_fkey", "cycle_guard"},
    user_roles |-> {"scope_pair_check", "expiry_check", "user_id_fkey", "role_id_fkey",
                    "assigned_by_fkey"}],
  indexes |-> [user_roles |-> {"global_key", "scoped_key"}],
  functions |-> {"prevent_role_inheritance_cycle"},
  triggers |-> [role_inheritance |-> {"cycle_guard"}]]

OAuthOperations == [
  tables |-> {"oauth_states", "api_keys", "audit_log"},
  alters |-> {},
  keys |-> [oauth_states |-> {"pkey", "state_hash_key"},
            api_keys |-> {"pkey", "key_hash_key", "prefix_key"}, audit_log |-> {"pkey"}],
  checks |-> [
    oauth_states |-> {"state_hash_length_check", "provider_check", "flow_check",
                      "pkce_challenge_check", "redirect_target_check", "expiry_check",
                      "ttl_check", "linking_user_id_fkey"},
    api_keys |-> {"prefix_check", "key_hash_length_check", "kind_check", "expiry_check"},
    audit_log |-> {"action_check", "target_type_check", "metadata_object_check",
                   "metadata_redaction_check", "outcome_check"}],
  indexes |-> <<>>,
  functions |-> {"audit_metadata_is_safe", "audit_metadata_redaction_guard",
                 "reject_audit_mutation"},
  triggers |-> [audit_log |-> {"metadata_redaction_guard", "immutable_guard"}]]

Hardening == [
  tables |-> {}, alters |-> {}, keys |-> <<>>,
  checks |-> [one_time_tokens |-> {"metadata_redaction_check"},
              oauth_states |-> {"flow_check"}],
  indexes |-> <<>>, functions |-> {}, triggers |-> <<>>]

OAuthCallback == [
  tables |-> {}, alters |-> {}, keys |-> <<>>,
  checks |-> [one_time_tokens |-> {"purpose_check", "oauth_callback_ttl_check"}],
  indexes |-> <<>>, functions |-> {}, triggers |-> <<>>]

AdminOperations == [
  tables |-> {"rate_limit_buckets"}, alters |-> {"api_keys"},
  keys |-> [rate_limit_buckets |-> {"pkey"}],
  checks |-> [
    api_keys |-> {"name_check"}, permissions |-> {"resource_check"},
    rate_limit_buckets |-> {"key_digest_length_check", "bucket_check", "window_check",
                            "count_check", "updated_at_check"}],
  indexes |-> [api_keys |-> {"active_name_key"},
               audit_log |-> {"occurred_at_id_idx", "actor_user_occurred_at_id_idx"},
               rate_limit_buckets |-> {"window_end_idx"}],
  functions |-> {}, triggers |-> <<>>]

LegacyBcrypt == [
  tables |-> {}, alters |-> {}, keys |-> <<>>,
  checks |-> [password_credentials |-> {"hash_check"}],
  indexes |-> <<>>, functions |-> {"is_supported_password_hash"}, triggers |-> <<>>]

\* The files, in the order of the manifest.
Made == <<Core, Authorization, OAuthOperations, Hardening, OAuthCallback, AdminOperations,
          LegacyBcrypt>>

Objects(m) == [
  tables |-> Own(m.tables), columns |-> Own(m.tables \cup m.alters),
  indexes |-> Of(m.keys) \cup Of(m.indexes), constraints |-> Of(m.keys) \cup Of(m.checks),
  functions |-> Own(m.functions), triggers |-> Of(m.triggers)]

\* The objects of each kind to which a file gives their form.
Makes == [c \in Content |-> Objects(Made[CHOOSE i \in 1..Len(Manifest) : Manifest[i] = c])]

\* The objects of a kind that a set of files <<order, content>> leaves, with the file that
\* each has its form from: the last one to make it.
Leaves(F, k) ==
  UNION {{<<o, f[2]>> : o \in {x \in Makes[f[2]][k] :
                                 \A g \in F : g[1] > f[1] => x \notin Makes[g[2]][k]}} : f \in F}

-------------------------------------------------------------------------------
\* schema-contract.ts.

RequiredTables ==
  {"users", "identities", "password_credentials", "sessions", "refresh_tokens",
   "one_time_tokens", "oauth_states", "roles", "permissions", "role_permissions",
   "role_inheritance", "user_roles", "api_keys", "audit_log", "rate_limit_buckets",
   "schema_migrations"}

RequiredIndexes == Of([
  schema_migrations |-> {"pkey", "migration_order_key"},
  users |-> {"pkey", "email_normalized_key", "phone_normalized_key"},
  identities |-> {"pkey", "provider_subject_key"}, password_credentials |-> {"pkey"},
  sessions |-> {"pkey"}, refresh_tokens |-> {"pkey", "token_hash_key"},
  one_time_tokens |-> {"pkey", "token_hash_key"},
  oauth_states |-> {"pkey", "state_hash_key"}, roles |-> {"pkey", "key_unique"},
  permissions |-> {"pkey", "key_unique"}, role_permissions |-> {"pkey"},
  role_inheritance |-> {"pkey"}, user_roles |-> {"global_key", "scoped_key"},
  api_keys |-> {"pkey", "key_hash_key", "prefix_key", "active_name_key"},
  audit_log |-> {"pkey", "occurred_at_id_idx", "actor_user_occurred_at_id_idx"},
  rate_limit_buckets |-> {"window_end_idx"}])

RequiredConstraints == Of([
  schema_migrations |-> {"pkey", "version_check", "migration_order_check",
    "migration_order_key", "checksum_check", "package_version_check"},
  users |-> {"pkey", "user_metadata_object_check", "app_metadata_object_check",
    "email_normalized_check", "phone_normalized_check"},
  identities |-> {"pkey", "provider_check", "provider_subject_check", "user_id_fkey",
    "email_normalized_check", "identity_data_object_check", "provider_subject_key"},
  password_credentials |-> {"pkey", "hash_check", "user_id_fkey"},
  sessions |-> {"pkey", "aal_check", "expiry_check", "user_id_fkey"},
  refresh_tokens |-> {"pkey", "token_hash_length_check", "expiry_check", "parent_check",
    "replacement_check", "session_id_fkey", "parent_id_fkey", "replacement_id_fkey",
    "token_hash_key"},
  one_time_tokens |-> {"pkey", "purpose_check", "token_hash_length_check", "target_check",
    "attempt_count_check", "metadata_object_check", "metadata_redaction_check",
    "expiry_check", "recovery_ttl_check", "signup_ttl_check", "oauth_callback_ttl_check",
    "user_id_fkey", "token_hash_key"},
  oauth_states |-> {"pkey", "state_hash_length_check", "provider_check", "flow_check",
    "pkce_challenge_check", "redirect_target_check", "expiry_check", "ttl_check",
    "linking_user_id_fkey", "state_hash_key"},
  roles |-> {"pkey", "key_check", "name_check", "rank_check", "key_unique"},
  permissions |-> {"pkey", "resource_check", "action_check", "key_check", "wildcard_check",
    "key_unique"},
  role_permissions |-> {"pkey", "role_id_fkey", "permission_id_fkey"},
  role_inheritance |-> {"pkey", "role_id_fkey", "inherits_role_id_fkey", "cycle_guard"},
  user_roles |-> {"scope_pair_check", "expiry_check", "user_id_fkey", "role_id_fkey",
    "assigned_by_fkey"},
  api_keys |-> {"pkey", "prefix_check", "key_hash_length_check", "kind_check",
    "expiry_check", "key_hash_key", "prefix_key", "name_check"},
  audit_log |-> {"pkey", "action_check", "target_type_check", "metadata_object_check",
    "metadata_redaction_check", "outcome_check"},
  rate_limit_buckets |-> {"pkey", "key_digest_length_check", "bucket_check",
    "window_check", "count_check", "updated_at_check"}])

RequiredFunctions ==
  {"is_strong_argon2id_hash", "is_supported_password_hash", "prevent_role_inheritance_cycle",
   "audit_metadata_is_safe", "audit_metadata_redaction_guard", "reject_audit_mutation"}

\* Each trigger with the function that it executes.
RequiredTriggers == {
  <<<<"role_inheritance", "cycle_guard">>, "prevent_role_inheritance_cycle">>,
  <<<<"audit_log", "metadata_redaction_guard">>, "audit_metadata_redaction_guard">>,
  <<<<"audit_log", "immutable_guard">>, "reject_audit_mutation">>}

\* The index of rate_limit_buckets_pkey is let through as the index of a constraint.
RequiredObjects == [
  tables |-> Own(RequiredTables), columns |-> Own(RequiredTables),
  indexes |-> RequiredIndexes \cup {<<"rate_limit_buckets", "pkey">>},
  constraints |-> RequiredConstraints, functions |-> Own(RequiredFunctions),
  triggers |-> {x[1] : x \in RequiredTriggers}]

\* The objects that the contract requires in the form of a later file than the first.
RevisedObjects == {
  <<"columns", <<"auth", "api_keys">>, "0006_admin_operations">>,
  <<"constraints", <<"oauth_states", "flow_check">>, "0004_repository_hardening">>,
  <<"constraints", <<"one_time_tokens", "purpose_check">>, "0005_oauth_callback">>,
  <<"constraints", <<"permissions", "resource_check">>, "0006_admin_operations">>,
  <<"constraints", <<"password_credentials", "hash_check">>, "0007_legacy_bcrypt_passwords">>}

\* The contract of this release is what its files leave: the same objects, and those that
\* several files made, in their last form.
ASSUME ContractAssumption ==
  LET all == {<<i, Manifest[i]>> : i \in 1..Len(Manifest)}
      makers(k, o) == {c \in Content : o \in Makes[c][k]}
  IN /\ \A k \in Kind : {x[1] : x \in Leaves(all, k)} = RequiredObjects[k]
     /\ RevisedObjects = UNION {{<<k, x[1], x[2]>> : x \in
          {y \in Leaves(all, k) : \E a, b \in makers(k, y[1]) : a # b}} : k \in Kind}
     /\ \A x \in RequiredTriggers : x[2] \in RequiredFunctions
===============================================================================
