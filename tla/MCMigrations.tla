---------------------------- MODULE MCMigrations ----------------------------
(* Instances of Migrations for TLC. *)
EXTENDS Migrations

\* Releases in line, and one that left a file out and put another in its place.
Releases == {SubSeq(Manifest, 1, 4), SubSeq(Manifest, 1, 5),
             SubSeq(Manifest, 1, 3) \o <<Manifest[7]>>}

\* A trigger that no later file makes anew, and a constraint that 0005 does.
Touched == {<<"triggers", <<"audit_log", "immutable_guard">>>>,
            <<"constraints", <<"one_time_tokens", "purpose_check">>>>}
=============================================================================
