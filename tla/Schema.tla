------------------------------- MODULE Schema -------------------------------
(***************************************************************************)
(* The schema of the identity database: the three migrations, the commands *)
(* migration:run and migration:revert that apply and undo them, and what   *)
(* SchemaGuardService asks for when the service starts.                    *)
(*                                                                         *)
(* A table is the set of its columns, a table that is missing is empty,    *)
(* and "base" stands for all the columns its CREATE TABLE names.           *)
(***************************************************************************)
EXTENDS Integers, FiniteSets, FiniteSetsExt

CONSTANTS
    Operators,     \* slots for migration commands that overlap
    FoundSchemas   \* the auth tables, with their columns, that may be there before

Migrations == 1..3

\* The tables of core-authentication, created only when they are missing.
CoreTables == {"auth_clients", "auth_client_callbacks", "auth_sessions", "auth_session_clients",
               "auth_login_attempts", "auth_audit_events", "signing_key_metadata"}

\* The new tables of each migration.
NewTables == <<{"user_mfa_factors", "auth_otp_challenges"},
               {"logout_jobs", "logout_deliveries"},
               {"auth_client_handoff_paths", "handoff_requests"}>>

Tables == CoreTables \cup UNION {NewTables[i] : i \in Migrations}

\* What is there before is core-authentication's, or of these migrations: a table of
\* theirs has the columns of its CREATE TABLE, and may have some they add.
ASSUME FoundAssumption ==
    \A f \in FoundSchemas :
      DOMAIN f = Tables /\ \A t \in Tables : f[t] = {} \/ "base" \in f[t]

VARIABLES
    synced,     \* users, mumin_master and user_eligible are there
    found,      \* history: the tables and columns that were there before
    table,      \* the columns of each table
    executed,   \* oidc_mfa_auth_migrations
    reverted,   \* history: the migrations that were ever reverted
    job         \* the migration commands in progress

schemaVars == <<synced, found, table, executed, reverted, job>>

\* What a command read of oidc_mfa_auth_migrations, and what it is about to do.
Job == [does : {"nothing", "up", "down"}, which : SUBSET Migrations]
NoJob == [does |-> "nothing", which |-> {}]

SchemaInit ==
    /\ synced \in BOOLEAN
    /\ found \in FoundSchemas
    /\ table = found
    /\ executed = {} /\ reverted = {}
    /\ job = [o \in Operators |-> NoJob]

-----------------------------------------------------------------------------
(* The migrations.                                                         *)

\* ALTER TABLE ... ADD COLUMN IF NOT EXISTS, of OidcMfaAuthSchema.
FirstColumns(t) ==
    CASE t = "auth_clients" ->
           {"auth_realm", "token_endpoint_auth_method", "client_jwks_uri", "client_jwks",
            "client_secret_enc", "allowed_scopes", "default_acr"}
      [] t = "auth_sessions" ->
           {"auth_realm", "session_secret_hash", "status", "aal", "amr", "auth_time",
            "mfa_verified_at", "mfa_method"}
      [] t = "auth_session_clients" -> {"established_by"}
      [] t = "auth_login_attempts" -> {"attempt_type"}
      [] t = "signing_key_metadata" ->
           {"public_jwk", "key_provider_ref", "purpose", "environment", "activated_at", "revoked_at"}
      [] OTHER -> {}

\* The same, of TrustedHandoff.
HandoffColumns(t) ==
    IF t = "auth_clients"
      THEN {"handoff_callback_uri", "handoff_inbound_enabled", "handoff_outbound_enabled"}
      ELSE {}

ColumnsAdded(i, t) ==
    CASE i = 1 -> FirstColumns(t) [] i = 2 -> {} [] i = 3 -> HandoffColumns(t)

\* CREATE TABLE IF NOT EXISTS.
Creates(i) == NewTables[i] \cup (IF i = 1 THEN CoreTables ELSE {})

up(i, db) ==
    [t \in Tables |-> (IF t \in Creates(i) /\ db[t] = {} THEN {"base"} ELSE db[t])
                        \cup ColumnsAdded(i, t)]

\* The migrations of which, in their order.
upIf(i, which, db) == IF i \in which THEN up(i, db) ELSE db
upAll(which, db) == upIf(3, which, upIf(2, which, upIf(1, which, db)))

\* Mutant: down drops by the list of columns the service asks for.
downRequired(i, db) ==
    [t \in Tables |-> IF t \in NewTables[i] THEN {}
                      ELSE db[t] \ (ColumnsAdded(i, t) \ {"client_jwks", "client_jwks_uri"})]

\* DROP TABLE and DROP COLUMN, IF EXISTS: of all that up asks for, whoever made it.
down(i, db) ==
    [t \in Tables |-> IF t \in NewTables[i] THEN {} ELSE db[t] \ ColumnsAdded(i, t)]

-----------------------------------------------------------------------------
(* The commands.                                                           *)

\* migration:run reads the history, and finds what is pending.
RunReads(o) ==
    /\ job[o] = NoJob
    /\ executed # Migrations
    /\ job' = [job EXCEPT ![o] = [does |-> "up", which |-> Migrations \ executed]]
    /\ UNCHANGED <<synced, found, table, executed, reverted>>

\* All that is pending, in one transaction; assertSyncedTablesPresent fails the
\* first one, and the transaction with it.
RunCommits(o) ==
    /\ job[o].does = "up"
    /\ 1 \in job[o].which => synced
    /\ table' = upAll(job[o].which, table)
    /\ executed' = executed \cup job[o].which
    /\ job' = [job EXCEPT ![o] = NoJob]
    /\ UNCHANGED <<synced, found, reverted>>

\* migration:revert reads which one is the last.
RevertReads(o) ==
    /\ job[o] = NoJob
    /\ executed # {}
    /\ job' = [job EXCEPT ![o] = [does |-> "down", which |-> {Max(executed)}]]
    /\ UNCHANGED <<synced, found, table, executed, reverted>>

RevertCommits(o) ==
    /\ job[o].does = "down"
    /\ LET i == CHOOSE i \in Migrations : job[o].which = {i}
       IN  table' = down(i, table)
    /\ executed' = executed \ job[o].which
    /\ reverted' = reverted \cup job[o].which
    /\ job' = [job EXCEPT ![o] = NoJob]
    /\ UNCHANGED <<synced, found>>

\* A statement fails or the command dies: its transaction is undone.
JobFails(o) ==
    /\ job[o] # NoJob
    /\ job' = [job EXCEPT ![o] = NoJob]
    /\ UNCHANGED <<synced, found, table, executed, reverted>>

SchemaNext ==
    \E o \in Operators :
      RunReads(o) \/ RunCommits(o) \/ RevertReads(o) \/ RevertCommits(o) \/ JobFails(o)

SchemaSpec == SchemaInit /\ [][SchemaNext]_schemaVars

-----------------------------------------------------------------------------
(* The guard.                                                              *)

\* The added columns the service asks for; of every table it asks for some of the
\* columns CREATE TABLE names.
REQUIRED(t) ==
    {"base"} \cup
    CASE t = "auth_clients" ->
           {"auth_realm", "token_endpoint_auth_method", "client_secret_enc", "default_acr",
            "handoff_callback_uri", "handoff_inbound_enabled", "handoff_outbound_enabled"}
      [] t = "auth_sessions" ->
           {"auth_realm", "session_secret_hash", "status", "aal", "amr", "mfa_verified_at",
            "mfa_method"}
      [] t = "auth_session_clients" -> {"established_by"}
      [] t = "auth_login_attempts" -> {"attempt_type"}
      [] t = "signing_key_metadata" -> {"public_jwk"}
      [] OTHER -> {}

SchemaReady == synced /\ \A t \in Tables : REQUIRED(t) \subseteq table[t]

-----------------------------------------------------------------------------
(* Properties.                                                             *)

\* However runs and reverts overlap, fail and repeat, on a database with any of the
\* tables and columns: with every migration in the history the service starts; what is
\* there is what was found, what the history brought, and the tables of
\* core-authentication, which are there once any of it ran and which no revert drops;
\* and what was found stays but for the tables and columns of a migration that was
\* reverted. "Removes only what this migration ADDED" would be without that exception,
\* and is not so: what a migration finds it does not add, and down drops it.
SchemaFollowsHistory ==
    /\ executed = Migrations => SchemaReady
    /\ executed # {} => \A t \in CoreTables : "base" \in table[t]
    /\ \A t \in Tables :
         LET new  == UNION {ColumnsAdded(i, t) : i \in executed}
             made == t \in CoreTables \/ \E i \in executed : t \in NewTables[i]
         IN  table[t] \subseteq found[t] \cup new \cup (IF made THEN {"base"} ELSE {})
    /\ \A t \in Tables : \A c \in found[t] \ table[t] :
         \E i \in reverted : t \in NewTables[i] \/ c \in ColumnsAdded(i, t)
=============================================================================
