----------------------------- MODULE MCPlatform -----------------------------
(* Small instances of SigningKeys, TokenStore, ClientRegistry, ClientAuth and      *)
(* Schema, in one run: in each behaviour one of them runs, and part says which and *)
(* how far.                                                                        *)
EXTENDS SigningKeys, TokenStore, ClientAuth, Schema, TLC

VARIABLE part    \* what runs

authAndRegistryVars == <<registryVars, authVars>>
allVars == <<keyVars, storeVars, authAndRegistryVars, schemaVars, part>>

\* The databases found: none of the auth tables, those of core-authentication, some of
\* those, these and a few objects of the first migration, and all that the migrations make.
CoreOnly(ts) == [t \in Tables |-> IF t \in ts THEN {"base"} ELSE {}]
SomeFound ==
    {CoreOnly({}), CoreOnly(CoreTables),
     CoreOnly(CoreTables \ {"signing_key_metadata", "auth_audit_events"}),
     [CoreOnly(CoreTables \cup {"user_mfa_factors"}) EXCEPT !["auth_sessions"] = @ \cup {"aal", "status"}],
     upAll(Migrations, CoreOnly({}))}

MCInit ==
    /\ KeysInit /\ StoreInit /\ AuthInit /\ SchemaInit
    /\ part \in {"commands", "rotation", "store", "registry", "calls", "schema"}
    /\ part \notin {"commands", "rotation"} => provider = "file"
    /\ part \notin {"registry", "calls"} => row = [c \in ClientIds |-> NoClientRow]
    /\ part # "schema" => synced /\ found = CoreOnly({})

\* Commands that overlap or die, on one day; none starts after two overlapped.
Commanding ==
    /\ KeysNext
    /\ day' = 1 /\ issued' = issued /\ jwks' = jwks
    /\ overlapped => \A c \in Commands : command[c].pc = "off" => command'[c].pc = "off"

\* Rotations with the waits of the documentation.
Rotating == KeysNext /\ ~overlapped' /\ ~hasty'

\* Clients with one callback call.
Calling ==
    /\ AuthNext
    /\ edit' = edit
    /\ \A c \in ClientIds : row'[c].callbacks \subseteq {<<"CALLBACK", CHOOSE u \in Uris : TRUE>>}

MCNext ==
    /\ \/ part = "commands" /\ Commanding /\ UNCHANGED <<storeVars, authAndRegistryVars, schemaVars>>
       \/ part = "rotation" /\ Rotating /\ UNCHANGED <<storeVars, authAndRegistryVars, schemaVars>>
       \/ part = "store" /\ StoreNext /\ UNCHANGED <<keyVars, authAndRegistryVars, schemaVars>>
       \/ part = "registry" /\ RegistryNext /\ UNCHANGED <<keyVars, storeVars, authVars, schemaVars>>
       \/ part = "calls" /\ Calling /\ UNCHANGED <<keyVars, storeVars, schemaVars>>
       \/ part = "schema" /\ SchemaNext /\ UNCHANGED <<keyVars, storeVars, authAndRegistryVars>>
    /\ UNCHANGED part

MCSpec == MCInit /\ [][MCNext]_allVars

\* The .cfg names the slots of all parts alike, and the codes and assertions.
Symmetry == Permutations(Kids) \cup Permutations(Commands) \cup Permutations(Codes)
=============================================================================
