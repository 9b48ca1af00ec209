--------------------------- MODULE ClientRegistry ---------------------------
(***************************************************************************)
(* The registered applications: auth_clients and auth_client_callbacks as  *)
(* the scripts client:register and client:add-uri write them, and the      *)
(* metadata ClientRegistryService makes of them for oidc-provider, logout  *)
(* and ClientAuth.                                                         *)
(***************************************************************************)
EXTENDS Integers, FiniteSets

CONSTANTS
    ClientIds,     \* client_id values of the right form
    Uris,          \* URIs both scripts accept: https, no wildcard
    Editors,       \* slots for commands that overlap
    NoUri, NoRealmName

ASSUME RegistrySentinels == NoUri \notin Uris /\ NoRealmName \notin {"ADMIN", "MUMIN"}

VARIABLES
    row,        \* auth_clients with their callbacks
    edit        \* client:add-uri in progress

registryVars == <<row, edit>>

Methods == {"private_key_jwt", "client_secret_basic", "client_secret_post"}
UriTypes == {"CALLBACK", "POST_LOGOUT_REDIRECT", "BACK_CHANNEL_LOGOUT"}

AuthClient == [status : {"NONE", "PENDING", "SECURITY_REVIEW", "ACTIVE", "SUSPENDED", "RETIRED"},
               authRealm : {"ADMIN", "MUMIN", NoRealmName},
               method : Methods \cup {"none"}, jwks : BOOLEAN, secret : BOOLEAN,
               callbacks : SUBSET (UriTypes \X Uris)]
NoClientRow == [status |-> "NONE", authRealm |-> NoRealmName, method |-> "none", jwks |-> FALSE,
                secret |-> FALSE, callbacks |-> {}]

\* A row of the time before this service: no realm, no method.
OldRow == [NoClientRow EXCEPT !.status = "ACTIVE", !.callbacks = {"CALLBACK"} \X Uris]

Edit == [busy : BOOLEAN, client : ClientIds \cup {""}, type : UriTypes \cup {""},
         uri : Uris \cup {NoUri}, gone : SUBSET (UriTypes \X Uris), exists : BOOLEAN]
NoEdit == [busy |-> FALSE, client |-> "", type |-> "", uri |-> NoUri, gone |-> {}, exists |-> FALSE]

RegistryInit ==
    /\ row \in [ClientIds -> {NoClientRow, OldRow}]
    /\ edit = [e \in Editors |-> NoEdit]

Of(c, type) == {cb \in row[c].callbacks : cb[1] = type}

-----------------------------------------------------------------------------
(* toMetadata.                                                             *)

\* NULL means private_key_jwt.
authMethod(c) == IF row[c].method = "none" THEN "private_key_jwt" ELSE row[c].method

HasKeyMaterial(c) ==
    CASE authMethod(c) = "private_key_jwt" -> row[c].jwks
      [] OTHER -> row[c].secret

\* findMetadata answers; otherwise oidc-provider says invalid_client.
HasMetadata(c) ==
    /\ row[c].status = "ACTIVE"
    /\ row[c].authRealm # NoRealmName
    /\ Of(c, "CALLBACK") # {}
    /\ HasKeyMaterial(c)

-----------------------------------------------------------------------------
(* client:register and client:add-uri.                                     *)

AuthRealms == {"ADMIN", "MUMIN"}

\* Mutant: keys are asked for in the form only.
NeedsKeysNever(method, jwks) == TRUE

\* What main asks for: a realm, a method, a redirect and, for private_key_jwt, keys.
NeedsKeys(method, jwks) == method = "private_key_jwt" => jwks

\* A secret is drawn for the methods that use one.
NewClient(realm, method, jwks, callbacks) ==
    [status |-> "ACTIVE", authRealm |-> realm, method |-> method, jwks |-> jwks,
     secret |-> method # "private_key_jwt", callbacks |-> callbacks]

\* create, in one transaction; a client_id that exists is refused.
Register(c) ==
    /\ row[c].status = "NONE"
    /\ \E realm \in AuthRealms, method \in Methods, jwks \in BOOLEAN,
          uri \in Uris, more \in SUBSET ({"POST_LOGOUT_REDIRECT", "BACK_CHANNEL_LOGOUT"} \X Uris) :
         /\ NeedsKeys(method, jwks)
         /\ Cardinality({cb \in more : cb[1] = "BACK_CHANNEL_LOGOUT"}) <= 1
         /\ row' = [row EXCEPT ![c] = NewClient(realm, method, jwks, {<<"CALLBACK", uri>>} \cup more)]
    /\ UNCHANGED edit

\* addCallback: what the DELETE and the SELECT of the transaction see.
AddCallback(e) ==
    /\ ~edit[e].busy
    /\ \E c \in ClientIds, type \in UriTypes, uri \in Uris :
         LET gone == IF type = "BACK_CHANNEL_LOGOUT" THEN Of(c, type) ELSE {}
         IN  /\ row[c].status # "NONE"
             /\ edit' = [edit EXCEPT ![e] =
                           [busy |-> TRUE, client |-> c, type |-> type, uri |-> uri, gone |-> gone,
                            exists |-> <<type, uri>> \in row[c].callbacks \ gone]]
    /\ UNCHANGED row

\* Its INSERT and COMMIT; a command that dies before leaves the rows alone.
AddCommits(e) ==
    LET d == edit[e]
    IN  /\ d.busy
        /\ \/ row' = [row EXCEPT ![d.client].callbacks =
                        (@ \ d.gone) \cup (IF d.exists THEN {} ELSE {<<d.type, d.uri>>})]
           \/ UNCHANGED row
        /\ edit' = [edit EXCEPT ![e] = NoEdit]

\* An administrator suspends a client, in the database; findMetadata reads it anew.
Suspend(c) ==
    /\ row[c].status = "ACTIVE"
    /\ row' = [row EXCEPT ![c].status = "SUSPENDED"]
    /\ UNCHANGED edit

RegistryNext ==
    \/ \E c \in ClientIds : Register(c) \/ Suspend(c)
    \/ \E e \in Editors : AddCallback(e) \/ AddCommits(e)

RegistrySpec == RegistryInit /\ [][RegistryNext]_registryVars

-----------------------------------------------------------------------------
(* Properties.                                                             *)

\* Every variable stays in its domain.
RegistryTypeOK ==
    /\ row \in [ClientIds -> AuthClient]
    /\ edit \in [Editors -> Edit]

\* What client:register accepts, findMetadata accepts: an active client with a
\* realm is never answered with invalid_client, whatever client:add-uri did to it
\* since.
RegisteredIsUsable ==
    \A c \in ClientIds : row[c].status = "ACTIVE" /\ row[c].authRealm # NoRealmName => HasMetadata(c)
=============================================================================
