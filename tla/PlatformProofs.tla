--------------------------- MODULE PlatformProofs ---------------------------
(***************************************************************************)
(* Proofs about ClientRegistry, ClientAuth, TokenStore, SigningKeys and    *)
(* Schema, for any clients, assertions, codes, grants, keys, commands and  *)
(* time limits.                                                            *)
(***************************************************************************)
EXTENDS SigningKeys, TokenStore, ClientAuth, Schema, FiniteSetTheorems, TLAPS

-----------------------------------------------------------------------------
(* ClientRegistry.                                                         *)

\* A row with a realm was registered, and keeps a callback and its key material.
Registered(c) ==
    row[c].authRealm # NoRealmName => Of(c, "CALLBACK") # {} /\ HasKeyMaterial(c)

\* client:add-uri replaces back-channel URIs, never a callback.
EditInv(e) ==
    edit[e].busy =>
      /\ edit[e].client \in ClientIds /\ edit[e].type \in UriTypes /\ edit[e].uri \in Uris
      /\ \A cb \in edit[e].gone : cb[1] # "CALLBACK"

RegistryInv ==
    /\ RegistryTypeOK
    /\ \A c \in ClientIds : Registered(c)
    /\ \A e \in Editors : EditInv(e)

LEMMA RegistryInitInv == RegistryInit => RegistryInv
  <1> SUFFICES ASSUME RegistryInit PROVE RegistryInv
    OBVIOUS
  <1>1. NoClientRow \in AuthClient /\ NoClientRow.authRealm = NoRealmName
    BY DEF NoClientRow, AuthClient, Methods, UriTypes
  <1>2. OldRow \in AuthClient /\ OldRow.authRealm = NoRealmName
    BY DEF OldRow, NoClientRow, AuthClient, Methods, UriTypes
  <1>3. NoEdit \in Edit /\ NoEdit.busy = FALSE
    BY DEF NoEdit, Edit, UriTypes
  <1>4. RegistryTypeOK
    BY <1>1, <1>2, <1>3 DEF RegistryInit, RegistryTypeOK
  <1>5. \A c \in ClientIds : Registered(c)
    BY <1>1, <1>2 DEF RegistryInit, Registered
  <1>6. \A e \in Editors : EditInv(e)
    BY <1>3 DEF RegistryInit, EditInv
  <1> QED
    BY <1>4, <1>5, <1>6 DEF RegistryInv

\* One row becomes r.
LEMMA RowBecomes ==
    ASSUME RegistryInv, NEW c \in ClientIds, NEW r \in AuthClient, row' = [row EXCEPT ![c] = r],
           r.authRealm # NoRealmName =>
             /\ \E cb \in r.callbacks : cb[1] = "CALLBACK"
             /\ IF r.method \in {"none", "private_key_jwt"} THEN r.jwks ELSE r.secret
    PROVE  row' \in [ClientIds -> AuthClient] /\ \A o \in ClientIds : Registered(o)'
  <1>1. /\ row' \in [ClientIds -> AuthClient] /\ row'[c] = r
        /\ \A o \in ClientIds \ {c} : row'[o] = row[o]
    BY DEF RegistryInv, RegistryTypeOK
  <1>2. Registered(c)'
    BY <1>1 DEF Registered, Of, HasKeyMaterial, authMethod
  <1>3. ASSUME NEW o \in ClientIds \ {c} PROVE Registered(o)'
    BY <1>1 DEF RegistryInv, Registered, Of, HasKeyMaterial, authMethod
  <1> QED
    BY <1>1, <1>2, <1>3

LEMMA RegistryNextInv == RegistryInv /\ [RegistryNext]_registryVars => RegistryInv'
  <1> SUFFICES ASSUME RegistryInv, [RegistryNext]_registryVars PROVE RegistryInv'
    OBVIOUS
  <1>1. CASE UNCHANGED registryVars
    BY <1>1 DEF registryVars, RegistryInv, RegistryTypeOK, Registered, Of, HasKeyMaterial, authMethod, EditInv
  <1>2. ASSUME UNCHANGED edit, row' \in [ClientIds -> AuthClient], \A o \in ClientIds : Registered(o)'
        PROVE  RegistryInv'
    BY <1>2 DEF RegistryInv, RegistryTypeOK, EditInv
  <1>3. ASSUME NEW c \in ClientIds, Register(c) PROVE RegistryInv'
    <2>1. PICK realm \in AuthRealms, method \in Methods, jk \in BOOLEAN, uri \in Uris,
               more \in SUBSET ({"POST_LOGOUT_REDIRECT", "BACK_CHANNEL_LOGOUT"} \X Uris) :
            /\ NeedsKeys(method, jk)
            /\ Cardinality({cb \in more : cb[1] = "BACK_CHANNEL_LOGOUT"}) <= 1
            /\ row' = [row EXCEPT ![c] = NewClient(realm, method, jk, {<<"CALLBACK", uri>>} \cup more)]
      BY <1>3 DEF Register
    <2>2. PICK r : r = NewClient(realm, method, jk, {<<"CALLBACK", uri>>} \cup more)
      OBVIOUS
    <2>3. {<<"CALLBACK", uri>>} \cup more \in SUBSET (UriTypes \X Uris)
      BY DEF UriTypes
    <2>4. /\ r \in AuthClient /\ r.method = method /\ r.jwks = jk
          /\ r.secret = (method # "private_key_jwt")
          /\ r.callbacks = {<<"CALLBACK", uri>>} \cup more
      BY <2>2, <2>3 DEF NewClient, AuthClient, AuthRealms
    <2>5. \E cb \in r.callbacks : cb[1] = "CALLBACK"
      <3>1. PICK cb : cb = <<"CALLBACK", uri>>
        OBVIOUS
      <3>2. cb[1] = "CALLBACK"
        BY <3>1
      <3>3. cb \in r.callbacks
        BY <2>4, <3>1
      <3> QED
        BY <3>2, <3>3
    <2>6. IF r.method \in {"none", "private_key_jwt"} THEN r.jwks ELSE r.secret
      BY <2>1, <2>4 DEF NeedsKeys, Methods
    <2>7. row' = [row EXCEPT ![c] = r]
      BY <2>1, <2>2
    <2> QED
      BY <1>2, <1>3, <2>4, <2>5, <2>6, <2>7, RowBecomes DEF Register
  <1>4. ASSUME NEW c \in ClientIds, Suspend(c) PROVE RegistryInv'
    <2>1. PICK r : r = [row[c] EXCEPT !.status = "SUSPENDED"]
      OBVIOUS
    <2>2. row[c] \in AuthClient
      BY DEF RegistryInv, RegistryTypeOK
    <2>3. /\ r \in AuthClient /\ r.authRealm = row[c].authRealm /\ r.method = row[c].method
          /\ r.jwks = row[c].jwks /\ r.secret = row[c].secret /\ r.callbacks = row[c].callbacks
      BY <2>1, <2>2 DEF AuthClient
    <2>4. Registered(c)
      BY DEF RegistryInv
    <2>5. row' = [row EXCEPT ![c] = r]
      BY <1>4, <2>1 DEF Suspend
    <2>6. r.authRealm # NoRealmName =>
             /\ \E cb \in r.callbacks : cb[1] = "CALLBACK"
             /\ IF r.method \in {"none", "private_key_jwt"} THEN r.jwks ELSE r.secret
      BY <2>3, <2>4 DEF Registered, Of, HasKeyMaterial, authMethod
    <2> QED
      BY <1>2, <1>4, <2>3, <2>5, <2>6, RowBecomes DEF Suspend
  <1>5. ASSUME NEW e \in Editors, AddCallback(e) PROVE RegistryInv'
    <2> DEFINE lost(c, type) == IF type = "BACK_CHANNEL_LOGOUT" THEN Of(c, type) ELSE {}
    <2>0. PICK c \in ClientIds, type \in UriTypes, uri \in Uris :
            edit' = [edit EXCEPT ![e] =
                      [busy |-> TRUE, client |-> c, type |-> type, uri |-> uri, gone |-> lost(c, type),
                       exists |-> <<type, uri>> \in row[c].callbacks \ lost(c, type)]]
      BY <1>5, Zenon DEF AddCallback
    <2>1. PICK gone, exists :
            /\ gone = lost(c, type) /\ exists = (<<type, uri>> \in row[c].callbacks \ gone)
            /\ edit' = [edit EXCEPT ![e] = [busy |-> TRUE, client |-> c, type |-> type, uri |-> uri,
                                            gone |-> gone, exists |-> exists]]
      BY <2>0, Zenon
    <2>2. gone \in SUBSET (UriTypes \X Uris) /\ \A cb \in gone : cb[1] # "CALLBACK"
      BY <2>1 DEF Of, RegistryInv, RegistryTypeOK, AuthClient
    <2>3. PICK d : d = [busy |-> TRUE, client |-> c, type |-> type, uri |-> uri,
                        gone |-> gone, exists |-> exists]
      OBVIOUS
    <2>4. exists \in BOOLEAN
      BY <2>1
    <2>5. d \in Edit /\ d.client = c /\ d.type = type /\ d.uri = uri /\ d.gone = gone
      BY <2>2, <2>3, <2>4 DEF Edit
    <2>6. /\ edit' \in [Editors -> Edit] /\ edit'[e] = d
          /\ \A o \in Editors \ {e} : edit'[o] = edit[o]
      BY <2>1, <2>3, <2>5 DEF RegistryInv, RegistryTypeOK
    <2>7. \A o \in Editors : EditInv(o)'
      BY <2>2, <2>5, <2>6 DEF RegistryInv, EditInv
    <2> QED
      BY <1>5, <2>6, <2>7
         DEF AddCallback, RegistryInv, RegistryTypeOK, Registered, Of, HasKeyMaterial, authMethod
  <1>6. ASSUME NEW e \in Editors, AddCommits(e) PROVE RegistryInv'
    <2>1. NoEdit \in Edit /\ NoEdit.busy = FALSE
      BY DEF NoEdit, Edit, UriTypes
    <2>2. /\ edit' \in [Editors -> Edit] /\ edit'[e] = NoEdit
          /\ \A o \in Editors \ {e} : edit'[o] = edit[o]
      BY <1>6, <2>1 DEF AddCommits, RegistryInv, RegistryTypeOK
    <2>3. \A o \in Editors : EditInv(o)'
      BY <2>1, <2>2 DEF RegistryInv, EditInv
    <2>4. row' \in [ClientIds -> AuthClient] /\ \A o \in ClientIds : Registered(o)'
      <3>1. CASE UNCHANGED row
        BY <3>1 DEF RegistryInv, RegistryTypeOK, Registered, Of, HasKeyMaterial, authMethod
      <3>2. CASE row' = [row EXCEPT ![edit[e].client].callbacks =
                           (@ \ edit[e].gone) \cup
                             (IF edit[e].exists THEN {} ELSE {<<edit[e].type, edit[e].uri>>})]
        <4>1. PICK c, cbs, r :
                /\ c = edit[e].client
                /\ cbs = (row[c].callbacks \ edit[e].gone) \cup
                           (IF edit[e].exists THEN {} ELSE {<<edit[e].type, edit[e].uri>>})
                /\ r = [row[c] EXCEPT !.callbacks = cbs]
          OBVIOUS
        <4>2. /\ c \in ClientIds /\ edit[e].type \in UriTypes /\ edit[e].uri \in Uris
              /\ \A cb \in edit[e].gone : cb[1] # "CALLBACK"
          BY <1>6, <4>1 DEF AddCommits, RegistryInv, EditInv
        <4>3. row[c] \in AuthClient /\ Registered(c)
          BY <4>2 DEF RegistryInv, RegistryTypeOK
        <4>4. cbs \in SUBSET (UriTypes \X Uris)
          BY <4>1, <4>2, <4>3 DEF AuthClient
        <4>5. /\ r \in AuthClient /\ r.authRealm = row[c].authRealm /\ r.method = row[c].method
              /\ r.jwks = row[c].jwks /\ r.secret = row[c].secret /\ r.callbacks = cbs
          BY <4>1, <4>3, <4>4 DEF AuthClient
        <4>6. row' = [row EXCEPT ![c] = r]
          BY <3>2, <4>1
        <4>7. ASSUME r.authRealm # NoRealmName
              PROVE  /\ \E cb \in r.callbacks : cb[1] = "CALLBACK"
                     /\ IF r.method \in {"none", "private_key_jwt"} THEN r.jwks ELSE r.secret
          <5>1. PICK cb \in row[c].callbacks : cb[1] = "CALLBACK"
            BY <4>3, <4>5, <4>7 DEF Registered, Of
          <5>2. cb \in cbs
            BY <4>1, <4>2, <5>1
          <5>3. IF r.method \in {"none", "private_key_jwt"} THEN r.jwks ELSE r.secret
            BY <4>3, <4>5, <4>7 DEF Registered, HasKeyMaterial, authMethod
          <5> QED
            BY <4>5, <5>1, <5>2, <5>3
        <4> QED
          BY <4>2, <4>5, <4>6, <4>7, RowBecomes
      <3> QED
        BY <1>6, <3>1, <3>2 DEF AddCommits
    <2> QED
      BY <2>2, <2>3, <2>4 DEF RegistryInv, RegistryTypeOK
  <1> QED
    BY <1>1, <1>3, <1>4, <1>5, <1>6 DEF RegistryNext

\* A row that client:register made, and what an editor holds of it, stay usable.
THEOREM RegistryInvariance == RegistrySpec => []RegistryInv
  BY RegistryInitInv, RegistryNextInv, PTL DEF RegistrySpec

\* Every variable of the client registry stays in its domain.
THEOREM RegistryTypeCorrect == RegistrySpec => []RegistryTypeOK
  BY RegistryInvariance, PTL DEF RegistryInv

\* What client:register accepts is never answered with invalid_client while it is
\* active, whatever client:add-uri did since.
THEOREM RegisteredStaysUsable == RegistrySpec => []RegisteredIsUsable
  <1>1. RegistryInv => RegisteredIsUsable
    BY DEF RegistryInv, Registered, RegisteredIsUsable, HasMetadata
  <1> QED
    BY <1>1, RegistryInvariance, PTL

-----------------------------------------------------------------------------
(* ClientAuth.                                                             *)

\* A call about to take a jti verified its assertion no longer ago than MaxPause.
CallerInv(r) ==
    caller[r].pc = "set" =>
      LET j == caller[r].jti
      IN  /\ j \in Jtis /\ assertion[j].made
          /\ caller[r].verified < assertion[j].exp + Tolerance
          /\ instant <= caller[r].verified + MaxPause

\* The key of an assertion that authenticated a call outlives it by Slack.
UsedInv(j) ==
    /\ accepted[j] <= 1
    /\ accepted[j] = 1 => assertion[j].made /\ used[j] >= assertion[j].exp + Slack

AuthInv ==
    /\ AuthTypeOK
    /\ RegistryInv
    /\ \A r \in Callers : CallerInv(r)
    /\ \A j \in Jtis : UsedInv(j)

LEMMA AuthInitInv == AuthInit => AuthInv
  <1> SUFFICES ASSUME AuthInit PROVE AuthInv
    OBVIOUS
  <1>1. RegistryInv
    BY RegistryInitInv DEF AuthInit
  <1>2. NoAssertion \in Assertion /\ NoCaller \in Caller /\ NoCaller.pc = "off"
    BY DEF NoAssertion, Assertion, NoCaller, Caller
  <1>3. AuthTypeOK
    BY <1>1, <1>2 DEF AuthInit, AuthTypeOK, RegistryInv
  <1> QED
    BY <1>1, <1>2, <1>3 DEF AuthInit, AuthInv, CallerInv, UsedInv

\* A call that ends.
LEMMA CallerEnds ==
    ASSUME AuthTypeOK, \A r \in Callers : CallerInv(r), UNCHANGED <<instant, assertion>>,
           NEW r \in Callers, caller' = [caller EXCEPT ![r] = NoCaller]
    PROVE  caller' \in [Callers -> Caller] /\ \A o \in Callers : CallerInv(o)'
  <1>1. NoCaller \in Caller /\ NoCaller.pc = "off"
    BY DEF NoCaller, Caller
  <1>2. /\ caller' \in [Callers -> Caller] /\ caller'[r] = NoCaller
        /\ \A o \in Callers \ {r} : caller'[o] = caller[o]
    BY <1>1 DEF AuthTypeOK
  <1> QED
    BY <1>1, <1>2 DEF CallerInv

LEMMA AuthNextInv == AuthInv /\ [AuthNext]_<<registryVars, authVars>> => AuthInv'
  <1> SUFFICES ASSUME AuthInv, [AuthNext]_<<registryVars, authVars>> PROVE AuthInv'
    OBVIOUS
  <1>1. RegistryInv' /\ RegistryTypeOK'
    <2>1. RegistryInv /\ [RegistryNext]_registryVars
      BY DEF AuthInv, AuthNext, SignAssertion, Present, SetNx, CallerDies, InstantPasses
    <2> QED
      BY <2>1, RegistryNextInv DEF RegistryInv
  <1>2. CASE UNCHANGED authVars
    BY <1>1, <1>2 DEF authVars, AuthInv, AuthTypeOK, CallerInv, UsedInv
  <1>3. ASSUME NEW j \in Jtis, SignAssertion(j) PROVE AuthInv'
    <2>1. PICK c \in ClientIds, life \in Lifetimes :
            assertion' = [assertion EXCEPT ![j] = [made |-> TRUE, iss |-> c, iat |-> instant,
                                                   exp |-> instant + life]]
      BY <1>3 DEF SignAssertion
    <2>2. PICK a : a = [made |-> TRUE, iss |-> c, iat |-> instant, exp |-> instant + life]
      OBVIOUS
    <2>3. a \in Assertion
      <3>1. instant \in Nat /\ instant + life \in Nat
        BY AuthLimits DEF AuthInv, AuthTypeOK
      <3> QED
        BY <2>2, <3>1 DEF Assertion
    <2>4. /\ assertion' \in [Jtis -> Assertion]
          /\ \A o \in Jtis \ {j} : assertion'[o] = assertion[o]
      BY <2>1, <2>2, <2>3 DEF AuthInv, AuthTypeOK
    <2>5. ~assertion[j].made /\ UNCHANGED <<instant, used, caller, accepted>>
      BY <1>3 DEF SignAssertion
    <2>6. \A r \in Callers : CallerInv(r)'
      BY <2>4, <2>5 DEF AuthInv, CallerInv
    <2>7. \A o \in Jtis : UsedInv(o)'
      BY <2>4, <2>5 DEF AuthInv, UsedInv
    <2> QED
      BY <1>1, <2>4, <2>5, <2>6, <2>7 DEF AuthInv, AuthTypeOK
  <1>4. ASSUME NEW r \in Callers, Present(r) PROVE AuthInv'
    <2>1. PICK j \in Jtis :
            /\ assertion[j].made /\ jwtVerify(assertion[j], instant)
            /\ caller' = [caller EXCEPT ![r] = [pc |-> "set", jti |-> j, verified |-> instant]]
      BY <1>4 DEF Present
    <2>2. PICK q : q = [pc |-> "set", jti |-> j, verified |-> instant]
      OBVIOUS
    <2>3. instant \in Nat /\ MaxPause \in Nat
      BY AuthLimits DEF AuthInv, AuthTypeOK
    <2>4. q \in Caller /\ q.jti = j /\ q.verified = instant
      BY <2>2, <2>3 DEF Caller
    <2>5. /\ caller' \in [Callers -> Caller] /\ caller'[r] = q
          /\ \A o \in Callers \ {r} : caller'[o] = caller[o]
      BY <2>1, <2>2, <2>4 DEF AuthInv, AuthTypeOK
    <2>6. UNCHANGED <<instant, assertion, used, accepted>>
      BY <1>4 DEF Present
    <2>7. \A o \in Callers : CallerInv(o)'
      BY <2>1, <2>3, <2>4, <2>5, <2>6 DEF AuthInv, CallerInv, jwtVerify
    <2> QED
      BY <1>1, <2>5, <2>6, <2>7 DEF AuthInv, AuthTypeOK, UsedInv
  <1>5. ASSUME NEW r \in Callers, SetNx(r) PROVE AuthInv'
    <2>1. PICK j : j = caller[r].jti
      OBVIOUS
    <2>2. /\ j \in Jtis /\ assertion[j].made
          /\ caller[r].verified < assertion[j].exp + Tolerance
          /\ instant <= caller[r].verified + MaxPause
      BY <1>5, <2>1 DEF SetNx, AuthInv, CallerInv
    <2>3. /\ UNCHANGED <<instant, assertion>>
          /\ caller' \in [Callers -> Caller] /\ \A o \in Callers : CallerInv(o)'
      BY <1>5, CallerEnds DEF SetNx, AuthInv
    <2>4. CASE UNCHANGED <<used, accepted>>
      BY <1>1, <2>3, <2>4 DEF AuthInv, AuthTypeOK, UsedInv
    <2>5. CASE /\ ~(used[j] > instant)
               /\ used' = [used EXCEPT ![j] = instant + ttlOf(assertion[j], instant)]
               /\ accepted' = [accepted EXCEPT ![j] = @ + 1]
      <3>1. /\ assertion[j] \in Assertion /\ used[j] \in Nat /\ accepted[j] \in Nat /\ instant \in Nat
            /\ caller[r].verified \in Nat /\ assertion[j].exp \in Nat
            /\ Tolerance \in Nat /\ MaxPause \in Nat /\ Slack \in Nat
        BY <2>2, AuthLimits DEF AuthInv, AuthTypeOK, Assertion, Caller
      <3>2. accepted[j] = 0
        <4>1. UsedInv(j)
          BY <2>2 DEF AuthInv
        <4>2. instant < assertion[j].exp + Slack
          BY <2>2, <3>1, SlackCovers
        <4> QED
          BY <2>5, <3>1, <4>1, <4>2 DEF UsedInv
      <3>3. PICK until : until = instant + ttlOf(assertion[j], instant)
        OBVIOUS
      <3>4. until \in Nat /\ until >= assertion[j].exp + Slack
        BY <3>1, <3>3 DEF ttlOf
      <3>5. /\ used' \in [Jtis -> Nat] /\ used'[j] = until
            /\ accepted' \in [Jtis -> Nat] /\ accepted'[j] = 1
            /\ \A o \in Jtis \ {j} : used'[o] = used[o] /\ accepted'[o] = accepted[o]
        BY <2>2, <2>5, <3>2, <3>3, <3>4 DEF AuthInv, AuthTypeOK
      <3>6. \A o \in Jtis : UsedInv(o)'
        BY <2>2, <2>3, <3>4, <3>5 DEF AuthInv, UsedInv
      <3> QED
        BY <1>1, <2>3, <3>5, <3>6 DEF AuthInv, AuthTypeOK
    <2> QED
      BY <1>5, <2>1, <2>4, <2>5 DEF SetNx
  <1>6. CASE InstantPasses
    <2>1. ASSUME NEW r \in Callers PROVE CallerInv(r)'
      <3>1. caller[r] \in Caller /\ instant \in Nat /\ MaxPause \in Nat
        BY AuthLimits DEF AuthInv, AuthTypeOK
      <3>2. caller[r].verified \in Nat
        BY <3>1 DEF Caller
      <3> QED
        BY <1>6, <3>1, <3>2 DEF InstantPasses, AuthInv, CallerInv
    <2> QED
      BY <1>1, <1>6, <2>1 DEF InstantPasses, AuthInv, AuthTypeOK, UsedInv
  <1>7. ASSUME NEW r \in Callers, CallerDies(r) PROVE AuthInv'
    BY <1>1, <1>7, CallerEnds DEF CallerDies, AuthInv, AuthTypeOK, UsedInv
  <1> QED
    BY <1>2, <1>3, <1>4, <1>5, <1>6, <1>7 DEF AuthNext

\* An assertion that was accepted is remembered, or past accepting.
THEOREM AuthInvariance == AuthSpec => []AuthInv
  BY AuthInitInv, AuthNextInv, PTL DEF AuthSpec

\* Every variable of client authentication stays in its domain.
THEOREM AuthTypeCorrect == AuthSpec => []AuthTypeOK
  BY AuthInvariance, PTL DEF AuthInv

\* A signed assertion authenticates one call, if the least life of its key covers the
\* tolerance and the longest pause between the check and the key.
THEOREM AssertionsAreUsedOnce == AuthSpec => []OncePerAssertion
  <1>1. AuthInv => OncePerAssertion
    BY DEF AuthInv, UsedInv, OncePerAssertion
  <1> QED
    BY <1>1, AuthInvariance, PTL

-----------------------------------------------------------------------------
(* TokenStore: what a code buys.                                           *)

\* A key with a payload is there, and was saved for a grant.
KeyInv(a) == key[a].payload => key[a].there /\ key[a].grant # NoGrant

\* What a call in progress works on: a code that was saved, or an artifact that
\* was not yet, for a token together with its code.
Placed(t) ==
    /\ t.pc # "off" => t.grant \in Grants
    /\ t.pc = "consume" => t.code \in Codes /\ key[t.code].grant # NoGrant
    /\ IF t.pc \in {"ttl", "exec"}
         THEN /\ t.id \in Artifacts /\ key[t.id].grant = NoGrant
              /\ IF t.id \in Tokens THEN t.code \in Codes /\ key[t.code].grant # NoGrant
                                    ELSE t.code = NoArtifact
         ELSE t.id = NoArtifact

OneId == \A o, q \in Calls : call[o].id \in Artifacts /\ call[o].id = call[q].id => o = q

\* Call o has read code c and is about to consume it; has consumed it for a token.
Buying(o, c) == call[o].pc = "consume" /\ call[o].code = c
Spending(o, c) == call[o].pc \in {"ttl", "exec"} /\ call[o].code = c

\* No exchange that starts now buys anything.
Spent(c) == key[c].grant # NoGrant /\ (Found(c) => key[c].consumed)

\* Of a code no two exchanges raced for, there is one buyer, one token on its way or
\* one token.
Purchase(c) ==
    c \notin raced =>
      /\ \A o, q \in Calls : Buying(o, c) /\ Buying(q, c) => o = q
      /\ \A o, q \in Calls : Spending(o, c) /\ Spending(q, c) => o = q
      /\ \A o \in Calls : Spending(o, c) => bought[c] = 0 /\ Spent(c) /\ \A q \in Calls : ~Buying(q, c)
      /\ bought[c] \in {0, 1}
      /\ bought[c] = 1 => Spent(c) /\ \A q \in Calls : ~Buying(q, c)

BuyInv ==
    /\ StoreTypeOK
    /\ \A a \in Artifacts : KeyInv(a)
    /\ \A o \in Calls : Placed(call[o])
    /\ OneId
    /\ \A c \in Codes : Purchase(c)

-----------------------------------------------------------------------------
(* TokenStore: what the lists name.                                        *)

\* The artifacts LiveArtifactsAreListed is about.
Kept(a) == Found(a) /\ key[a].alone

\* The list of a kept artifact names it and ends no sooner.
Within(a) ==
    LET l == list[key[a].grant]
    IN  l.there /\ a \in l.keys /\ l.expires # Endless /\ key[a].expires <= l.expires

Ttl(g) == IF ~list[g].there THEN -2
          ELSE IF list[g].expires = Endless THEN -1 ELSE list[g].expires - second

\* A call whose MULTI is to come.
Pending(t) == t.pc \in {"exec", "del"}

\* What a call has read still says enough of the artifacts that are kept: the end it
\* would give the list is not too soon, and the keys it would delete are all.
ReadWell(t) ==
    /\ t.pc = "exec" =>
         /\ ~t.mixed => t.ttl = Ttl(t.grant)
         /\ \A b \in Artifacts :
              Kept(b) /\ key[b].grant = t.grant /\ Life(t.id) > t.ttl => key[b].expires <= second + Life(t.id)
    /\ t.pc = "del" => \A b \in Artifacts : Kept(b) /\ key[b].grant = t.grant => b \in t.keys

\* A call that is not mixed is the only one on its grant.
OnlyOne ==
    \A o, q \in Calls :
      Pending(call[o]) /\ Pending(call[q]) /\ call[o].grant = call[q].grant /\ ~call[o].mixed => o = q

ListInv ==
    /\ \A a \in Artifacts : Found(a) => key[a].expires > second
    /\ \A g \in Grants :
         IF list[g].there THEN list[g].expires # Endless => list[g].expires > second
                          ELSE list[g].expires = Endless
    /\ \A a \in Artifacts : Kept(a) => Within(a)
    /\ \A o \in Calls : ReadWell(call[o])
    /\ OnlyOne

-----------------------------------------------------------------------------
(* Steps of the token store.                                               *)

\* The call t, or a later step of it that works on the same, or its end.
GoesOn(t, u) ==
    \/ u.pc = "off" /\ u.id = NoArtifact
    \/ /\ u.code = t.code /\ u.id = t.id /\ u.grant = t.grant
       /\ u.pc = t.pc \/ (t.pc = "ttl" /\ u.pc = "exec") \/ (t.pc = "range" /\ u.pc = "del")

\* No key is saved, none forgets that it was, and a consumed one stays consumed.
KeysStay ==
    \A a \in Artifacts :
      /\ key'[a].grant = key[a].grant
      /\ key'[a].payload => key'[a].there /\ key[a].payload
      /\ key'[a].there /\ key'[a].payload => (key[a].consumed => key'[a].consumed)

LEMMA NoCallThere ==
    /\ NoCall \in Call /\ NoCall.pc = "off" /\ NoCall.id = NoArtifact /\ NoCall.code = NoArtifact
    /\ NoCall.mixed = FALSE
  BY DEF NoCall, Call, CallPcs

\* Call o has gone on as c, and those it met between their read and their write,
\* and it when it met some, are mixed; nothing else of any call has changed.
WentOn(o, c, g) ==
    /\ call' \in [Calls -> Call]
    /\ \A q \in Calls :
         LET t == IF q = o THEN c ELSE call[q]
         IN  /\ call'[q].pc = t.pc /\ call'[q].code = t.code /\ call'[q].id = t.id
             /\ call'[q].grant = t.grant /\ call'[q].ttl = t.ttl /\ call'[q].keys = t.keys
    /\ call'[o].mixed = (Between(g) \ {o} # {})
    /\ \A q \in Calls \ {o} :
         call'[q].mixed = IF q \in Between(g) THEN TRUE ELSE call[q].mixed

LEMMA ReadsCalls ==
    ASSUME StoreTypeOK, NEW o \in Calls, NEW c \in Call, NEW g \in Grants, Reads(o, c, g)
    PROVE  WentOn(o, c, g)
  <1> DEFINE m == Between(g) \ {o} # {}
             c1 == [c EXCEPT !.mixed = m]
             d(q) == [call[q] EXCEPT !.mixed = TRUE]
  <1>1. /\ c1 \in Call /\ c1.mixed = m /\ c1.pc = c.pc /\ c1.code = c.code /\ c1.id = c.id
        /\ c1.grant = c.grant /\ c1.ttl = c.ttl /\ c1.keys = c.keys
    BY DEF Call
  <1>2. ASSUME NEW q \in Calls
        PROVE  /\ call[q] \in Call
               /\ d(q) \in Call /\ d(q).mixed = TRUE /\ d(q).pc = call[q].pc /\ d(q).code = call[q].code
               /\ d(q).id = call[q].id /\ d(q).grant = call[q].grant /\ d(q).ttl = call[q].ttl
               /\ d(q).keys = call[q].keys
    BY DEF Call, StoreTypeOK
  <1>3. call' = [q \in Calls |-> IF q = o THEN c1 ELSE IF q \in Between(g) THEN d(q) ELSE call[q]]
    BY DEF Reads
  <1> HIDE DEF m, c1, d
  <1>4. call'[o] = c1 /\ call' \in [Calls -> Call]
    BY <1>1, <1>2, <1>3
  <1>5. \A q \in Calls \ {o} : call'[q] = IF q \in Between(g) THEN d(q) ELSE call[q]
    BY <1>3
  <1> QED
    BY <1>1, <1>2, <1>4, <1>5 DEF m, WentOn

\* Nothing is saved and no call starts.
LEMMA NothingBought ==
    ASSUME BuyInv, StoreTypeOK', KeysStay, \A o \in Calls : GoesOn(call[o], call'[o]),
           UNCHANGED <<bought, raced>>
    PROVE  BuyInv'
  <1>1. \A a \in Artifacts : KeyInv(a)'
    BY DEF BuyInv, KeyInv, KeysStay
  <1>2. \A o \in Calls : Placed(call[o])'
    <2> SUFFICES ASSUME NEW o \in Calls, NEW t, t = call[o], NEW u, u = call'[o], Placed(t)
                 PROVE  Placed(u)'
      BY DEF BuyInv
    <2> QED
      BY DEF GoesOn, Placed, KeysStay, Artifacts
  <1>3. OneId'
    BY StoreSentinels DEF BuyInv, OneId, GoesOn
  <1>4. ASSUME NEW c \in Codes PROVE Purchase(c)'
    <2>1. Spent(c) => Spent(c)'
      BY DEF BuyInv, KeyInv, Spent, Found, KeysStay, Artifacts
    <2>2. ASSUME NEW o \in Calls
          PROVE  (Buying(o, c)' => Buying(o, c)) /\ (Spending(o, c)' => Spending(o, c))
      BY DEF Buying, Spending, GoesOn
    <2>3. Purchase(c)
      BY DEF BuyInv
    <2> HIDE DEF Buying, Spending
    <2> QED
      BY <2>1, <2>2, <2>3 DEF Purchase
  <1> QED
    BY <1>1, <1>2, <1>3, <1>4 DEF BuyInv

\* A call starts that buys nothing yet.
LEMMA CallStarts ==
    ASSUME BuyInv, UNCHANGED <<second, key, list, bought>>,
           NEW o \in Calls, call[o].pc = "off", NEW t \in Call, call' = [call EXCEPT ![o] = t], Placed(t),
           t.id \in Artifacts => \A q \in Calls : call[q].id # t.id,
           t.pc \in {"ttl", "exec"} => t.code = NoArtifact,
           raced \subseteq raced', raced' \subseteq Codes,
           t.pc = "consume" => /\ Found(t.code) /\ ~key[t.code].consumed
                               /\ (\E q \in Calls : Buying(q, t.code)) => t.code \in raced'
    PROVE  BuyInv'
  <1>1. /\ call' \in [Calls -> Call] /\ call'[o] = t
        /\ \A q \in Calls \ {o} : call'[q] = call[q]
    BY DEF BuyInv, StoreTypeOK
  <1>2. StoreTypeOK'
    BY <1>1 DEF BuyInv, StoreTypeOK
  <1>3. \A q \in Calls : Placed(call[q])'
    <2> SUFFICES ASSUME NEW q \in Calls, NEW u, u = call'[q] PROVE Placed(u)'
      OBVIOUS
    <2> QED
      BY <1>1 DEF BuyInv, Placed
  <1>4. OneId'
    BY <1>1 DEF BuyInv, OneId
  <1>5. ASSUME NEW c \in Codes PROVE Purchase(c)'
    <2> SUFFICES ASSUME c \notin raced'
                 PROVE  Purchase(c)'
      BY DEF Purchase
    <2>1. c \notin raced /\ Purchase(c)
      BY DEF BuyInv
    <2>2. ASSUME NEW q \in Calls, Spending(q, c)' PROVE Spending(q, c) /\ q # o
      BY <1>1, <2>2, StoreSentinels DEF Spending, Artifacts
    <2>3. ASSUME NEW q \in Calls \ {o} PROVE Buying(q, c)' = Buying(q, c)
      BY <1>1 DEF Buying
    <2>4. CASE Buying(o, c)'
      <3>1. t.pc = "consume" /\ t.code = c
        BY <1>1, <2>4 DEF Buying
      <3>2. ~Spent(c) /\ \A q \in Calls : ~Buying(q, c)
        BY <3>1 DEF Spent
      <3>3. /\ \A q \in Calls : ~Spending(q, c)
            /\ bought[c] = 0
        BY <2>1, <3>2 DEF Purchase
      <3> QED
        BY <2>2, <2>3, <3>2, <3>3 DEF Purchase
    <2>5. CASE ~Buying(o, c)'
      <3>1. ~Buying(o, c)
        BY DEF Buying
      <3>2. Spent(c)' = Spent(c)
        BY DEF Spent, Found
      <3> QED
        BY <2>1, <2>2, <2>3, <2>5, <3>1, <3>2 DEF Purchase
    <2> QED
      BY <2>4, <2>5
  <1> QED
    BY <1>2, <1>3, <1>4, <1>5 DEF BuyInv, KeyInv

\* What consume and Exec make of the keys and the calls.
LEMMA Consumed ==
    ASSUME BuyInv, NEW o \in Calls, consume(o)
    PROVE  \E a \in Tokens, c \in Codes :
             /\ c = call[o].code /\ Unused(a)
             /\ key' \in [Artifacts -> Key] /\ \A b \in Artifacts \ {c} : key'[b] = key[b]
             /\ key'[c].grant = key[c].grant /\ key'[c].payload = key[c].payload
             /\ key'[c].there /\ key'[c].consumed
             /\ key'[c].alone = key[c].alone
             /\ key[c].there => key'[c].expires = key[c].expires
             /\ call' \in [Calls -> Call] /\ \A q \in Calls \ {o} : call'[q] = call[q]
             /\ call'[o].pc = "ttl" /\ call'[o].id = a /\ call'[o].code = c
             /\ call'[o].grant = call[o].grant
             /\ UNCHANGED <<second, list, bought, raced>>
  <1>1. PICK t : t = call[o]
    OBVIOUS
  <1>2. t \in Call /\ t.pc = "consume" /\ t.code \in Codes
    BY <1>1 DEF consume, BuyInv, StoreTypeOK, Placed
  <1>3. PICK c : c = t.code
    OBVIOUS
  <1>4. PICK a \in Tokens :
          /\ Unused(a) /\ call' = [call EXCEPT ![o] = [t EXCEPT !.pc = "ttl", !.id = a]]
    BY <1>1 DEF consume
  <1>5. PICK u : u = [t EXCEPT !.pc = "ttl", !.id = a]
    OBVIOUS
  <1>6. /\ u \in Call /\ u.pc = "ttl" /\ u.id = a /\ u.code = c /\ u.grant = t.grant
    BY <1>2, <1>3, <1>5 DEF Call, CallPcs, Artifacts
  <1>7. /\ call' \in [Calls -> Call] /\ call'[o] = u /\ \A q \in Calls \ {o} : call'[q] = call[q]
    BY <1>4, <1>5, <1>6 DEF BuyInv, StoreTypeOK
  <1>8. PICK k : k = IF key[c].there THEN [key[c] EXCEPT !.consumed = TRUE]
                     ELSE [key[c] EXCEPT !.there = TRUE, !.consumed = TRUE, !.expires = Endless]
    OBVIOUS
  <1>9. key[c] \in Key
    BY <1>2, <1>3 DEF BuyInv, StoreTypeOK, Artifacts
  <1>10. /\ k \in Key /\ k.grant = key[c].grant /\ k.payload = key[c].payload /\ k.there /\ k.consumed
         /\ k.alone = key[c].alone /\ (key[c].there => k.expires = key[c].expires)
    BY <1>8, <1>9 DEF Key, Endless
  <1>11. key' = [key EXCEPT ![c] = k]
    BY <1>1, <1>3, <1>8 DEF consume
  <1>12. key' \in [Artifacts -> Key] /\ key'[c] = k /\ \A b \in Artifacts \ {c} : key'[b] = key[b]
    BY <1>2, <1>3, <1>10, <1>11 DEF BuyInv, StoreTypeOK, Artifacts
  <1>13. UNCHANGED <<second, list, bought, raced>>
    BY DEF consume
  <1> QED
    BY <1>1, <1>2, <1>3, <1>4, <1>6, <1>7, <1>10, <1>12, <1>13

LEMMA ConsumeBuys ==
    ASSUME BuyInv, NEW o \in Calls, consume(o) PROVE BuyInv'
  <1>1. PICK a \in Tokens, c \in Codes :
          /\ c = call[o].code /\ Unused(a)
          /\ key' \in [Artifacts -> Key] /\ \A b \in Artifacts \ {c} : key'[b] = key[b]
          /\ key'[c].grant = key[c].grant /\ key'[c].payload = key[c].payload
          /\ key'[c].there /\ key'[c].consumed
          /\ call' \in [Calls -> Call] /\ \A q \in Calls \ {o} : call'[q] = call[q]
          /\ call'[o].pc = "ttl" /\ call'[o].id = a /\ call'[o].code = c
          /\ call'[o].grant = call[o].grant
          /\ UNCHANGED <<second, list, bought, raced>>
    BY Consumed
  <1>2. /\ a \in Artifacts /\ c \in Artifacts /\ a # c
        /\ call[o].pc = "consume" /\ key[c].grant # NoGrant /\ call[o].grant \in Grants
    BY <1>1, StoreSentinels DEF Artifacts, consume, BuyInv, Placed
  <1>3. StoreTypeOK'
    BY <1>1 DEF BuyInv, StoreTypeOK
  <1>4. \A b \in Artifacts : KeyInv(b)' /\ key'[b].grant = key[b].grant
    BY <1>1, <1>2 DEF BuyInv, KeyInv
  <1>5. key[a].grant = NoGrant /\ \A q \in Calls : call[q].id # a
    BY <1>1 DEF Unused
  <1>6. \A q \in Calls : Placed(call[q])'
    <2> SUFFICES ASSUME NEW q \in Calls, NEW u, u = call'[q] PROVE Placed(u)'
      OBVIOUS
    <2>1. CASE q = o
      BY <1>1, <1>2, <1>4, <1>5, <2>1 DEF Placed
    <2>2. CASE q # o
      BY <1>1, <1>4, <2>2 DEF BuyInv, Placed, Artifacts
    <2> QED
      BY <2>1, <2>2
  <1>7. OneId'
    BY <1>1, <1>5 DEF BuyInv, OneId
  <1>8. ASSUME NEW d \in Codes PROVE Purchase(d)'
    <2> SUFFICES ASSUME d \notin raced PROVE Purchase(d)'
      BY <1>1 DEF Purchase
    <2>1. Purchase(d) /\ d \in Artifacts
      BY DEF BuyInv, Artifacts
    <2>2. \A q \in Calls \ {o} : Buying(q, d)' = Buying(q, d) /\ Spending(q, d)' = Spending(q, d)
      BY <1>1 DEF Buying, Spending
    <2>3. ~Buying(o, d)' /\ ~Spending(o, d)
      BY <1>1, <1>2 DEF Buying, Spending
    <2>4. CASE d = c
      <3>1. Buying(o, d) /\ Spent(d)'
        BY <1>1, <1>2, <1>4, <2>4 DEF Buying, Spent
      <3>2. /\ \A q \in Calls : ~Spending(q, d)
            /\ \A q \in Calls \ {o} : ~Buying(q, d)
            /\ bought[d] = 0
        BY <2>1, <3>1 DEF Purchase
      <3> QED
        BY <1>1, <2>2, <2>3, <3>1, <3>2 DEF Purchase
    <2>5. CASE d # c
      <3>1. ~Buying(o, d) /\ ~Spending(o, d)'
        BY <1>1, <2>5 DEF Buying, Spending
      <3>2. Spent(d)' = Spent(d)
        BY <1>1, <2>1, <2>5 DEF Spent, Found
      <3> QED
        BY <1>1, <2>1, <2>2, <2>3, <3>1, <3>2 DEF Purchase
    <2> QED
      BY <2>4, <2>5
  <1> QED
    BY <1>3, <1>4, <1>6, <1>7, <1>8 DEF BuyInv

LEMMA Executed ==
    ASSUME BuyInv, NEW o \in Calls, Exec(o)
    PROVE  \E a \in Artifacts, g \in Grants :
             /\ a = call[o].id /\ g = call[o].grant /\ call[o].pc = "exec"
             /\ key[a].grant = NoGrant
             /\ key' \in [Artifacts -> Key] /\ \A b \in Artifacts \ {a} : key'[b] = key[b]
             /\ key'[a].there /\ key'[a].payload /\ key'[a].grant = g
             /\ key'[a].expires = second + Life(a) /\ key'[a].alone = ~call[o].mixed
             /\ list' \in [Grants -> GrantList] /\ \A h \in Grants \ {g} : list'[h] = list[h]
             /\ list'[g].there /\ list'[g].keys = list[g].keys \cup {a}
             /\ list'[g].expires = IF Life(a) > call[o].ttl THEN second + Life(a) ELSE list[g].expires
             /\ call' \in [Calls -> Call] /\ call'[o] = NoCall
             /\ \A q \in Calls \ {o} : call'[q] = call[q]
             /\ bought' = IF a \in Tokens THEN [bought EXCEPT ![call[o].code] = @ + 1] ELSE bought
             /\ UNCHANGED <<second, raced>>
             /\ Life(a) \in Nat \ {0} /\ second \in Nat
  <1>1. PICK a, g, t : t = call[o] /\ a = t.id /\ g = t.grant
    OBVIOUS
  <1>2. /\ t \in Call /\ t.pc = "exec" /\ a \in Artifacts /\ g \in Grants /\ key[a].grant = NoGrant
    BY <1>1 DEF Exec, BuyInv, StoreTypeOK, Placed
  <1>3. Life(a) \in Nat \ {0} /\ second \in Nat /\ second + Life(a) \in Nat
    BY StoreLimits DEF Life, BuyInv, StoreTypeOK
  <1>4. PICK k, l :
          /\ k = [NoKeyThere EXCEPT !.there = TRUE, !.grant = g, !.payload = TRUE,
                                    !.expires = second + Life(a), !.alone = ~t.mixed]
          /\ l = [there |-> TRUE, keys |-> list[g].keys \cup {a},
                  expires |-> IF Life(a) > t.ttl THEN second + Life(a) ELSE list[g].expires]
    OBVIOUS
  <1>5. /\ k \in Key /\ k.there /\ k.payload /\ k.grant = g /\ k.expires = second + Life(a)
        /\ k.alone = ~t.mixed
    BY <1>2, <1>3, <1>4 DEF NoKeyThere, Key, Call
  <1>6. list[g] \in GrantList
    BY <1>2 DEF BuyInv, StoreTypeOK
  <1>7. /\ l \in GrantList /\ l.there /\ l.keys = list[g].keys \cup {a}
        /\ l.expires = IF Life(a) > t.ttl THEN second + Life(a) ELSE list[g].expires
    BY <1>2, <1>3, <1>4, <1>6 DEF GrantList
  <1>8. key' = [key EXCEPT ![a] = k] /\ list' = [list EXCEPT ![g] = l]
    BY <1>1, <1>4 DEF Exec
  <1>9. /\ call' = [call EXCEPT ![o] = NoCall]
        /\ bought' = IF a \in Tokens THEN [bought EXCEPT ![t.code] = @ + 1] ELSE bought
        /\ UNCHANGED <<second, raced>>
    BY <1>1 DEF Exec, Return
  <1>10. /\ key' \in [Artifacts -> Key] /\ key'[a] = k /\ \A b \in Artifacts \ {a} : key'[b] = key[b]
    BY <1>2, <1>5, <1>8 DEF BuyInv, StoreTypeOK
  <1>11. /\ list' \in [Grants -> GrantList] /\ list'[g] = l /\ \A h \in Grants \ {g} : list'[h] = list[h]
    BY <1>2, <1>7, <1>8 DEF BuyInv, StoreTypeOK
  <1>12. /\ call' \in [Calls -> Call] /\ call'[o] = NoCall
         /\ \A q \in Calls \ {o} : call'[q] = call[q]
    BY <1>9, NoCallThere DEF BuyInv, StoreTypeOK
  <1> QED
    BY <1>1, <1>2, <1>3, <1>5, <1>7, <1>9, <1>10, <1>11, <1>12

LEMMA ExecBuys ==
    ASSUME BuyInv, NEW o \in Calls, Exec(o) PROVE BuyInv'
  <1>1. PICK a \in Artifacts, g \in Grants :
          /\ a = call[o].id /\ g = call[o].grant /\ call[o].pc = "exec"
          /\ key[a].grant = NoGrant
          /\ key' \in [Artifacts -> Key] /\ \A b \in Artifacts \ {a} : key'[b] = key[b]
          /\ key'[a].there /\ key'[a].payload /\ key'[a].grant = g
          /\ list' \in [Grants -> GrantList]
          /\ call' \in [Calls -> Call] /\ call'[o] = NoCall
          /\ \A q \in Calls \ {o} : call'[q] = call[q]
          /\ bought' = IF a \in Tokens THEN [bought EXCEPT ![call[o].code] = @ + 1] ELSE bought
          /\ UNCHANGED <<second, raced>>
    BY Executed
  <1>2. /\ IF a \in Tokens THEN call[o].code \in Codes ELSE call[o].code = NoArtifact
        /\ g # NoGrant
    BY <1>1, StoreSentinels DEF BuyInv, Placed
  <1>3. StoreTypeOK'
    <2>1. bought' \in [Codes -> Nat]
      BY <1>1, <1>2 DEF BuyInv, StoreTypeOK
    <2> QED
      BY <1>1, <2>1 DEF BuyInv, StoreTypeOK
  <1>4. \A b \in Artifacts : KeyInv(b)' /\ (key[b].grant # NoGrant => key'[b].grant # NoGrant)
    BY <1>1, <1>2 DEF BuyInv, KeyInv
  <1>5. \A q \in Calls \ {o} : call[q].id # a
    BY <1>1 DEF BuyInv, OneId
  <1>6. \A q \in Calls : Placed(call[q])'
    <2> SUFFICES ASSUME NEW q \in Calls, NEW u, u = call'[q] PROVE Placed(u)'
      OBVIOUS
    <2>1. CASE q = o
      BY <1>1, <2>1, NoCallThere DEF Placed
    <2>2. CASE q # o
      BY <1>1, <1>4, <1>5, <2>2 DEF BuyInv, Placed, Artifacts
    <2> QED
      BY <2>1, <2>2
  <1>7. OneId'
    BY <1>1, NoCallThere, StoreSentinels DEF BuyInv, OneId
  <1>8. ASSUME NEW d \in Codes PROVE Purchase(d)'
    <2> SUFFICES ASSUME d \notin raced PROVE Purchase(d)'
      BY <1>1 DEF Purchase
    <2>1. Purchase(d) /\ d \in Artifacts
      BY DEF BuyInv, Artifacts
    <2>2. /\ \A q \in Calls \ {o} : Buying(q, d)' = Buying(q, d) /\ Spending(q, d)' = Spending(q, d)
          /\ ~Buying(o, d)' /\ ~Spending(o, d)' /\ ~Buying(o, d)
      BY <1>1, NoCallThere DEF Buying, Spending
    <2>3. CASE a \in Tokens /\ call[o].code = d
      <3>1. Spending(o, d)
        BY <1>1, <2>3 DEF Spending
      <3>2. /\ bought[d] = 0 /\ Spent(d) /\ \A q \in Calls : ~Buying(q, d)
            /\ \A q \in Calls \ {o} : ~Spending(q, d)
        BY <2>1, <3>1 DEF Purchase
      <3>3. bought'[d] = 1
        BY <1>1, <2>3, <3>2 DEF BuyInv, StoreTypeOK
      <3>4. a # d
        BY <2>3, StoreSentinels
      <3>5. Spent(d)'
        BY <1>1, <2>1, <3>2, <3>4 DEF Spent, Found
      <3> QED
        BY <2>2, <3>2, <3>3, <3>5 DEF Purchase
    <2>4. CASE ~(a \in Tokens /\ call[o].code = d)
      <3>1. bought'[d] = bought[d]
        BY <1>1, <1>2, <2>4 DEF BuyInv, StoreTypeOK
      <3>2. ~Spending(o, d)
        BY <1>1, <1>2, <2>4, StoreSentinels DEF Spending, Artifacts
      <3>3. CASE a = d
        <4>1. ~Spent(d) /\ \A q \in Calls : ~Buying(q, d)
          BY <1>1, <3>3 DEF Spent, Buying, BuyInv, Placed
        <4>2. bought[d] = 0 /\ \A q \in Calls : ~Spending(q, d)
          BY <2>1, <4>1 DEF Purchase
        <4> QED
          BY <2>2, <3>1, <4>1, <4>2 DEF Purchase
      <3>4. CASE a # d
        <4>1. Spent(d)' = Spent(d)
          BY <1>1, <2>1, <3>4 DEF Spent, Found
        <4> QED
          BY <2>1, <2>2, <3>1, <3>2, <4>1 DEF Purchase
      <3> QED
        BY <3>3, <3>4
    <2> QED
      BY <2>3, <2>4
  <1> QED
    BY <1>3, <1>4, <1>6, <1>7, <1>8 DEF BuyInv

LEMMA BuyInit == StoreInit => BuyInv
  <1> SUFFICES ASSUME StoreInit PROVE BuyInv
    OBVIOUS
  <1>1. NoKeyThere \in Key /\ NoKeyThere.payload = FALSE
    BY DEF NoKeyThere, Key
  <1>2. NoList \in GrantList
    BY DEF NoList, GrantList
  <1>3. StoreTypeOK
    BY <1>1, <1>2, NoCallThere DEF StoreInit, StoreTypeOK
  <1>4. \A o \in Calls : call[o] = NoCall
    BY DEF StoreInit
  <1>5. \A o \in Calls : Placed(call[o])
    BY <1>4, NoCallThere DEF Placed
  <1>6. OneId
    BY <1>4, NoCallThere, StoreSentinels DEF OneId
  <1>7. \A c \in Codes : Purchase(c)
    BY <1>4, NoCallThere DEF StoreInit, Purchase, Buying, Spending
  <1> QED
    BY <1>1, <1>3, <1>5, <1>6, <1>7 DEF StoreInit, BuyInv, KeyInv

\* What the call is that each of the three operations starts.
LEMMA Started ==
    ASSUME StoreTypeOK, NEW o \in Calls, NewCode(o) \/ Exchange(o) \/ RevokeByGrantId(o)
    PROVE  \E t \in Call :
             /\ call[o].pc = "off" /\ call' = [call EXCEPT ![o] = t]
             /\ t.pc \in {"ttl", "consume", "range"} /\ ~t.mixed
             /\ t.pc = "ttl" => t.id \in Codes /\ t.grant \in Grants /\ Unused(t.id) /\ t.code = NoArtifact
             /\ t.pc # "ttl" => t.id = NoArtifact
             /\ t.pc = "consume" =>
                  /\ t.code \in Codes /\ t.grant = key[t.code].grant
                  /\ Found(t.code) /\ ~key[t.code].consumed
                  /\ (\E q \in Calls : Buying(q, t.code)) => t.code \in raced'
             /\ t.pc = "range" => t.grant \in Grants \/ \E c \in Codes : Found(c) /\ t.grant = key[c].grant
             /\ raced \subseteq raced' /\ raced' \subseteq Codes
             /\ UNCHANGED <<second, key, list, bought>>
  <1>0. PICK n : n = NoCall /\ n \in Call /\ n.id = NoArtifact /\ n.code = NoArtifact /\ n.mixed = FALSE
    BY NoCallThere
  <1>1. CASE NewCode(o)
    <2>1. PICK a \in Codes, g \in Grants :
            /\ Unused(a)
            /\ call' = [call EXCEPT ![o] = [NoCall EXCEPT !.pc = "ttl", !.id = a, !.grant = g]]
      BY <1>1 DEF NewCode
    <2>2. PICK t : t = [n EXCEPT !.pc = "ttl", !.id = a, !.grant = g]
      OBVIOUS
    <2>3. /\ t \in Call /\ t.pc = "ttl" /\ ~t.mixed /\ t.id = a /\ t.grant = g /\ t.code = NoArtifact
      BY <1>0, <2>2 DEF Call, CallPcs, Artifacts
    <2> QED
      BY <1>0, <1>1, <2>1, <2>2, <2>3 DEF NewCode, StoreTypeOK
  <1>2. CASE Exchange(o)
    <2>1. PICK c \in Codes :
            /\ Found(c)
            /\ call' = [call EXCEPT ![o] = [NoCall EXCEPT !.pc = IF key[c].consumed THEN "range" ELSE "consume",
                                                          !.code = c, !.grant = key[c].grant]]
            /\ raced' = IF \E q \in Calls : call[q].pc = "consume" /\ call[q].code = c
                          THEN raced \cup {c} ELSE raced
      BY <1>2 DEF Exchange
    <2>2. PICK pc, g : pc = (IF key[c].consumed THEN "range" ELSE "consume") /\ g = key[c].grant
      OBVIOUS
    <2>3. PICK t : t = [n EXCEPT !.pc = pc, !.code = c, !.grant = g]
      OBVIOUS
    <2>4. g \in Grants \cup {NoGrant}
      BY <2>2 DEF StoreTypeOK, Key, Artifacts
    <2>5. /\ t \in Call /\ t.pc = pc /\ ~t.mixed /\ t.id = NoArtifact /\ t.grant = g /\ t.code = c
      BY <1>0, <2>2, <2>3, <2>4 DEF Call, CallPcs
    <2>6. raced \subseteq raced' /\ raced' \subseteq Codes
      BY <2>1 DEF StoreTypeOK
    <2>7. call' = [call EXCEPT ![o] = t]
      BY <1>0, <2>1, <2>2, <2>3
    <2> QED
      BY <1>2, <2>1, <2>2, <2>5, <2>6, <2>7 DEF Exchange, Buying
  <1>3. CASE RevokeByGrantId(o)
    <2>1. PICK g \in Grants :
            call' = [call EXCEPT ![o] = [NoCall EXCEPT !.pc = "range", !.grant = g]]
      BY <1>3 DEF RevokeByGrantId
    <2>2. PICK t : t = [n EXCEPT !.pc = "range", !.grant = g]
      OBVIOUS
    <2>3. /\ t \in Call /\ t.pc = "range" /\ ~t.mixed /\ t.id = NoArtifact /\ t.grant = g
      BY <1>0, <2>2 DEF Call, CallPcs
    <2> QED
      BY <1>0, <1>3, <2>1, <2>2, <2>3 DEF RevokeByGrantId, StoreTypeOK
  <1> QED
    BY <1>1, <1>2, <1>3

LEMMA StartBuys ==
    ASSUME BuyInv, NEW o \in Calls, NewCode(o) \/ Exchange(o) \/ RevokeByGrantId(o) PROVE BuyInv'
  <1>1. StoreTypeOK
    BY DEF BuyInv
  <1>2. PICK t \in Call :
             /\ call[o].pc = "off" /\ call' = [call EXCEPT ![o] = t]
             /\ t.pc \in {"ttl", "consume", "range"} /\ ~t.mixed
             /\ t.pc = "ttl" => t.id \in Codes /\ t.grant \in Grants /\ Unused(t.id) /\ t.code = NoArtifact
             /\ t.pc # "ttl" => t.id = NoArtifact
             /\ t.pc = "consume" =>
                  /\ t.code \in Codes /\ t.grant = key[t.code].grant
                  /\ Found(t.code) /\ ~key[t.code].consumed
                  /\ (\E q \in Calls : Buying(q, t.code)) => t.code \in raced'
             /\ t.pc = "range" => t.grant \in Grants \/ \E c \in Codes : Found(c) /\ t.grant = key[c].grant
             /\ raced \subseteq raced' /\ raced' \subseteq Codes
             /\ UNCHANGED <<second, key, list, bought>>
    BY <1>1, Started
  <1>3. \A c \in Codes : Found(c) => key[c].grant \in Grants
    BY DEF BuyInv, KeyInv, Found, StoreTypeOK, Key, Artifacts
  <1>4. Placed(t)
    BY <1>2, <1>3, StoreSentinels DEF Placed, Unused, Artifacts
  <1>5. t.id \in Artifacts => \A q \in Calls : call[q].id # t.id
    BY <1>2, StoreSentinels DEF Unused
  <1> QED
    BY <1>2, <1>4, <1>5, CallStarts

LEMMA DeleteBuys ==
    ASSUME BuyInv, NEW o \in Calls, DeleteListed(o) PROVE BuyInv'
  <1>1. PICK ks, g : ks = call[o].keys /\ g = call[o].grant
    OBVIOUS
  <1>2. NoList \in GrantList
    BY DEF NoList, GrantList
  <1>3. ASSUME NEW a \in Artifacts
        PROVE  LET k == [NoKeyThere EXCEPT !.grant = key[a].grant]
               IN  /\ k \in Key /\ k.grant = key[a].grant /\ ~k.payload
    BY DEF BuyInv, StoreTypeOK, Key, NoKeyThere
  <1>4. key' = [a \in Artifacts |-> IF a \in ks THEN [NoKeyThere EXCEPT !.grant = key[a].grant]
                                    ELSE key[a]]
    BY <1>1 DEF DeleteListed
  <1>5. key' \in [Artifacts -> Key]
    BY <1>3, <1>4 DEF BuyInv, StoreTypeOK
  <1>6. ASSUME NEW a \in Artifacts
        PROVE  key'[a].grant = key[a].grant /\ (key'[a].payload => key'[a] = key[a])
    BY <1>3, <1>4
  <1>7. KeysStay
    BY <1>6 DEF KeysStay, BuyInv, KeyInv
  <1>8. /\ call' \in [Calls -> Call] /\ call'[o] = NoCall
        /\ \A q \in Calls \ {o} : call'[q] = call[q]
    BY NoCallThere DEF DeleteListed, Return, BuyInv, StoreTypeOK
  <1>9. \A q \in Calls : GoesOn(call[q], call'[q])
    BY <1>8, NoCallThere DEF GoesOn
  <1>10. list' \in [Grants -> GrantList]
    BY <1>2 DEF DeleteListed, BuyInv, StoreTypeOK
  <1>11. StoreTypeOK'
    BY <1>5, <1>8, <1>10 DEF DeleteListed, BuyInv, StoreTypeOK
  <1>12. UNCHANGED <<bought, raced>>
    BY DEF DeleteListed
  <1> QED
    BY <1>7, <1>9, <1>11, <1>12, NothingBought

\* What a call goes on as when it has read the TTL or the list.
LEMMA ReadBy ==
    ASSUME BuyInv, NEW o \in Calls, ReadTtl(o) \/ ReadList(o)
    PROVE  \E c \in Call, g \in Grants :
             /\ g = call[o].grant /\ Reads(o, c, g)
             /\ c.code = call[o].code /\ c.id = call[o].id /\ c.grant = g
             /\ \/ call[o].pc = "ttl" /\ c.pc = "exec" /\ c.ttl = Ttl(g)
                \/ call[o].pc = "range" /\ c.pc = "del" /\ c.keys = list[g].keys
             /\ UNCHANGED <<second, key, list, bought, raced>>
  <1>1. PICK t, g : t = call[o] /\ g = t.grant
    OBVIOUS
  <1>2. t \in Call /\ (t.pc # "off" => g \in Grants)
    BY <1>1 DEF BuyInv, StoreTypeOK, Placed
  <1>3. CASE ReadTtl(o)
    <2>1. PICK ttl : ttl = Ttl(g)
      OBVIOUS
    <2>2. PICK c : c = [t EXCEPT !.pc = "exec", !.ttl = ttl]
      OBVIOUS
    <2>3. t.pc = "ttl" /\ Reads(o, c, g) /\ UNCHANGED <<second, key, list, bought, raced>>
      BY <1>1, <1>3, <2>1, <2>2 DEF ReadTtl, Ttl
    <2>4. ttl \in Int
      BY <1>2, <2>1, <2>3 DEF Ttl, BuyInv, StoreTypeOK, GrantList
    <2>5. c \in Call /\ c.code = t.code /\ c.id = t.id /\ c.grant = g /\ c.pc = "exec" /\ c.ttl = ttl
      BY <1>1, <1>2, <2>2, <2>4 DEF Call, CallPcs
    <2> QED
      BY <1>1, <1>2, <2>1, <2>3, <2>5
  <1>4. CASE ReadList(o)
    <2>1. PICK ks : ks = list[g].keys
      OBVIOUS
    <2>2. PICK c : c = [t EXCEPT !.pc = "del", !.keys = ks]
      OBVIOUS
    <2>3. t.pc = "range" /\ Reads(o, c, g) /\ UNCHANGED <<second, key, list, bought, raced>>
      BY <1>1, <1>4, <2>1, <2>2 DEF ReadList
    <2>4. ks \in SUBSET Artifacts
      BY <1>2, <2>1, <2>3 DEF BuyInv, StoreTypeOK, GrantList
    <2>5. c \in Call /\ c.code = t.code /\ c.id = t.id /\ c.grant = g /\ c.pc = "del" /\ c.keys = ks
      BY <1>1, <1>2, <2>2, <2>4 DEF Call, CallPcs
    <2> QED
      BY <1>1, <1>2, <2>1, <2>3, <2>5
  <1> QED
    BY <1>3, <1>4

LEMMA ReadBuys ==
    ASSUME BuyInv, NEW o \in Calls, ReadTtl(o) \/ ReadList(o) PROVE BuyInv'
  <1>1. PICK c \in Call, g \in Grants :
             /\ g = call[o].grant /\ Reads(o, c, g)
             /\ c.code = call[o].code /\ c.id = call[o].id /\ c.grant = g
             /\ \/ call[o].pc = "ttl" /\ c.pc = "exec"
                \/ call[o].pc = "range" /\ c.pc = "del"
             /\ UNCHANGED <<second, key, list, bought, raced>>
    BY ReadBy
  <1>2. StoreTypeOK
    BY DEF BuyInv
  <1>3. /\ call' \in [Calls -> Call]
        /\ \A q \in Calls :
             LET t == IF q = o THEN c ELSE call[q]
             IN  call'[q].pc = t.pc /\ call'[q].code = t.code /\ call'[q].id = t.id /\ call'[q].grant = t.grant
    <2>1. WentOn(o, c, g)
      BY <1>1, <1>2, ReadsCalls
    <2> QED
      BY <2>1 DEF WentOn
  <1>4. \A q \in Calls : GoesOn(call[q], call'[q])
    BY <1>1, <1>3 DEF GoesOn
  <1>5. StoreTypeOK' /\ KeysStay
    BY <1>1, <1>3 DEF BuyInv, StoreTypeOK, KeysStay, KeyInv
  <1> QED
    BY <1>1, <1>4, <1>5, NothingBought

LEMMA DiesBuys ==
    ASSUME BuyInv, NEW o \in Calls, CallDies(o) PROVE BuyInv'
  <1>1. /\ call' \in [Calls -> Call] /\ call'[o] = NoCall
        /\ \A q \in Calls \ {o} : call'[q] = call[q]
    BY NoCallThere DEF CallDies, Return, BuyInv, StoreTypeOK
  <1>2. \A q \in Calls : GoesOn(call[q], call'[q])
    BY <1>1, NoCallThere DEF GoesOn
  <1>3. StoreTypeOK' /\ KeysStay /\ UNCHANGED <<bought, raced>>
    BY <1>1 DEF CallDies, BuyInv, StoreTypeOK, KeysStay, KeyInv
  <1> QED
    BY <1>2, <1>3, NothingBought

\* What a second does to the keys, the lists and the calls.
LEMMA SecondPassed ==
    ASSUME StoreTypeOK, SecondPasses
    PROVE  /\ second' = second + 1 /\ second' \in Nat /\ UNCHANGED <<bought, raced>>
           /\ key' \in [Artifacts -> Key]
           /\ \A a \in Artifacts :
                /\ key'[a].grant = key[a].grant
                /\ IF key[a].there /\ key[a].expires = second'
                     THEN ~key'[a].there /\ ~key'[a].payload ELSE key'[a] = key[a]
           /\ list' \in [Grants -> GrantList]
           /\ \A g \in Grants :
                IF list[g].there /\ list[g].expires = second' THEN list'[g] = NoList ELSE list'[g] = list[g]
           /\ call' \in [Calls -> Call]
           /\ \A o \in Calls :
                /\ call'[o].pc = call[o].pc /\ call'[o].code = call[o].code /\ call'[o].id = call[o].id
                /\ call'[o].grant = call[o].grant /\ call'[o].ttl = call[o].ttl /\ call'[o].keys = call[o].keys
                /\ Pending(call[o]) => call'[o].mixed
  <1>1. /\ second' = second + 1 /\ UNCHANGED <<bought, raced>>
        /\ key' = [a \in Artifacts |-> IF key[a].there /\ key[a].expires = second'
                                         THEN [NoKeyThere EXCEPT !.grant = key[a].grant] ELSE key[a]]
        /\ list' = [g \in Grants |-> IF list[g].there /\ list[g].expires = second' THEN NoList ELSE list[g]]
        /\ call' = [o \in Calls |-> IF Pending(call[o]) THEN [call[o] EXCEPT !.mixed = TRUE] ELSE call[o]]
    BY DEF SecondPasses, Pending
  <1>2. second' \in Nat
    BY <1>1 DEF StoreTypeOK
  <1>3. ASSUME NEW a \in Artifacts
        PROVE  LET k == [NoKeyThere EXCEPT !.grant = key[a].grant]
               IN  key[a] \in Key /\ k \in Key /\ k.grant = key[a].grant /\ ~k.payload /\ ~k.there
    BY DEF StoreTypeOK, Key, NoKeyThere
  <1>4. NoList \in GrantList /\ ~NoList.there
    BY DEF NoList, GrantList
  <1>5. ASSUME NEW o \in Calls
        PROVE  LET t == call[o]  u == [t EXCEPT !.mixed = TRUE]
               IN  /\ t \in Call /\ u \in Call /\ u.mixed /\ u.pc = t.pc /\ u.code = t.code /\ u.id = t.id
                   /\ u.grant = t.grant /\ u.ttl = t.ttl /\ u.keys = t.keys
    BY DEF StoreTypeOK, Call
  <1>6. key' \in [Artifacts -> Key]
    BY <1>1, <1>3
  <1>7. ASSUME NEW a \in Artifacts
        PROVE  /\ key'[a].grant = key[a].grant
               /\ IF key[a].there /\ key[a].expires = second'
                    THEN ~key'[a].there /\ ~key'[a].payload ELSE key'[a] = key[a]
    BY <1>1, <1>3
  <1>8. list' \in [Grants -> GrantList]
    BY <1>1, <1>4 DEF StoreTypeOK
  <1>9. ASSUME NEW g \in Grants
        PROVE  IF list[g].there /\ list[g].expires = second' THEN list'[g] = NoList ELSE list'[g] = list[g]
    BY <1>1, <1>4
  <1>10. call' \in [Calls -> Call]
    BY <1>1, <1>5
  <1>11. ASSUME NEW o \in Calls
         PROVE  /\ call'[o].pc = call[o].pc /\ call'[o].code = call[o].code /\ call'[o].id = call[o].id
                /\ call'[o].grant = call[o].grant /\ call'[o].ttl = call[o].ttl /\ call'[o].keys = call[o].keys
                /\ Pending(call[o]) => call'[o].mixed
    BY <1>1, <1>5
  <1> QED
    BY <1>1, <1>2, <1>6, <1>7, <1>8, <1>9, <1>10, <1>11

LEMMA SecondBuys ==
    ASSUME BuyInv, SecondPasses PROVE BuyInv'
  <1>1. StoreTypeOK
    BY DEF BuyInv
  <1>2. StoreTypeOK' /\ UNCHANGED <<bought, raced>>
    BY <1>1, SecondPassed DEF StoreTypeOK
  <1>3. \A o \in Calls : GoesOn(call[o], call'[o])
    BY <1>1, SecondPassed DEF GoesOn
  <1>4. KeysStay
    <2> SUFFICES ASSUME NEW a \in Artifacts
                 PROVE  /\ key'[a].grant = key[a].grant
                        /\ key'[a].payload => key'[a].there /\ key[a].payload
                        /\ key'[a].there /\ key'[a].payload => (key[a].consumed => key'[a].consumed)
      BY DEF KeysStay
    <2>1. /\ key'[a].grant = key[a].grant
          /\ IF key[a].there /\ key[a].expires = second'
               THEN ~key'[a].there /\ ~key'[a].payload ELSE key'[a] = key[a]
      BY <1>1, SecondPassed
    <2> QED
      BY <2>1 DEF BuyInv, KeyInv
  <1> QED
    BY <1>2, <1>3, <1>4, NothingBought

LEMMA BuyNext == BuyInv /\ [StoreNext]_storeVars => BuyInv'
  <1> SUFFICES ASSUME BuyInv, [StoreNext]_storeVars PROVE BuyInv'
    OBVIOUS
  <1>1. CASE UNCHANGED storeVars
    BY <1>1 DEF storeVars, BuyInv, StoreTypeOK, KeyInv, Placed, OneId, Purchase, Buying, Spending, Spent, Found
  <1> QED
    BY <1>1, StartBuys, ReadBuys, ExecBuys, ConsumeBuys, DeleteBuys, DiesBuys, SecondBuys DEF StoreNext, CallStep

\* Codes, tokens, calls and the races between calls agree in every reachable state.
THEOREM BuyInvariance == StoreSpec => []BuyInv
  BY BuyInit, BuyNext, PTL DEF StoreSpec

\* Every variable of the token store stays in its domain.
THEOREM StoreTypeCorrect == StoreSpec => []StoreTypeOK
  <1>1. BuyInv => StoreTypeOK
    BY DEF BuyInv
  <1> QED
    BY <1>1, BuyInvariance, PTL

\* A code buys one token, unless two exchanges read it before either consumed it.
THEOREM CodesBuyOnce == StoreSpec => []CodeBuysOnce
  <1>1. BuyInv => CodeBuysOnce
    BY DEF BuyInv, Purchase, CodeBuysOnce
  <1> QED
    BY <1>1, BuyInvariance, PTL

LEMMA ListStart == StoreInit => ListInv
  <1> SUFFICES ASSUME StoreInit PROVE ListInv
    OBVIOUS
  <1>1. NoKeyThere.payload = FALSE /\ NoList.there = FALSE /\ NoList.expires = Endless
    BY DEF NoKeyThere, NoList, Endless
  <1>2. \A a \in Artifacts : ~Found(a)
    BY <1>1 DEF StoreInit, Found
  <1>3. \A o \in Calls : call[o].pc = "off"
    BY NoCallThere DEF StoreInit
  <1>4. \A g \in Grants : list[g] = NoList
    BY DEF StoreInit
  <1>5. \A o \in Calls : ReadWell(call[o])
    BY <1>3 DEF ReadWell
  <1>6. OnlyOne
    BY <1>3 DEF OnlyOne, Pending
  <1> QED
    BY <1>1, <1>2, <1>4, <1>5, <1>6 DEF ListInv, Kept

\* No list changes, nothing is saved and no call reads a list or its TTL.
LEMMA ListQuiet ==
    ASSUME ListInv, UNCHANGED <<second, list>>,
           \A a \in Artifacts :
             /\ Found(a)' => Found(a)
             /\ Found(a)' =>
                  key'[a].grant = key[a].grant /\ key'[a].expires = key[a].expires /\ key'[a].alone = key[a].alone,
           \A q \in Calls : call'[q] = call[q] \/ ~Pending(call'[q])
    PROVE  ListInv'
  <1>1. ASSUME NEW a \in Artifacts, Kept(a)'
        PROVE  Kept(a) /\ key'[a].grant = key[a].grant /\ key'[a].expires = key[a].expires
    BY <1>1 DEF Kept
  <1>2. \A a \in Artifacts : Found(a)' => key'[a].expires > second'
    BY DEF ListInv
  <1>3. ASSUME NEW a \in Artifacts, Kept(a)' PROVE Within(a)'
    BY <1>1, <1>3 DEF ListInv, Within
  <1>4. ASSUME NEW q \in Calls PROVE ReadWell(call[q])'
    <2> SUFFICES ASSUME NEW t, t = call'[q], Pending(t) PROVE ReadWell(t)'
      BY DEF ReadWell, Pending
    <2>1. t = call[q] /\ ReadWell(t)
      BY DEF ListInv
    <2> QED
      BY <1>1, <2>1 DEF ReadWell, Ttl, Life
  <1>5. OnlyOne'
    BY DEF ListInv, OnlyOne
  <1> QED
    BY <1>2, <1>3, <1>4, <1>5 DEF ListInv

LEMMA ListReads ==
    ASSUME BuyInv, ListInv, NEW o \in Calls, ReadTtl(o) \/ ReadList(o) PROVE ListInv'
  <1>1. PICK c \in Call, g \in Grants :
             /\ g = call[o].grant /\ Reads(o, c, g)
             /\ c.code = call[o].code /\ c.id = call[o].id /\ c.grant = g
             /\ \/ call[o].pc = "ttl" /\ c.pc = "exec" /\ c.ttl = Ttl(g)
                \/ call[o].pc = "range" /\ c.pc = "del" /\ c.keys = list[g].keys
             /\ UNCHANGED <<second, key, list, bought, raced>>
    BY ReadBy
  <1>2. StoreTypeOK
    BY DEF BuyInv
  <1>3. /\ call' \in [Calls -> Call]
        /\ \A q \in Calls :
             LET t == IF q = o THEN c ELSE call[q]
             IN  /\ call'[q].pc = t.pc /\ call'[q].code = t.code /\ call'[q].id = t.id
                 /\ call'[q].grant = t.grant /\ call'[q].ttl = t.ttl /\ call'[q].keys = t.keys
        /\ call'[o].mixed = (Between(g) \ {o} # {})
        /\ \A q \in Calls \ {o} : call'[q].mixed = IF q \in Between(g) THEN TRUE ELSE call[q].mixed
    <2>1. WentOn(o, c, g)
      BY <1>1, <1>2, ReadsCalls
    <2> QED
      BY <2>1 DEF WentOn
  <1>4. \A b \in Artifacts : Kept(b) /\ key[b].grant = g => Within(b)
    BY DEF ListInv
  <1>5. ReadWell(call[o])'
    <2> SUFFICES ASSUME NEW u, u = call'[o] PROVE ReadWell(u)'
      OBVIOUS
    <2>1. CASE c.pc = "exec"
      <3>1. u.pc = "exec" /\ u.grant = g /\ u.id = call[o].id /\ u.ttl = Ttl(g) /\ u.id \in Artifacts
        BY <1>1, <1>3, <2>1 DEF BuyInv, Placed
      <3>2. ASSUME NEW b \in Artifacts, Kept(b), key[b].grant = g, Life(u.id) > u.ttl
            PROVE  key[b].expires <= second + Life(u.id)
        <4>1. /\ Within(b) /\ Life(u.id) \in Nat /\ second \in Nat
              /\ key[b].expires \in Nat /\ list[g].expires \in Nat
          BY <1>2, <1>4, <3>2, StoreLimits DEF StoreTypeOK, Key, GrantList, Life
        <4> QED
          BY <3>1, <3>2, <4>1 DEF Within, Ttl
      <3> QED
        BY <1>1, <3>1, <3>2 DEF ReadWell, Kept, Found, Ttl, Life
    <2>2. CASE c.pc = "del"
      <3>1. u.pc = "del" /\ u.grant = g /\ u.keys = list[g].keys
        BY <1>1, <1>3, <2>2
      <3> QED
        BY <1>1, <1>4, <3>1 DEF ReadWell, Kept, Found, Within
    <2> QED
      BY <1>1, <2>1, <2>2
  <1>6. ASSUME NEW q \in Calls \ {o} PROVE ReadWell(call[q])'
    <2> SUFFICES ASSUME NEW t, t = call[q], NEW u, u = call'[q] PROVE ReadWell(u)'
      OBVIOUS
    <2>1. ReadWell(t) /\ t \in Call
      BY <1>2 DEF ListInv, StoreTypeOK
    <2>2. /\ u.pc = t.pc /\ u.grant = t.grant /\ u.id = t.id /\ u.ttl = t.ttl /\ u.keys = t.keys
          /\ ~u.mixed => ~t.mixed
      BY <1>3
    <2> QED
      BY <1>1, <2>1, <2>2 DEF ReadWell, Kept, Found, Ttl, Life
  <1>7. OnlyOne'
    <2> SUFFICES ASSUME NEW p \in Calls, NEW q \in Calls, Pending(call'[p]), Pending(call'[q]),
                        call'[p].grant = call'[q].grant, ~call'[p].mixed, p # q
                 PROVE  FALSE
      BY DEF OnlyOne
    <2>1. CASE p = o
      <3>1. q \in Between(g) \ {o}
        BY <1>1, <1>3, <2>1 DEF Between, Pending
      <3> QED
        BY <1>3, <2>1, <3>1
    <2>2. CASE q = o
      <3>1. p \in Between(g)
        BY <1>1, <1>3, <2>2 DEF Between, Pending
      <3> QED
        BY <1>3, <2>2, <3>1
    <2>3. CASE p # o /\ q # o
      <3>1. Pending(call[p]) /\ Pending(call[q]) /\ call[p].grant = call[q].grant /\ ~call[p].mixed
        BY <1>3, <2>3 DEF Pending
      <3> QED
        BY <3>1 DEF ListInv, OnlyOne
    <2> QED
      BY <2>1, <2>2, <2>3
  <1>8. \A q \in Calls : ReadWell(call[q])'
    BY <1>5, <1>6
  <1> QED
    BY <1>1, <1>7, <1>8 DEF ListInv, Kept, Found, Within

LEMMA ListExec ==
    ASSUME BuyInv, ListInv, NEW o \in Calls, Exec(o) PROVE ListInv'
  <1>1. PICK a \in Artifacts, g \in Grants :
             /\ a = call[o].id /\ g = call[o].grant /\ call[o].pc = "exec"
             /\ key[a].grant = NoGrant
             /\ key' \in [Artifacts -> Key] /\ \A b \in Artifacts \ {a} : key'[b] = key[b]
             /\ key'[a].there /\ key'[a].payload /\ key'[a].grant = g
             /\ key'[a].expires = second + Life(a) /\ key'[a].alone = ~call[o].mixed
             /\ list' \in [Grants -> GrantList] /\ \A h \in Grants \ {g} : list'[h] = list[h]
             /\ list'[g].there /\ list'[g].keys = list[g].keys \cup {a}
             /\ list'[g].expires = IF Life(a) > call[o].ttl THEN second + Life(a) ELSE list[g].expires
             /\ call' \in [Calls -> Call] /\ call'[o] = NoCall
             /\ \A q \in Calls \ {o} : call'[q] = call[q]
             /\ UNCHANGED second
             /\ Life(a) \in Nat \ {0} /\ second \in Nat
    BY Executed
  <1>2. PICK t : t = call[o]
    OBVIOUS
  <1>3. t \in Call /\ t.pc = "exec" /\ t.id = a /\ t.grant = g /\ ReadWell(t) /\ Pending(t)
    BY <1>1, <1>2 DEF ListInv, BuyInv, StoreTypeOK, Pending
  <1>4. list[g].expires \in Nat /\ t.ttl \in Int
    BY <1>3 DEF BuyInv, StoreTypeOK, GrantList, Call
  <1>5. \A b \in Artifacts \ {a} :
          key'[b] = key[b] /\ (Found(b)' <=> Found(b)) /\ (Kept(b)' <=> Kept(b))
    BY <1>1 DEF Found, Kept
  <1>6. \A q \in Calls \ {o} :
          call'[q] = call[q] /\ (Pending(call[q]) /\ call[q].grant = g => call[q].mixed /\ t.mixed)
    BY <1>1, <1>2, <1>3 DEF ListInv, OnlyOne
  <1>7. Kept(a)' => ~t.mixed
    BY <1>1, <1>2 DEF Kept
  <1>8. \A b \in Artifacts : Found(b)' => key'[b].expires > second'
    BY <1>1, <1>5 DEF ListInv
  <1>9. \A h \in Grants :
          IF list'[h].there THEN list'[h].expires # Endless => list'[h].expires > second'
                            ELSE list'[h].expires = Endless
    <2>1. ASSUME NEW h \in Grants \ {g}
          PROVE  IF list'[h].there THEN list'[h].expires # Endless => list'[h].expires > second'
                                   ELSE list'[h].expires = Endless
      BY <1>1 DEF ListInv
    <2>2. list'[g].expires # Endless => list'[g].expires > second'
      BY <1>1, <1>4 DEF ListInv
    <2> QED
      BY <1>1, <2>1, <2>2
  <1>10. ASSUME NEW b \in Artifacts, Kept(b)' PROVE Within(b)'
    <2>1. CASE b = a
      <3>1. t.ttl = Ttl(g)
        BY <1>3, <1>7, <1>10, <2>1 DEF ReadWell
      <3>2. CASE Life(a) > t.ttl
        BY <1>1, <1>2, <2>1, <3>2 DEF Within, Endless
      <3>3. CASE ~(Life(a) > t.ttl)
        <4>1. list[g].there /\ list[g].expires # Endless /\ list[g].expires >= second + Life(a)
          BY <1>1, <1>4, <3>1, <3>3 DEF Ttl
        <4> QED
          BY <1>1, <1>2, <2>1, <3>3, <4>1 DEF Within
      <3> QED
        BY <3>2, <3>3
    <2>2. CASE b # a
      <3>1. Kept(b) /\ Within(b) /\ key'[b] = key[b] /\ key[b].grant \in Grants
        BY <1>5, <1>10, <2>2 DEF ListInv, BuyInv, KeyInv, Kept, Found, StoreTypeOK, Key
      <3>2. CASE key[b].grant # g
        BY <1>1, <3>1, <3>2 DEF Within
      <3>3. CASE key[b].grant = g
        <4>1. Life(a) > t.ttl => key[b].expires <= second + Life(a)
          BY <1>3, <3>1, <3>3 DEF ReadWell
        <4>2. second + Life(a) # Endless
          BY <1>1 DEF Endless
        <4> QED
          BY <1>1, <1>2, <3>1, <3>3, <4>1, <4>2 DEF Within
      <3> QED
        BY <3>2, <3>3
    <2> QED
      BY <2>1, <2>2
  <1>11. ASSUME NEW q \in Calls PROVE ReadWell(call[q])'
    <2>1. CASE q = o
      BY <1>1, <2>1, NoCallThere DEF ReadWell
    <2>2. CASE q # o
      <3> SUFFICES ASSUME NEW u, u = call[q], Pending(u) PROVE ReadWell(u)'
        BY <1>6, <2>2 DEF ReadWell, Pending
      <3>1. ReadWell(u) /\ (u.grant = g => u.mixed /\ t.mixed) /\ u.grant \in Grants
        BY <1>6, <2>2 DEF ListInv, BuyInv, Placed, Pending
      <3>2. ASSUME NEW b \in Artifacts, Kept(b)', key'[b].grant = u.grant
            PROVE  Kept(b) /\ key'[b] = key[b]
        BY <1>1, <1>5, <1>7, <3>1, <3>2
      <3>3. u.grant # g => Ttl(u.grant)' = Ttl(u.grant)
        BY <1>1, <3>1 DEF Ttl
      <3> QED
        BY <1>1, <3>1, <3>2, <3>3 DEF ReadWell, Life
    <2> QED
      BY <2>1, <2>2
  <1>12. OnlyOne'
    BY <1>1, NoCallThere DEF ListInv, OnlyOne, Pending
  <1> QED
    BY <1>8, <1>9, <1>10, <1>11, <1>12 DEF ListInv

LEMMA ListDelete ==
    ASSUME BuyInv, ListInv, NEW o \in Calls, DeleteListed(o) PROVE ListInv'
  <1>1. PICK t, ks, g : t = call[o] /\ ks = t.keys /\ g = t.grant
    OBVIOUS
  <1>2. /\ t.pc = "del" /\ UNCHANGED second
        /\ key' = [a \in Artifacts |-> IF a \in ks THEN [NoKeyThere EXCEPT !.grant = key[a].grant]
                                       ELSE key[a]]
        /\ list' = [list EXCEPT ![g] = NoList]
        /\ call' = [call EXCEPT ![o] = NoCall]
    BY <1>1 DEF DeleteListed, Return
  <1>3. ReadWell(t) /\ Pending(t) /\ g \in Grants
    BY <1>1, <1>2 DEF ListInv, BuyInv, Placed, Pending
  <1>4. \A a \in Artifacts : ~[NoKeyThere EXCEPT !.grant = key[a].grant].there
    BY DEF NoKeyThere
  <1>5. ASSUME NEW a \in Artifacts, Found(a)' PROVE a \notin ks /\ key'[a] = key[a] /\ Found(a)
    BY <1>2, <1>4, <1>5 DEF Found
  <1>6. ASSUME NEW a \in Artifacts, Kept(a)'
        PROVE  Kept(a) /\ key'[a] = key[a] /\ key[a].grant # g /\ key[a].grant \in Grants
    <2>1. Kept(a) /\ key'[a] = key[a] /\ a \notin ks
      BY <1>5, <1>6 DEF Kept
    <2>2. key[a].grant # g
      BY <1>1, <1>2, <1>3, <2>1 DEF ReadWell
    <2>3. key[a].grant \in Grants
      BY <2>1 DEF BuyInv, KeyInv, Kept, Found, StoreTypeOK, Key
    <2> QED
      BY <2>1, <2>2, <2>3
  <1>7. list'[g] = NoList /\ \A h \in Grants \ {g} : list'[h] = list[h]
    BY <1>2, <1>3 DEF BuyInv, StoreTypeOK
  <1>8. call'[o] = NoCall /\ \A q \in Calls \ {o} : call'[q] = call[q]
    BY <1>2 DEF BuyInv, StoreTypeOK
  <1>9. \A a \in Artifacts : Found(a)' => key'[a].expires > second'
    BY <1>2, <1>5 DEF ListInv
  <1>10. NoList.there = FALSE /\ NoList.expires = Endless
    BY DEF NoList, Endless
  <1>11. \A h \in Grants :
           IF list'[h].there THEN list'[h].expires # Endless => list'[h].expires > second'
                             ELSE list'[h].expires = Endless
    BY <1>2, <1>7, <1>10 DEF ListInv
  <1>12. ASSUME NEW a \in Artifacts, Kept(a)' PROVE Within(a)'
    BY <1>6, <1>7, <1>12 DEF ListInv, Within
  <1>13. ASSUME NEW q \in Calls PROVE ReadWell(call[q])'
    <2>1. CASE q = o
      BY <1>8, <2>1, NoCallThere DEF ReadWell
    <2>2. CASE q # o
      <3> SUFFICES ASSUME NEW u, u = call[q], Pending(u) PROVE ReadWell(u)'
        BY <1>8, <2>2 DEF ReadWell, Pending
      <3>1. ReadWell(u) /\ (u.grant = g => u.mixed) /\ u.grant \in Grants
        BY <1>1, <1>3, <2>2 DEF ListInv, OnlyOne, BuyInv, Placed, Pending
      <3>2. u.grant # g => Ttl(u.grant)' = Ttl(u.grant)
        BY <1>2, <1>7, <3>1 DEF Ttl
      <3> QED
        BY <1>2, <1>6, <3>1, <3>2 DEF ReadWell, Life
    <2> QED
      BY <2>1, <2>2
  <1>14. OnlyOne'
    BY <1>8, NoCallThere DEF ListInv, OnlyOne, Pending
  <1> QED
    BY <1>9, <1>11, <1>12, <1>13, <1>14 DEF ListInv

LEMMA ListSecond ==
    ASSUME BuyInv, ListInv, SecondPasses PROVE ListInv'
  <1>1. StoreTypeOK
    BY DEF BuyInv
  <1>2. /\ second' = second + 1 /\ second \in Nat
        /\ \A a \in Artifacts :
             /\ key'[a].grant = key[a].grant
             /\ IF key[a].there /\ key[a].expires = second'
                  THEN ~key'[a].there /\ ~key'[a].payload ELSE key'[a] = key[a]
        /\ \A g \in Grants :
             IF list[g].there /\ list[g].expires = second' THEN list'[g] = NoList ELSE list'[g] = list[g]
        /\ \A o \in Calls :
             /\ call'[o].pc = call[o].pc /\ call'[o].id = call[o].id
             /\ call'[o].grant = call[o].grant /\ call'[o].ttl = call[o].ttl /\ call'[o].keys = call[o].keys
             /\ Pending(call[o]) => call'[o].mixed
    BY <1>1, SecondPassed DEF StoreTypeOK
  <1>3. ASSUME NEW a \in Artifacts, Found(a)'
        PROVE  Found(a) /\ key'[a] = key[a] /\ key[a].expires > second'
    <2>1. key'[a] = key[a] /\ Found(a) /\ key[a].expires # second'
      BY <1>2, <1>3 DEF Found
    <2>2. key[a].expires \in Nat /\ key[a].expires > second
      BY <1>1, <2>1 DEF StoreTypeOK, Key, ListInv
    <2> QED
      BY <1>2, <2>1, <2>2
  <1>4. NoList.there = FALSE /\ NoList.expires = Endless
    BY DEF NoList, Endless
  <1>5. ASSUME NEW g \in Grants
        PROVE  IF list'[g].there THEN list'[g].expires # Endless => list'[g].expires > second'
                                 ELSE list'[g].expires = Endless
    <2>1. list[g].expires \in Nat
      BY <1>1 DEF StoreTypeOK, GrantList
    <2> QED
      BY <1>2, <1>4, <2>1 DEF ListInv
  <1>6. ASSUME NEW a \in Artifacts, Kept(a)'
        PROVE  Kept(a) /\ key'[a] = key[a] /\ key[a].expires > second' /\ key[a].grant \in Grants
    BY <1>1, <1>3, <1>6 DEF Kept, Found, BuyInv, KeyInv, StoreTypeOK, Key
  <1>7. ASSUME NEW a \in Artifacts, Kept(a)' PROVE Within(a)'
    <2>1. /\ Within(a) /\ key'[a] = key[a] /\ key[a].expires > second' /\ key[a].grant \in Grants
          /\ key[a].expires \in Nat /\ list[key[a].grant].expires \in Nat
      BY <1>1, <1>6, <1>7 DEF ListInv, StoreTypeOK, Key, GrantList
    <2>2. list'[key[a].grant] = list[key[a].grant]
      BY <1>2, <2>1 DEF Within
    <2> QED
      BY <2>1, <2>2 DEF Within
  <1>8. ASSUME NEW q \in Calls PROVE ReadWell(call[q])'
    <2>1. PICK t, u : t = call[q] /\ u = call'[q]
      OBVIOUS
    <2>2. /\ u.pc = t.pc /\ u.id = t.id /\ u.grant = t.grant /\ u.ttl = t.ttl /\ u.keys = t.keys
          /\ (Pending(t) => u.mixed) /\ ReadWell(t)
          /\ t.pc = "exec" => t.id \in Artifacts
      BY <1>2, <2>1 DEF ListInv, BuyInv, Placed
    <2>3. Life(t.id) \in Nat
      BY StoreLimits DEF Life
    <2>4. ASSUME NEW b \in Artifacts, Kept(b)', key'[b].grant = t.grant, t.pc = "exec", Life(t.id) > t.ttl
          PROVE  key'[b].expires <= second' + Life(t.id)
      <3>1. Kept(b) /\ key'[b] = key[b] /\ key[b].expires \in Nat
        BY <1>1, <1>6, <2>4 DEF StoreTypeOK, Key
      <3>2. key[b].expires <= second + Life(t.id)
        BY <2>2, <2>4, <3>1 DEF ReadWell
      <3> QED
        BY <1>2, <2>3, <3>1, <3>2
    <2>5. t.pc = "del" => \A b \in Artifacts : Kept(b)' /\ key'[b].grant = t.grant => b \in t.keys
      BY <1>6, <2>2 DEF ReadWell
    <2> QED
      BY <2>1, <2>2, <2>4, <2>5 DEF ReadWell, Pending, Life
  <1>9. OnlyOne'
    BY <1>2 DEF OnlyOne, Pending
  <1> QED
    BY <1>3, <1>5, <1>7, <1>8, <1>9 DEF ListInv

LEMMA ListNext == BuyInv /\ ListInv /\ [StoreNext]_storeVars => ListInv'
  <1> SUFFICES ASSUME BuyInv, ListInv, [StoreNext]_storeVars PROVE ListInv'
    OBVIOUS
  <1>1. CASE UNCHANGED storeVars
    BY <1>1, ListQuiet DEF storeVars, Found
  <1>2. ASSUME NEW o \in Calls, NewCode(o) \/ Exchange(o) \/ RevokeByGrantId(o) PROVE ListInv'
    <2>1. StoreTypeOK
      BY DEF BuyInv
    <2>2. PICK t \in Call :
            /\ call' = [call EXCEPT ![o] = t] /\ t.pc \in {"ttl", "consume", "range"}
            /\ UNCHANGED <<second, key, list, bought>>
      BY <1>2, <2>1, Started
    <2>3. \A q \in Calls : call'[q] = call[q] \/ ~Pending(call'[q])
      BY <2>1, <2>2 DEF StoreTypeOK, Pending
    <2> QED
      BY <2>2, <2>3, ListQuiet DEF Found
  <1>3. ASSUME NEW o \in Calls, consume(o) PROVE ListInv'
    <2>1. PICK a \in Tokens, c \in Codes :
             /\ \A b \in Artifacts \ {c} : key'[b] = key[b]
             /\ key'[c].grant = key[c].grant /\ key'[c].payload = key[c].payload
             /\ key'[c].alone = key[c].alone
             /\ key[c].there => key'[c].expires = key[c].expires
             /\ \A q \in Calls \ {o} : call'[q] = call[q]
             /\ call'[o].pc = "ttl"
             /\ UNCHANGED <<second, list, bought, raced>>
      BY <1>3, Consumed
    <2>2. \A q \in Calls : call'[q] = call[q] \/ ~Pending(call'[q])
      BY <2>1 DEF Pending
    <2>3. ASSUME NEW b \in Artifacts, Found(b)'
          PROVE  Found(b) /\ key'[b].grant = key[b].grant /\ key'[b].expires = key[b].expires
                 /\ key'[b].alone = key[b].alone
      BY <2>1, <2>3 DEF Found, BuyInv, KeyInv
    <2> QED
      BY <2>1, <2>2, <2>3, ListQuiet
  <1>4. ASSUME NEW o \in Calls, CallDies(o) PROVE ListInv'
    <2>1. \A q \in Calls : call'[q] = call[q] \/ ~Pending(call'[q])
      BY <1>4, NoCallThere DEF CallDies, Return, BuyInv, StoreTypeOK, Pending
    <2> QED
      BY <1>4, <2>1, ListQuiet DEF CallDies, Found
  <1> QED
    BY <1>1, <1>2, <1>3, <1>4, ListReads, ListExec, ListDelete, ListSecond DEF StoreNext, CallStep

\* Whatever can be found is named by the list of its grant for as long as it lives, unless
\* another call on the grant, or a second, came between the TTL and the MULTI of its upsert.
THEOREM ListedWhileLive == StoreSpec => []LiveArtifactsAreListed
  <1>1. StoreSpec => []ListInv
    BY BuyInvariance, ListStart, ListNext, PTL DEF StoreSpec
  <1>2. ListInv => LiveArtifactsAreListed
    BY DEF ListInv, Kept, Within, LiveArtifactsAreListed
  <1> QED
    BY <1>1, <1>2, PTL

-----------------------------------------------------------------------------
(* SigningKeys: what is revoked.                                           *)

\* A key that was revoked is one that was made.
WellFormed(s) == \A k \in Kids : s[k].revoked => s[k].status # "NONE"

\* s has every revocation that was stored.
RevokedIn(s) == \A k \in revokedKids : s[k].revoked

Active(c) == command[c].pc # "off"
OneAtATime == \A c, d \in Commands : Active(c) /\ Active(d) => c = d

\* A command that names a key.
Named(t) == t.pc \in {"demote", "promote", "retire", "revoke", "schedule", "replace"} => t.kid \in Kids

RevokedInv ==
    /\ KeysTypeOK
    /\ WellFormed(store) /\ \A c \in Commands : WellFormed(command[c].view) /\ Named(command[c])
    /\ ~overlapped => OneAtATime
    /\ provider = "kms" \/ ~overlapped => RevokedIn(store) /\ service.published \cap service.revoked = {}
    /\ ~overlapped => \A c \in Commands : Active(c) => RevokedIn(Stored(c))

-----------------------------------------------------------------------------
(* SigningKeys: commands one after the other.                              *)

Sound(s) ==
    /\ \A j, k \in ActiveKeys(s) : j = k
    /\ \A k \in Kids : s[k].revoked => s[k].status = "RETIRED"

\* What command t, at work on s, found when it started is still so.
Ready(t, s) ==
    /\ t.pc = "create" /\ t.status = "ACTIVE" => ActiveKeys(s) = {}
    /\ t.pc = "demote" => t.demote = With(s, "ACTIVE")
    /\ t.pc \in {"demote", "promote"} => s[t.kid].status = "NEXT"
    /\ t.pc = "promote" => ActiveKeys(s) = {}
    /\ t.pc = "revoke" => s[t.kid].status = t.status /\ t.view = s
    /\ t.pc = "replace" => t.status = "ACTIVE"
    /\ t.pc \in {"schedule", "replace"} /\ t.status = "ACTIVE" =>
         /\ ActiveKeys(s) = {} /\ t.view[t.kid].status # "NEXT"
         /\ \A k \in Kids \ {t.kid} : s[k] = t.view[k]

SerialInv ==
    ~overlapped =>
      /\ Sound(store)
      /\ \A c \in Commands : Active(c) => Sound(Stored(c)) /\ Ready(command[c], Stored(c))

-----------------------------------------------------------------------------
(* SigningKeys: rotations with their waits.                                *)

InUse(s, k) == s[k].status \in {"ACTIVE", "RETIRING"}

\* A token of k may still be verified, or the service signs one.
Live(k) == Valid(k) \/ service.active = k

\* A key that signs, has signed or is about to.
Trusted(k) ==
    \/ InUse(store, k)
    \/ \E c \in Commands :
         /\ Active(c)
         /\ InUse(Stored(c), k) \/ (command[c].pc \in {"demote", "promote"} /\ command[c].kid = k)

\* The service and the relying party have it.
Loaded(k) ==
    /\ service.active # NoKid => k \in service.published
    /\ jwks.fetched # 0 => k \in jwks.kids

\* Command t, at work on s, neither revokes a key nor takes one away that is needed.
Careful(t, s) ==
    /\ t.pc \notin {"revoke", "schedule", "replace"}
    /\ \A k \in Kids : ~s[k].revoked
    /\ \A k \in Kids :
         Live(k) \/ store[k].status = "ACTIVE" => InUse(s, k) /\ (t.pc = "retire" => t.kid # k)
    /\ Known(store) \subseteq Known(s)
    /\ t.pc = "create" =>
         t.status = "NEXT" \/ (t.status = "ACTIVE" /\ Known(s) = {} /\ Known(store) = {})

\* What Restart publishes of the keys that are trusted.
StaysPublished(k) == store[k].status \in {"NEXT", "ACTIVE", "RETIRING"} \/ Known(store) = {}

\* A key the relying party does not have yet was first published after the copy was
\* fetched, and the copy is not old yet.
Fresh(k) ==
    jwks.fetched # 0 /\ k \notin jwks.kids => jwks.fetched <= since[k] /\ day <= since[k] + CacheTtl

Unnoticed ==
    /\ \A k \in Kids : ~store[k].revoked
    /\ \A c \in Commands : Active(c) => Careful(command[c], Stored(c))
    /\ \A k \in Kids : Live(k) => InUse(store, k)
    /\ \A k \in Kids : Trusted(k) => Loaded(k) /\ StaysPublished(k)
    /\ Known(store) = {} => jwks.fetched = 0
    /\ service.active = NoKid => service.published = {}
    /\ jwks.fetched <= day
    /\ \A k \in service.published : Fresh(k)

RotationInv == ~overlapped /\ ~hasty => Unnoticed

-----------------------------------------------------------------------------
(* Steps of the commands.                                                  *)

\* Command c goes on as t, and has set key k to x.
Sets(c, t, k, x) ==
    /\ command' \in [Commands -> Command] /\ store' \in KeyStore
    /\ \A d \in Commands \ {c} : command'[d] = command[d]
    /\ command'[c].pc = t.pc /\ command'[c].kid = t.kid /\ command'[c].demote = t.demote
    /\ command'[c].status = t.status
    /\ provider = "file" => store' = store /\ command'[c].view = [command[c].view EXCEPT ![k] = x]
    /\ provider = "kms" => store' = [store EXCEPT ![k] = x] /\ command'[c].view = command[c].view

LEMMA PutSets ==
    ASSUME KeysTypeOK, NEW c \in Commands, NEW k \in Kids, NEW x \in StoredSigningKey, NEW t \in Command,
           t.view = command[c].view, Put(c, k, x, t)
    PROVE  Sets(c, t, k, x)
  <1>1. CASE provider = "file"
    <2>1. PICK u : u = [t EXCEPT !.view[k] = x]
      OBVIOUS
    <2>2. t.view \in KeyStore
      BY DEF Command
    <2>3. PICK v : v = [t.view EXCEPT ![k] = x]
      OBVIOUS
    <2>4. v \in KeyStore
      BY <2>2, <2>3 DEF KeyStore
    <2>5. u = [t EXCEPT !.view = v]
      BY <2>1, <2>3 DEF Command
    <2>6. /\ u \in Command /\ u.pc = t.pc /\ u.kid = t.kid /\ u.demote = t.demote /\ u.status = t.status
          /\ u.view = v
      BY <2>4, <2>5 DEF Command
    <2>7. command' = [command EXCEPT ![c] = u] /\ store' = store
      BY <1>1, <2>1 DEF Put
    <2>8. /\ command' \in [Commands -> Command] /\ command'[c] = u
          /\ \A d \in Commands \ {c} : command'[d] = command[d]
      BY <2>6, <2>7 DEF KeysTypeOK
    <2> QED
      BY <1>1, <2>3, <2>6, <2>7, <2>8 DEF Sets, KeysTypeOK
  <1>2. CASE provider = "kms"
    <2>1. command' = [command EXCEPT ![c] = t] /\ store' = [store EXCEPT ![k] = x]
      BY <1>2 DEF Put
    <2>2. /\ command' \in [Commands -> Command] /\ command'[c] = t
          /\ \A d \in Commands \ {c} : command'[d] = command[d]
      BY <2>1 DEF KeysTypeOK
    <2>3. store' \in KeyStore
      BY <2>1 DEF KeysTypeOK, KeyStore
    <2> QED
      BY <1>2, <2>1, <2>2, <2>3 DEF Sets
  <1> QED
    BY <1>1, <1>2 DEF KeysTypeOK

EditStep(c) ==
    Create(c) \/ (Demote(c) /\ command[c].demote # {}) \/ Promote(c) \/ RetireKey(c) \/ RevokeKey(c)
      \/ (Replace(c) /\ {k \in With(command[c].view, "NEXT") : ~command[c].view[k].revoked} # {})

\* The key that each of the six steps sets, and what it sets it to, on the keys s.
EditOf(u, t, s, k, x) ==
    \/ /\ u.pc = "create" /\ t.pc = "save" /\ s[k].status = "NONE" /\ store[k].status = "NONE"
       /\ x.status = u.status /\ ~x.revoked
    \/ /\ u.pc = "demote" /\ t.pc = "demote" /\ k \in u.demote /\ t.demote = u.demote \ {k}
       /\ x.status = "RETIRING" /\ x.revoked = s[k].revoked
    \/ /\ u.pc = "promote" /\ t.pc = "save" /\ k = u.kid
       /\ x.status = "ACTIVE" /\ x.revoked = s[k].revoked
    \/ /\ u.pc = "retire" /\ t.pc = "save" /\ k = u.kid
       /\ x.status = "RETIRED" /\ x.revoked = s[k].revoked
    \/ /\ u.pc = "revoke" /\ k = u.kid /\ x.status = "RETIRED" /\ x.revoked
       /\ t.pc = IF provider = "kms" THEN "schedule" ELSE IF u.status = "ACTIVE" THEN "replace" ELSE "save"
    \/ /\ u.pc = "replace" /\ t.pc = "save" /\ u.view[k].status = "NEXT" /\ ~u.view[k].revoked
       /\ x.status = "ACTIVE" /\ x.revoked = s[k].revoked

LEMMA Edits ==
    ASSUME RevokedInv, NEW c \in Commands, EditStep(c)
    PROVE  \E t \in Command, k \in Kids, x \in StoredSigningKey :
             /\ Sets(c, t, k, x) /\ EditOf(command[c], t, Stored(c), k, x)
             /\ t.kid = command[c].kid /\ t.status = command[c].status /\ t.view = command[c].view
             /\ revokedKids' = IF provider = "kms" /\ command[c].pc = "revoke" THEN revokedKids \cup {k}
                                                                               ELSE revokedKids
             /\ scheduled' = scheduled /\ KeepRest
  <1>1. PICK u, s : u = command[c] /\ s = Stored(c)
    OBVIOUS
  <1>2. u \in Command /\ Named(u) /\ s \in KeyStore /\ KeysTypeOK
    BY <1>1 DEF RevokedInv, KeysTypeOK, Stored, Command
  <1>3. \A k \in Kids : s[k] \in StoredSigningKey
    BY <1>2 DEF KeyStore
  <1> DEFINE to(pc) == [u EXCEPT !.pc = pc]
             set(k, status) == [s[k] EXCEPT !.status = status]
  <1>4. ASSUME NEW pc \in CommandPcs
        PROVE  /\ to(pc) \in Command /\ to(pc).pc = pc /\ to(pc).kid = u.kid /\ to(pc).status = u.status
               /\ to(pc).view = u.view /\ to(pc).demote = u.demote
    BY <1>2 DEF Command
  <1>5. ASSUME NEW k \in Kids, NEW status \in Statuses
        PROVE  /\ set(k, status) \in StoredSigningKey /\ set(k, status).status = status
               /\ set(k, status).revoked = s[k].revoked
    BY <1>3 DEF StoredSigningKey
  <1>6. \A pc \in CommandPcs : Steps(c, pc) = to(pc)
    BY <1>1 DEF Steps
  <1> HIDE DEF to, set
  <1>7. CASE Create(c)
    <2>1. PICK k \in Kids \ Known(store) :
            /\ \A d \in Commands : command[d].view[k].status = "NONE"
            /\ Put(c, k, [NoKey EXCEPT !.status = u.status], Steps(c, "save"))
      BY <1>1, <1>7 DEF Create
    <2>2. PICK x, t : x = [NoKey EXCEPT !.status = u.status] /\ t = to("save")
      OBVIOUS
    <2>3. x \in StoredSigningKey /\ x.status = u.status /\ ~x.revoked
      BY <1>2, <2>2 DEF NoKey, StoredSigningKey, Command, Statuses
    <2>4. t \in Command /\ t.pc = "save" /\ t.kid = u.kid /\ t.status = u.status /\ t.view = u.view
      BY <1>4, <2>2 DEF CommandPcs
    <2>5. Put(c, k, x, t)
      BY <1>6, <2>1, <2>2 DEF CommandPcs
    <2>6. Sets(c, t, k, x)
      BY <1>1, <1>2, <2>3, <2>4, <2>5, PutSets
    <2>7. s[k].status = "NONE" /\ store[k].status = "NONE"
      BY <1>1, <2>1 DEF Known, Stored
    <2>8. u.pc = "create" /\ scheduled' = scheduled /\ revokedKids' = revokedKids /\ KeepRest
      BY <1>1, <1>7 DEF Create
    <2> QED
      BY <1>1, <2>3, <2>4, <2>6, <2>7, <2>8 DEF EditOf
  <1>8. CASE Demote(c) /\ command[c].demote # {}
    <2>1. PICK k \in u.demote : Put(c, k, [s[k] EXCEPT !.status = "RETIRING"], [u EXCEPT !.demote = @ \ {k}])
      BY <1>1, <1>8 DEF Demote
    <2>2. PICK t, x : t = [u EXCEPT !.demote = @ \ {k}] /\ x = set(k, "RETIRING")
      OBVIOUS
    <2>3. k \in Kids
      BY <1>2 DEF Command
    <2>4. x \in StoredSigningKey /\ x.status = "RETIRING" /\ x.revoked = s[k].revoked
      BY <1>5, <2>2, <2>3 DEF Statuses
    <2>5. /\ t \in Command /\ t.pc = u.pc /\ t.kid = u.kid /\ t.status = u.status /\ t.view = u.view
          /\ t.demote = u.demote \ {k}
      BY <1>2, <2>2 DEF Command
    <2>6. Sets(c, t, k, x)
      BY <1>1, <1>2, <2>1, <2>2, <2>3, <2>4, <2>5, PutSets DEF set
    <2>7. u.pc = "demote" /\ scheduled' = scheduled /\ revokedKids' = revokedKids /\ KeepRest
      BY <1>1, <1>8 DEF Demote
    <2> QED
      BY <1>1, <2>3, <2>4, <2>5, <2>6, <2>7 DEF EditOf
  <1>9. ASSUME NEW k \in Kids, NEW status \in Statuses, Put(c, k, [s[k] EXCEPT !.status = status], Steps(c, "save"))
        PROVE  \E t \in Command, x \in StoredSigningKey :
                 /\ Sets(c, t, k, x) /\ t.pc = "save" /\ t.kid = u.kid /\ t.status = u.status /\ t.view = u.view
                 /\ x.status = status /\ x.revoked = s[k].revoked
    <2>1. PICK t, x : t = to("save") /\ x = set(k, status)
      OBVIOUS
    <2>2. t \in Command /\ t.pc = "save" /\ t.kid = u.kid /\ t.status = u.status /\ t.view = u.view
      BY <1>4, <2>1 DEF CommandPcs
    <2>3. x \in StoredSigningKey /\ x.status = status /\ x.revoked = s[k].revoked
      BY <1>5, <2>1
    <2>4. Put(c, k, x, t)
      BY <1>6, <1>9, <2>1 DEF CommandPcs, set
    <2> QED
      BY <1>1, <1>2, <2>2, <2>3, <2>4, PutSets
  <1>10. CASE Promote(c)
    <2>1. /\ u.pc = "promote" /\ Put(c, u.kid, [s[u.kid] EXCEPT !.status = "ACTIVE"], Steps(c, "save"))
          /\ scheduled' = scheduled /\ revokedKids' = revokedKids /\ KeepRest
      BY <1>1, <1>10 DEF Promote
    <2>2. u.kid \in Kids /\ "ACTIVE" \in Statuses
      BY <1>2, <2>1 DEF Named, Statuses
    <2> QED
      BY <1>1, <1>9, <2>1, <2>2 DEF EditOf
  <1>11. CASE RetireKey(c)
    <2>1. /\ u.pc = "retire" /\ Put(c, u.kid, [s[u.kid] EXCEPT !.status = "RETIRED"], Steps(c, "save"))
          /\ scheduled' = scheduled /\ revokedKids' = revokedKids /\ KeepRest
      BY <1>1, <1>11 DEF RetireKey
    <2>2. u.kid \in Kids /\ "RETIRED" \in Statuses
      BY <1>2, <2>1 DEF Named, Statuses
    <2> QED
      BY <1>1, <1>9, <2>1, <2>2 DEF EditOf
  <1>12. CASE RevokeKey(c)
    <2>1. PICK pc : pc = IF provider = "kms" THEN "schedule" ELSE IF u.status = "ACTIVE" THEN "replace" ELSE "save"
      OBVIOUS
    <2>2. pc \in CommandPcs
      BY <2>1 DEF CommandPcs
    <2>3. PICK t, x, k : t = to(pc) /\ x = [status |-> "RETIRED", revoked |-> TRUE] /\ k = u.kid
      OBVIOUS
    <2>4. /\ u.pc = "revoke" /\ Put(c, k, x, t)
          /\ revokedKids' = IF provider = "kms" THEN revokedKids \cup {k} ELSE revokedKids
          /\ scheduled' = scheduled /\ KeepRest
      BY <1>1, <1>6, <1>12, <2>1, <2>2, <2>3 DEF RevokeKey
    <2>5. t \in Command /\ t.pc = pc /\ t.kid = u.kid /\ t.status = u.status /\ t.view = u.view
      BY <1>4, <2>2, <2>3
    <2>6. x \in StoredSigningKey /\ x.status = "RETIRED" /\ x.revoked /\ k \in Kids
      BY <1>2, <2>3, <2>4 DEF StoredSigningKey, Statuses, Named
    <2>7. Sets(c, t, k, x)
      BY <1>1, <1>2, <2>4, <2>5, <2>6, PutSets
    <2> QED
      BY <1>1, <2>1, <2>3, <2>4, <2>5, <2>6, <2>7 DEF EditOf
  <1>13. CASE Replace(c) /\ {k \in With(command[c].view, "NEXT") : ~command[c].view[k].revoked} # {}
    <2>1. /\ u.pc = "replace" /\ scheduled' = scheduled /\ revokedKids' = revokedKids /\ KeepRest
          /\ \E k \in {k \in With(u.view, "NEXT") : ~u.view[k].revoked} :
               Put(c, k, [s[k] EXCEPT !.status = "ACTIVE"], Steps(c, "save"))
      BY <1>1, <1>13 DEF Replace
    <2>2. PICK k \in {k \in With(u.view, "NEXT") : ~u.view[k].revoked} :
            Put(c, k, [s[k] EXCEPT !.status = "ACTIVE"], Steps(c, "save"))
      BY <2>1
    <2>3. k \in Kids /\ u.view[k].status = "NEXT" /\ ~u.view[k].revoked /\ "ACTIVE" \in Statuses
      BY DEF With, Statuses
    <2> QED
      BY <1>1, <1>9, <2>1, <2>2, <2>3 DEF EditOf
  <1> QED
    BY <1>7, <1>8, <1>10, <1>11, <1>12, <1>13 DEF EditStep

StartStep(c) == Generate(c) \/ Activate(c) \/ Retire(c) \/ Revoke(c)

\* What a command starts with.
StartOf(t) ==
    \/ /\ t.pc = "create" /\ t.status \in {"NEXT", "ACTIVE"}
       /\ t.status = "ACTIVE" => ActiveKeys(store) = {} /\ (~hasty' => Known(store) = {})
    \/ /\ t.pc = "demote" /\ t.kid \in With(store, "NEXT") /\ ~store[t.kid].revoked
       /\ t.demote = With(store, "ACTIVE")
       /\ ~hasty' => t.kid \in service.published /\ day > since[t.kid] + CacheTtl
    \/ /\ t.pc = "retire" /\ t.kid \in With(store, "RETIRING")
       /\ ~hasty' => ~Live(t.kid)
    \/ /\ t.pc = "revoke" /\ t.kid \in Kids /\ t.status = store[t.kid].status /\ t.view = store /\ hasty'

LEMMA NoCommandThere ==
    /\ NoCommand \in Command /\ NoCommand.pc = "off" /\ NoCommand.view \in KeyStore
    /\ \A k \in Kids : ~NoCommand.view[k].revoked
  <1>1. NoKey \in StoredSigningKey /\ ~NoKey.revoked
    BY DEF NoKey, StoredSigningKey, Statuses
  <1>2. PICK v : v = [k \in Kids |-> NoKey]
    OBVIOUS
  <1>3. v \in KeyStore /\ \A k \in Kids : ~v[k].revoked
    BY <1>1, <1>2 DEF KeyStore
  <1>4. NoCommand = [pc |-> "off", kid |-> NoKid, view |-> v, demote |-> {}, status |-> "NONE"]
    BY <1>2 DEF NoCommand
  <1> QED
    BY <1>3, <1>4 DEF Command, CommandPcs, Statuses

LEMMA StartsAs ==
    ASSUME KeysTypeOK, NEW c \in Commands, StartStep(c)
    PROVE  \E t \in Command :
             /\ command[c].pc = "off" /\ command' = [command EXCEPT ![c] = t]
             /\ StartOf(t) /\ (provider = "file" => t.view = store)
             /\ t.view = store \/ \A k \in Kids : ~t.view[k].revoked
             /\ overlapped' = (overlapped \/ ~Idle) /\ hasty' \in BOOLEAN /\ (hasty => hasty')
             /\ UNCHANGED <<provider, day, store, scheduled, service, jwks, issued, since, revokedKids>>
  <1>1. PICK n : /\ n = NoCommand /\ n \in Command /\ n.view \in KeyStore
                 /\ \A k \in Kids : ~n.view[k].revoked
    BY NoCommandThere
  <1>2. store \in KeyStore /\ \A k \in Kids : store[k].status \in Statuses
    BY DEF KeysTypeOK, KeyStore, StoredSigningKey
  <1>3. ASSUME NEW next \in Command, next.view = n.view, Starts(c, next)
        PROVE  \E t \in Command :
                 /\ t.pc = next.pc /\ t.kid = next.kid /\ t.demote = next.demote /\ t.status = next.status
                 /\ command[c].pc = "off" /\ command' = [command EXCEPT ![c] = t]
                 /\ provider = "file" \/ t.pc = "revoke" => t.view = store
                 /\ t.view = store \/ \A k \in Kids : ~t.view[k].revoked
                 /\ overlapped' = (overlapped \/ ~Idle)
                 /\ UNCHANGED <<provider, day, store, scheduled, service, jwks, issued, since, revokedKids>>
    <2>1. PICK t : t = IF provider = "file" \/ next.pc = "revoke" THEN [next EXCEPT !.view = store] ELSE next
      OBVIOUS
    <2>2. CASE provider = "file" \/ next.pc = "revoke"
      <3>1. /\ t \in Command /\ t.pc = next.pc /\ t.kid = next.kid /\ t.demote = next.demote
            /\ t.status = next.status /\ t.view = store
        BY <1>2, <2>1, <2>2 DEF Command
      <3> QED
        BY <1>3, <2>1, <3>1 DEF Starts
    <2>3. CASE ~(provider = "file" \/ next.pc = "revoke")
      BY <1>1, <1>3, <2>1, <2>3 DEF Starts
    <2> QED
      BY <2>2, <2>3
  <1>4. CASE Generate(c)
    <2>1. PICK first : first = \A k \in With(store, "ACTIVE") : store[k].revoked
      OBVIOUS
    <2>2. PICK next : next = [n EXCEPT !.pc = "create", !.status = IF first THEN "ACTIVE" ELSE "NEXT"]
      OBVIOUS
    <2>3. Starts(c, next) /\ hasty' = (hasty \/ (first /\ Known(store) # {}))
      BY <1>1, <1>4, <2>1, <2>2 DEF Generate
    <2>4. /\ next \in Command /\ next.pc = "create" /\ next.view = n.view
          /\ next.status = IF first THEN "ACTIVE" ELSE "NEXT"
      BY <1>1, <2>2 DEF Command, CommandPcs, Statuses
    <2>5. next.status = "ACTIVE" => ActiveKeys(store) = {} /\ (~hasty' => Known(store) = {})
      BY <2>1, <2>3, <2>4 DEF ActiveKeys, Usable, With
    <2>6. hasty' \in BOOLEAN /\ (hasty => hasty')
      BY <2>3 DEF KeysTypeOK
    <2> QED
      BY <1>3, <2>3, <2>4, <2>5, <2>6 DEF StartOf
  <1>5. CASE Activate(c)
    <2>1. PICK k \in With(store, "NEXT") :
            /\ ~store[k].revoked
            /\ Starts(c, [NoCommand EXCEPT !.pc = "demote", !.kid = k, !.demote = With(store, "ACTIVE")])
            /\ hasty' = (hasty \/ k \notin service.published \/ day <= since[k] + CacheTtl)
      BY <1>5 DEF Activate
    <2>2. PICK next, w : w = With(store, "ACTIVE") /\ next = [n EXCEPT !.pc = "demote", !.kid = k, !.demote = w]
      OBVIOUS
    <2>3. k \in Kids /\ w \in SUBSET Kids
      BY <2>2 DEF With
    <2>4. /\ next \in Command /\ next.pc = "demote" /\ next.view = n.view /\ next.kid = k /\ next.demote = w
      BY <1>1, <2>2, <2>3 DEF Command, CommandPcs
    <2>5. Starts(c, next)
      BY <1>1, <2>1, <2>2
    <2>6. ~hasty' => k \in service.published /\ ~(day <= since[k] + CacheTtl)
      BY <2>1, Zenon
    <2>7. day \in Nat /\ since[k] \in Nat /\ CacheTtl \in Nat
      BY <2>3, KeyLimits DEF KeysTypeOK
    <2>8. ~hasty' => k \in service.published /\ day > since[k] + CacheTtl
      BY <2>6, <2>7
    <2>9. hasty' \in BOOLEAN /\ (hasty => hasty')
      BY <2>1
    <2>10. ASSUME NEW t, t.pc = "demote", t.kid = k, t.demote = w PROVE StartOf(t)
      BY <2>1, <2>2, <2>8, <2>10 DEF StartOf
    <2> HIDE <2>1, <2>2
    <2> QED
      BY <1>3, <2>4, <2>5, <2>9, <2>10
  <1>6. CASE Retire(c)
    <2>1. PICK k \in With(store, "RETIRING") :
            /\ Starts(c, [NoCommand EXCEPT !.pc = "retire", !.kid = k])
            /\ hasty' = (hasty \/ service.active = k \/ Valid(k))
      BY <1>6 DEF Retire
    <2>2. PICK next : next = [n EXCEPT !.pc = "retire", !.kid = k]
      OBVIOUS
    <2>3. k \in Kids
      BY DEF With
    <2>4. next \in Command /\ next.pc = "retire" /\ next.view = n.view /\ next.kid = k
      BY <1>1, <2>2, <2>3 DEF Command, CommandPcs
    <2>5. Starts(c, next)
      BY <1>1, <2>1, <2>2
    <2>6. (~hasty' => ~Live(k)) /\ hasty' \in BOOLEAN /\ (hasty => hasty')
      BY <2>1 DEF Live
    <2> QED
      BY <1>3, <2>1, <2>4, <2>5, <2>6 DEF StartOf
  <1>7. CASE Revoke(c)
    <2>1. PICK k \in Known(store) :
            /\ Starts(c, [NoCommand EXCEPT !.pc = "revoke", !.kid = k, !.status = store[k].status])
            /\ hasty' = TRUE
      BY <1>7 DEF Revoke
    <2>2. PICK next, st : st = store[k].status /\ next = [n EXCEPT !.pc = "revoke", !.kid = k, !.status = st]
      OBVIOUS
    <2>3. k \in Kids /\ st \in Statuses
      BY <1>2, <2>2 DEF Known
    <2>4. next \in Command /\ next.pc = "revoke" /\ next.view = n.view /\ next.kid = k /\ next.status = st
      BY <1>1, <2>2, <2>3 DEF Command, CommandPcs
    <2>5. Starts(c, next) /\ hasty' = TRUE
      BY <1>1, <2>1, <2>2
    <2>6. ASSUME NEW t, t.pc = "revoke", t.kid = k, t.status = st, t.view = store PROVE StartOf(t)
      BY <2>2, <2>3, <2>5, <2>6 DEF StartOf
    <2>7. PICK t \in Command :
            /\ t.pc = "revoke" /\ t.kid = k /\ t.status = st /\ t.view = store
            /\ command[c].pc = "off" /\ command' = [command EXCEPT ![c] = t]
            /\ overlapped' = (overlapped \/ ~Idle)
            /\ UNCHANGED <<provider, day, store, scheduled, service, jwks, issued, since, revokedKids>>
      BY <1>3, <2>4, <2>5
    <2> QED
      BY <2>5, <2>6, <2>7
  <1> QED
    BY <1>4, <1>5, <1>6, <1>7 DEF StartStep

MoveStep(c) ==
    \/ Demote(c) /\ command[c].demote = {}
    \/ ScheduleKeyDeletion(c)
    \/ Replace(c) /\ {k \in With(command[c].view, "NEXT") : ~command[c].view[k].revoked} = {}

LEMMA Moves ==
    ASSUME RevokedInv, NEW c \in Commands, MoveStep(c)
    PROVE  \E t \in Command :
             LET u == command[c]
             IN  /\ command' = [command EXCEPT ![c] = t]
                 /\ t.kid = u.kid /\ t.view = u.view /\ t.demote = u.demote
                 /\ \/ u.pc = "demote" /\ t.pc = "promote" /\ u.demote = {} /\ t.status = u.status
                    \/ /\ u.pc = "schedule" /\ t.pc = IF u.status = "ACTIVE" THEN "replace" ELSE "save"
                       /\ t.status = u.status
                    \/ u.pc = "replace" /\ t.pc = "create" /\ t.status = "ACTIVE"
                 /\ scheduled' \subseteq Kids /\ UNCHANGED <<store, revokedKids>> /\ KeepRest
  <1>1. PICK u : u = command[c]
    OBVIOUS
  <1>2. u \in Command /\ Named(u) /\ KeysTypeOK
    BY <1>1 DEF RevokedInv, KeysTypeOK
  <1>3. CASE Demote(c) /\ command[c].demote = {}
    <2>1. PICK t : t = [u EXCEPT !.pc = "promote"]
      OBVIOUS
    <2>2. /\ t \in Command /\ t.pc = "promote" /\ t.kid = u.kid /\ t.view = u.view /\ t.demote = u.demote
          /\ t.status = u.status
      BY <1>2, <2>1 DEF Command, CommandPcs
    <2>3. /\ command' = [command EXCEPT ![c] = t] /\ u.pc = "demote"
          /\ UNCHANGED <<store, scheduled, revokedKids>> /\ KeepRest
      BY <1>1, <1>3, <2>1 DEF Demote
    <2> QED
      BY <1>1, <1>2, <1>3, <2>2, <2>3 DEF KeysTypeOK
  <1>4. CASE ScheduleKeyDeletion(c)
    <2>1. PICK pc, t : pc = (IF u.status = "ACTIVE" THEN "replace" ELSE "save") /\ t = [u EXCEPT !.pc = pc]
      OBVIOUS
    <2>2. /\ t \in Command /\ t.pc = pc /\ t.kid = u.kid /\ t.view = u.view /\ t.demote = u.demote
          /\ t.status = u.status
      BY <1>2, <2>1 DEF Command, CommandPcs
    <2>3. /\ command' = [command EXCEPT ![c] = t] /\ u.pc = "schedule"
          /\ scheduled' = scheduled \cup {u.kid} /\ UNCHANGED <<store, revokedKids>> /\ KeepRest
      BY <1>1, <1>4, <2>1 DEF ScheduleKeyDeletion
    <2>4. scheduled' \subseteq Kids
      BY <1>2, <2>3 DEF Named, KeysTypeOK
    <2> QED
      BY <1>1, <2>1, <2>2, <2>3, <2>4
  <1>5. CASE Replace(c) /\ {k \in With(command[c].view, "NEXT") : ~command[c].view[k].revoked} = {}
    <2>1. PICK t : t = [u EXCEPT !.pc = "create", !.status = "ACTIVE"]
      OBVIOUS
    <2>2. /\ t \in Command /\ t.pc = "create" /\ t.kid = u.kid /\ t.view = u.view /\ t.demote = u.demote
          /\ t.status = "ACTIVE"
      BY <1>2, <2>1 DEF Command, CommandPcs, Statuses
    <2>3. /\ command' = [command EXCEPT ![c] = t] /\ u.pc = "replace"
          /\ UNCHANGED <<store, scheduled, revokedKids>> /\ KeepRest
      BY <1>1, <1>5, <2>1 DEF Replace
    <2> QED
      BY <1>1, <1>2, <2>2, <2>3 DEF KeysTypeOK
  <1> QED
    BY <1>3, <1>4, <1>5 DEF MoveStep

ServiceStep == Restart \/ Sign \/ FetchJwks \/ DayPasses

LEMMA KeysSteps ==
    ASSUME KeysNext
    PROVE  \/ ServiceStep
           \/ \E c \in Commands : StartStep(c) \/ EditStep(c) \/ MoveStep(c) \/ Save(c) \/ CommandDies(c)
  BY DEF KeysNext, CommandStep, ServiceStep, StartStep, EditStep, MoveStep

\* Command c, and only c, goes on as t, and no key changes.
LEMMA Becomes ==
    ASSUME KeysTypeOK, NEW c \in Commands, NEW t \in Command, command' = [command EXCEPT ![c] = t]
    PROVE  /\ command' \in [Commands -> Command] /\ command'[c] = t
           /\ \A d \in Commands \ {c} : command'[d] = command[d]
  BY DEF KeysTypeOK

LEMMA NextOneAtATime ==
    ASSUME NEW c \in Commands, OneAtATime, \A d \in Commands \ {c} : command'[d] = command[d],
           Active(c) \/ Idle
    PROVE  OneAtATime'
  BY DEF OneAtATime, Active, Idle

LEMMA RevokedInit == KeysInit => RevokedInv
  <1> SUFFICES ASSUME KeysInit PROVE RevokedInv
    OBVIOUS
  <1>1. NoKey \in StoredSigningKey /\ ~NoKey.revoked
    BY DEF NoKey, StoredSigningKey, Statuses
  <1>2. Down \in Service /\ Down.published = {}
    BY DEF Down, Service
  <1>3. [kids |-> {}, fetched |-> 0] \in [kids : SUBSET Kids, fetched : Nat]
    OBVIOUS
  <1>4. KeysTypeOK
    BY <1>1, <1>2, <1>3, NoCommandThere DEF KeysInit, KeysTypeOK, KeyStore
  <1>5. \A c \in Commands : command[c] = NoCommand
    BY DEF KeysInit
  <1>6. WellFormed(store) /\ \A c \in Commands : WellFormed(command[c].view) /\ Named(command[c])
    BY <1>1, <1>5, NoCommandThere DEF KeysInit, WellFormed, Named
  <1> QED
    BY <1>2, <1>4, <1>5, <1>6, NoCommandThere DEF KeysInit, RevokedInv, OneAtATime, Active, RevokedIn

LEMMA RevokedStart ==
    ASSUME RevokedInv, NEW c \in Commands, StartStep(c) PROVE RevokedInv'
  <1>1. KeysTypeOK
    BY DEF RevokedInv
  <1>2. PICK t \in Command :
             /\ command[c].pc = "off" /\ command' = [command EXCEPT ![c] = t]
             /\ StartOf(t) /\ (provider = "file" => t.view = store)
             /\ t.view = store \/ \A k \in Kids : ~t.view[k].revoked
             /\ overlapped' = (overlapped \/ ~Idle) /\ hasty' \in BOOLEAN
             /\ UNCHANGED <<provider, day, store, scheduled, service, jwks, issued, since, revokedKids>>
    BY <1>1, StartsAs
  <1>3. /\ command' \in [Commands -> Command] /\ command'[c] = t
        /\ \A d \in Commands \ {c} : command'[d] = command[d]
    BY <1>1, <1>2, Becomes
  <1>4. WellFormed(t.view) /\ Named(t)
    BY <1>2 DEF RevokedInv, WellFormed, StartOf, Named, With
  <1>5. overlapped' \in BOOLEAN /\ (~overlapped' => ~overlapped /\ Idle)
    BY <1>1, <1>2 DEF KeysTypeOK
  <1>6. KeysTypeOK'
    BY <1>1, <1>2, <1>3, <1>5 DEF KeysTypeOK
  <1>7. ASSUME ~overlapped' PROVE OneAtATime' /\ \A d \in Commands : Active(d)' => RevokedIn(Stored(d))'
    <2>1. OneAtATime'
      BY <1>3, <1>5, <1>7, NextOneAtATime DEF RevokedInv
    <2>2. Stored(c)' = store
      BY <1>1, <1>2, <1>3 DEF Stored, KeysTypeOK
    <2>3. RevokedIn(store)
      BY <1>5, <1>7 DEF RevokedInv
    <2>4. \A d \in Commands : Active(d)' => d = c
      BY <1>3, <1>5, <1>7 DEF Active, Idle
    <2> QED
      BY <1>2, <2>1, <2>2, <2>3, <2>4 DEF RevokedIn
  <1>8. /\ WellFormed(store)'
        /\ provider' = "kms" \/ ~overlapped' => RevokedIn(store)' /\ service'.published \cap service'.revoked = {}
    BY <1>2, <1>5 DEF RevokedInv, WellFormed, RevokedIn
  <1>9. \A d \in Commands : WellFormed(command[d].view)' /\ Named(command[d])'
    BY <1>3, <1>4 DEF RevokedInv, WellFormed, Named
  <1> QED
    BY <1>6, <1>7, <1>8, <1>9 DEF RevokedInv

LEMMA RevokedEdit ==
    ASSUME RevokedInv, NEW c \in Commands, EditStep(c) PROVE RevokedInv'
  <1>1. PICK t \in Command, k \in Kids, x \in StoredSigningKey :
             /\ Sets(c, t, k, x) /\ EditOf(command[c], t, Stored(c), k, x)
             /\ t.kid = command[c].kid /\ t.status = command[c].status /\ t.view = command[c].view
             /\ revokedKids' = IF provider = "kms" /\ command[c].pc = "revoke" THEN revokedKids \cup {k}
                                                                               ELSE revokedKids
             /\ scheduled' = scheduled /\ KeepRest
    BY Edits
  <1>2. PICK u, s : u = command[c] /\ s = Stored(c)
    OBVIOUS
  <1>3. KeysTypeOK /\ u \in Command /\ Named(u) /\ s \in KeyStore /\ WellFormed(s)
    BY <1>2 DEF RevokedInv, KeysTypeOK, Stored, Command
  <1>4. Active(c) /\ Named(t)
    BY <1>1, <1>2, <1>3 DEF EditOf, Active, Named
  <1>5. /\ x.revoked => x.status # "NONE"
        /\ s[k].revoked => x.revoked
        /\ u.pc = "revoke" => x.revoked
    BY <1>1, <1>2, <1>3 DEF EditOf, WellFormed
  <1>6. PICK s1 : s1 = [s EXCEPT ![k] = x]
    OBVIOUS
  <1>7. s1 \in KeyStore /\ s1[k] = x /\ \A j \in Kids \ {k} : s1[j] = s[j]
    BY <1>3, <1>6 DEF KeyStore
  <1>8. WellFormed(s1)
    BY <1>3, <1>5, <1>7 DEF WellFormed
  <1>9. /\ Stored(c)' = s1
        /\ provider = "file" => store' = store /\ command'[c].view = s1
        /\ provider = "kms" => store' = s1 /\ command'[c].view = u.view /\ s = store
    BY <1>1, <1>2, <1>3, <1>6 DEF Sets, Stored, KeepRest, KeysTypeOK
  <1>10. KeysTypeOK'
    BY <1>1, <1>3 DEF Sets, KeepRest, KeysTypeOK
  <1>11. /\ \A d \in Commands \ {c} : command'[d] = command[d]
         /\ command'[c].pc = t.pc /\ command'[c].kid = t.kid
    BY <1>1 DEF Sets
  <1>12. provider \in {"file", "kms"} /\ UNCHANGED <<provider, service, overlapped>>
    BY <1>1, <1>3 DEF KeysTypeOK, KeepRest
  <1>13. WellFormed(store)' /\ \A d \in Commands : WellFormed(command[d].view)' /\ Named(command[d])'
    BY <1>2, <1>4, <1>8, <1>9, <1>11, <1>12 DEF RevokedInv, WellFormed, Named
  <1>14. RevokedIn(s) => RevokedIn(s1)'
    BY <1>1, <1>2, <1>3, <1>5, <1>7 DEF RevokedIn, KeysTypeOK
  <1>15. ~overlapped' => OneAtATime' /\ \A d \in Commands : Active(d)' => RevokedIn(Stored(d))'
    <2> SUFFICES ASSUME ~overlapped
                 PROVE  OneAtATime' /\ \A d \in Commands : Active(d)' => RevokedIn(Stored(d))'
      BY <1>12
    <2>1. OneAtATime /\ RevokedIn(s)
      BY <1>2, <1>4 DEF RevokedInv
    <2>2. OneAtATime'
      BY <1>4, <1>11, <2>1, NextOneAtATime
    <2>3. \A d \in Commands : Active(d)' => d = c
      BY <1>4, <1>11, <2>1 DEF Active, OneAtATime
    <2>4. RevokedIn(Stored(c))'
      BY <1>9, <1>14, <2>1 DEF RevokedIn
    <2> QED
      BY <2>2, <2>3, <2>4
  <1>16. ASSUME provider' = "kms" \/ ~overlapped'
         PROVE  RevokedIn(store)' /\ service'.published \cap service'.revoked = {}
    <2>1. RevokedIn(store) /\ service.published \cap service.revoked = {}
      BY <1>12, <1>16 DEF RevokedInv
    <2>2. CASE provider = "file"
      BY <1>1, <1>9, <1>12, <2>1, <2>2 DEF RevokedIn
    <2>3. CASE provider = "kms"
      BY <1>9, <1>12, <1>14, <2>1, <2>3 DEF RevokedIn
    <2> QED
      BY <1>12, <2>1, <2>2, <2>3
  <1> QED
    BY <1>10, <1>13, <1>15, <1>16 DEF RevokedInv

\* A command moves on or ends; the keys stay.
LEMMA RevokedMoves ==
    ASSUME RevokedInv, NEW c \in Commands, NEW t \in Command, command' = [command EXCEPT ![c] = t],
           Active(c), t.pc = "off" \/ t.view = command[c].view, WellFormed(t.view), Named(t),
           scheduled' \subseteq Kids, UNCHANGED <<store, revokedKids>>, KeepRest
    PROVE  RevokedInv'
  <1>1. KeysTypeOK
    BY DEF RevokedInv
  <1>2. /\ command' \in [Commands -> Command] /\ command'[c] = t
        /\ \A d \in Commands \ {c} : command'[d] = command[d]
    BY <1>1, Becomes
  <1>3. KeysTypeOK'
    BY <1>1, <1>2 DEF KeysTypeOK, KeepRest
  <1>4. WellFormed(store)' /\ \A d \in Commands : WellFormed(command[d].view)' /\ Named(command[d])'
    BY <1>2 DEF RevokedInv, WellFormed, Named
  <1>5. UNCHANGED <<provider, service, overlapped>>
    BY DEF KeepRest
  <1>6. ~overlapped => OneAtATime'
    BY <1>2, NextOneAtATime DEF RevokedInv
  <1>7. ASSUME ~overlapped, NEW d \in Commands, Active(d)' PROVE RevokedIn(Stored(d))'
    <2>1. Active(d) /\ Stored(d)' = Stored(d)
      BY <1>2, <1>5, <1>7 DEF Active, Stored
    <2> QED
      BY <1>7, <2>1 DEF RevokedInv, RevokedIn
  <1>8. RevokedIn(store)' = RevokedIn(store)
    BY DEF RevokedIn
  <1> QED
    BY <1>3, <1>4, <1>5, <1>6, <1>7, <1>8 DEF RevokedInv

LEMMA RevokedSave ==
    ASSUME RevokedInv, NEW c \in Commands, Save(c) PROVE RevokedInv'
  <1>1. KeysTypeOK /\ Stored(c) \in KeyStore /\ WellFormed(Stored(c))
    BY DEF RevokedInv, KeysTypeOK, Stored, Command
  <1>2. /\ command[c].pc = "save" /\ store' = Stored(c)
        /\ revokedKids' = revokedKids \cup {k \in Kids : Stored(c)[k].revoked}
        /\ command' = [command EXCEPT ![c] = NoCommand]
        /\ scheduled' = scheduled /\ UNCHANGED <<provider, day, service, jwks, issued, since, overlapped, hasty>>
    BY DEF Save, Exit, KeepRest
  <1>3. /\ command' \in [Commands -> Command] /\ command'[c] = NoCommand
        /\ \A d \in Commands \ {c} : command'[d] = command[d]
    BY <1>1, <1>2, NoCommandThere, Becomes
  <1>4. KeysTypeOK'
    BY <1>1, <1>2, <1>3 DEF KeysTypeOK
  <1>5. WellFormed(store)' /\ \A d \in Commands : WellFormed(command[d].view)' /\ Named(command[d])'
    BY <1>1, <1>2, <1>3, NoCommandThere DEF RevokedInv, WellFormed, Named
  <1>6. ~overlapped => OneAtATime' /\ \A d \in Commands : ~Active(d)'
    BY <1>2, <1>3, NoCommandThere DEF RevokedInv, OneAtATime, Active
  <1>7. provider = "kms" \/ ~overlapped => RevokedIn(Stored(c))
    BY <1>1, <1>2 DEF RevokedInv, Active, Stored, KeysTypeOK
  <1>8. RevokedIn(Stored(c)) => RevokedIn(store)'
    BY <1>2 DEF RevokedIn
  <1> QED
    BY <1>2, <1>4, <1>5, <1>6, <1>7, <1>8 DEF RevokedInv

LEMMA RevokedService ==
    ASSUME RevokedInv, ServiceStep PROVE RevokedInv'
  <1>1. KeysTypeOK
    BY DEF RevokedInv
  <1>2. UNCHANGED <<provider, store, scheduled, command, revokedKids, overlapped, hasty>>
    BY DEF ServiceStep, Restart, Sign, FetchJwks, DayPasses
  <1>3. ASSUME KeysTypeOK', provider = "kms" \/ ~overlapped => service'.published \cap service'.revoked = {}
        PROVE  RevokedInv'
    BY <1>2, <1>3 DEF RevokedInv, WellFormed, Named, OneAtATime, Active, RevokedIn, Stored
  <1>4. CASE Restart
    <2>1. Down \in Service /\ Down.published = {}
      BY DEF Down, Service
    <2>2. Usable(store) \in SUBSET Kids
      BY DEF Usable
    <2>3. CASE \E k \in Kids : ActiveKeys(store) = {k} /\ Signs(k)
      <3>1. PICK a, b, r : a = (CHOOSE k \in Kids : ActiveKeys(store) = {k}) /\ b = Usable(store) /\ r = revokedKids
        OBVIOUS
      <3>2. a \in Kids
        BY <2>3, <3>1
      <3>3. service' = [active |-> a, published |-> b, revoked |-> r]
        BY <1>4, <2>3, <3>1 DEF Restart
      <3>4. service' \in Service /\ service'.published = b /\ service'.revoked = r
        BY <1>1, <2>2, <3>1, <3>2, <3>3 DEF Service, KeysTypeOK
      <3>5. RevokedIn(store) => b \cap r = {}
        BY <3>1 DEF RevokedIn, Usable
      <3>6. since' \in [Kids -> Nat]
        BY <1>1, <1>4 DEF Restart, KeysTypeOK
      <3>7. KeysTypeOK'
        BY <1>1, <1>2, <1>4, <3>4, <3>6 DEF Restart, KeysTypeOK
      <3> QED
        BY <1>3, <3>4, <3>5, <3>7 DEF RevokedInv
    <2>4. CASE ~\E k \in Kids : ActiveKeys(store) = {k} /\ Signs(k)
      <3>1. service' = Down
        BY <1>4, <2>4 DEF Restart
      <3>2. since' \in [Kids -> Nat]
        BY <1>1, <1>4 DEF Restart, KeysTypeOK
      <3>3. KeysTypeOK'
        BY <1>1, <1>2, <1>4, <2>1, <3>1, <3>2 DEF Restart, KeysTypeOK
      <3> QED
        BY <1>3, <2>1, <3>1, <3>3
    <2> QED
      BY <2>3, <2>4
  <1>5. CASE Sign
    BY <1>1, <1>2, <1>3, <1>5 DEF Sign, KeysTypeOK, RevokedInv
  <1>6. CASE FetchJwks
    <2>1. service.published \in SUBSET Kids /\ day \in Nat
      BY <1>1 DEF KeysTypeOK, Service
    <2>2. jwks' \in [kids : SUBSET Kids, fetched : Nat]
      BY <1>6, <2>1 DEF FetchJwks
    <2> QED
      BY <1>1, <1>2, <1>3, <1>6, <2>2 DEF FetchJwks, KeysTypeOK, RevokedInv
  <1>7. CASE DayPasses
    <2>1. issued' \in [Kids -> Nat]
      BY <1>1, <1>7 DEF DayPasses, KeysTypeOK
    <2> QED
      BY <1>1, <1>2, <1>3, <1>7, <2>1 DEF DayPasses, KeysTypeOK, RevokedInv
  <1> QED
    BY <1>4, <1>5, <1>6, <1>7 DEF ServiceStep

LEMMA RevokedNext == RevokedInv /\ [KeysNext]_keyVars => RevokedInv'
  <1> SUFFICES ASSUME RevokedInv, [KeysNext]_keyVars PROVE RevokedInv'
    OBVIOUS
  <1>1. CASE UNCHANGED keyVars
    BY <1>1 DEF keyVars, RevokedInv, KeysTypeOK, WellFormed, Named, OneAtATime, Active, RevokedIn, Stored
  <1>2. ASSUME NEW c \in Commands, MoveStep(c) PROVE RevokedInv'
    <2>0. PICK u : u = command[c]
      OBVIOUS
    <2>1. PICK t \in Command :
             /\ command' = [command EXCEPT ![c] = t]
             /\ t.kid = u.kid /\ t.view = u.view
             /\ u.pc \in {"demote", "schedule", "replace"}
             /\ scheduled' \subseteq Kids /\ UNCHANGED <<store, revokedKids>> /\ KeepRest
      BY <1>2, <2>0, Moves
    <2>2. WellFormed(t.view) /\ Named(t) /\ Active(c)
      BY <2>0, <2>1 DEF RevokedInv, Named, Active
    <2> QED
      BY <2>0, <2>1, <2>2, RevokedMoves
  <1>3. ASSUME NEW c \in Commands, CommandDies(c) PROVE RevokedInv'
    <2>1. WellFormed(NoCommand.view) /\ Named(NoCommand) /\ Active(c) /\ scheduled' \subseteq Kids
      BY <1>3, NoCommandThere DEF WellFormed, Named, Active, CommandDies, RevokedInv, KeysTypeOK
    <2> QED
      BY <1>3, <2>1, NoCommandThere, RevokedMoves DEF CommandDies, Exit
  <1> QED
    BY <1>1, <1>2, <1>3, KeysSteps, RevokedStart, RevokedEdit, RevokedSave, RevokedService

\* A revoked key stays revoked in the store and out of whatever is loaded from it.
THEOREM RevokedInvariance == KeysSpec => []RevokedInv
  BY RevokedInit, RevokedNext, PTL DEF KeysSpec

\* Every variable of the signing keys stays in its domain.
THEOREM KeysTypeCorrect == KeysSpec => []KeysTypeOK
  <1>1. RevokedInv => KeysTypeOK
    BY DEF RevokedInv
  <1> QED
    BY <1>1, RevokedInvariance, PTL

\* A service that starts after a revocation was stored neither publishes the key nor signs
\* with it: with kms whatever overlapped, with the file if no command did.
THEOREM RevokedKeysStayOut == KeysSpec => []RevokedStaysOut
  <1>1. RevokedInv => RevokedStaysOut
    BY DEF RevokedInv, RevokedStaysOut
  <1> QED
    BY <1>1, RevokedInvariance, PTL

\* In SerialInv for one command: what t has, at work on s, while the store is st.
LEMMA SerialByCommand ==
    ASSUME RevokedInv, ~overlapped, NEW c \in Commands, Active(c),
           \A d \in Commands \ {c} : command'[d] = command[d],
           Sound(store)', Active(c)' => Sound(Stored(c))' /\ Ready(command[c], Stored(c))'
    PROVE  SerialInv'
  <1>1. \A d \in Commands : Active(d)' => d = c
    BY DEF RevokedInv, OneAtATime, Active
  <1> QED
    BY <1>1 DEF SerialInv

LEMMA SerialInit == KeysInit => SerialInv
  <1> SUFFICES ASSUME KeysInit PROVE SerialInv
    OBVIOUS
  <1>1. \A c \in Commands : ~Active(c)
    BY NoCommandThere DEF KeysInit, Active
  <1>2. NoKey.status = "NONE" /\ ~NoKey.revoked
    BY DEF NoKey
  <1>3. Sound(store)
    BY <1>2 DEF KeysInit, Sound, ActiveKeys, Usable
  <1> QED
    BY <1>1, <1>3 DEF SerialInv

LEMMA SerialStart ==
    ASSUME RevokedInv, SerialInv, NEW c \in Commands, StartStep(c) PROVE SerialInv'
  <1>1. KeysTypeOK
    BY DEF RevokedInv
  <1>2. PICK t \in Command :
             /\ command[c].pc = "off" /\ command' = [command EXCEPT ![c] = t]
             /\ StartOf(t) /\ (provider = "file" => t.view = store)
             /\ overlapped' = (overlapped \/ ~Idle)
             /\ UNCHANGED <<provider, store>>
    BY <1>1, StartsAs
  <1>3. /\ command'[c] = t /\ \A d \in Commands \ {c} : command'[d] = command[d]
    BY <1>1, <1>2, Becomes
  <1> SUFFICES ASSUME ~overlapped' PROVE SerialInv'
    BY DEF SerialInv
  <1>4. ~overlapped /\ Idle
    BY <1>1, <1>2 DEF KeysTypeOK
  <1>5. \A d \in Commands : Active(d)' => d = c
    BY <1>3, <1>4 DEF Active, Idle
  <1>6. Stored(c)' = store
    BY <1>1, <1>2, <1>3 DEF Stored, KeysTypeOK
  <1>7. Sound(store)
    BY <1>4 DEF SerialInv
  <1>8. Ready(t, store)
    BY <1>2 DEF StartOf, Ready, With
  <1>9. Sound(store)' /\ Sound(Stored(c))' /\ Ready(command[c], Stored(c))'
    BY <1>2, <1>3, <1>6, <1>7, <1>8 DEF Sound, ActiveKeys, Usable, Ready, With
  <1> QED
    BY <1>5, <1>9 DEF SerialInv

LEMMA SerialEdit ==
    ASSUME RevokedInv, SerialInv, NEW c \in Commands, EditStep(c) PROVE SerialInv'
  <1>1. PICK t \in Command, k \in Kids, x \in StoredSigningKey :
             /\ Sets(c, t, k, x) /\ EditOf(command[c], t, Stored(c), k, x)
             /\ t.kid = command[c].kid /\ t.status = command[c].status /\ t.view = command[c].view
             /\ KeepRest
    BY Edits
  <1>2. PICK u, s, w : u = command[c] /\ s = Stored(c) /\ w = command'[c]
    OBVIOUS
  <1>3. KeysTypeOK /\ u \in Command /\ Named(u) /\ s \in KeyStore
    BY <1>2 DEF RevokedInv, KeysTypeOK, Stored, Command
  <1>4. Active(c) /\ UNCHANGED <<provider, overlapped>> /\ provider \in {"file", "kms"}
    BY <1>1, <1>2, <1>3 DEF EditOf, Active, KeepRest, KeysTypeOK
  <1> SUFFICES ASSUME ~overlapped PROVE SerialInv'
    BY <1>4 DEF SerialInv
  <1>5. Sound(store) /\ Sound(s) /\ Ready(u, s)
    BY <1>2, <1>4 DEF SerialInv
  <1>6. PICK s1 : s1 = [s EXCEPT ![k] = x]
    OBVIOUS
  <1>7. s1 \in KeyStore /\ s1[k] = x /\ \A j \in Kids \ {k} : s1[j] = s[j]
    BY <1>3, <1>6 DEF KeyStore
  <1>8. /\ Stored(c)' = s1
        /\ provider = "file" => store' = store /\ w.view = s1 /\ u.view = s
        /\ provider = "kms" => store' = s1 /\ w.view = u.view
        /\ w.pc = t.pc /\ w.kid = u.kid /\ w.status = u.status /\ w.demote = t.demote
    BY <1>1, <1>2, <1>3, <1>6 DEF Sets, Stored, KeepRest, KeysTypeOK
  <1>9. EditOf(u, t, s, k, x)
    BY <1>1, <1>2
  <1>10. Sound(s1) /\ Ready(w, s1)
    <2>1. CASE u.pc = "create"
      <3>1. t.pc = "save" /\ s[k].status = "NONE" /\ x.status = u.status /\ ~x.revoked
        BY <1>9, <2>1 DEF EditOf
      <3>2. Sound(s1)
        BY <1>5, <1>7, <2>1, <3>1 DEF Sound, Ready, ActiveKeys, Usable
      <3> QED
        BY <1>8, <3>1, <3>2 DEF Ready
    <2>2. CASE u.pc = "demote"
      <3>1. /\ t.pc = "demote" /\ k \in u.demote /\ t.demote = u.demote \ {k}
            /\ x.status = "RETIRING" /\ x.revoked = s[k].revoked
        BY <1>9, <2>2 DEF EditOf
      <3>2. u.demote = With(s, "ACTIVE") /\ s[u.kid].status = "NEXT" /\ u.kid \in Kids
        BY <1>3, <1>5, <2>2 DEF Ready, Named
      <3>3. ~x.revoked /\ u.kid # k
        BY <1>5, <3>1, <3>2 DEF Sound, With
      <3>4. Sound(s1)
        BY <1>5, <1>7, <3>1, <3>3 DEF Sound, ActiveKeys, Usable
      <3>5. t.demote = With(s1, "ACTIVE") /\ s1[u.kid].status = "NEXT"
        BY <1>7, <3>1, <3>2, <3>3 DEF With
      <3> QED
        BY <1>8, <3>1, <3>4, <3>5 DEF Ready
    <2>3. CASE u.pc = "promote"
      <3>1. t.pc = "save" /\ k = u.kid /\ x.status = "ACTIVE" /\ x.revoked = s[k].revoked
        BY <1>9, <2>3 DEF EditOf
      <3>2. ActiveKeys(s) = {} /\ ~x.revoked
        BY <1>5, <2>3, <3>1 DEF Ready, Sound
      <3>3. Sound(s1)
        BY <1>5, <1>7, <3>1, <3>2 DEF Sound, ActiveKeys, Usable
      <3> QED
        BY <1>8, <3>1, <3>3 DEF Ready
    <2>4. CASE u.pc = "retire"
      <3>1. t.pc = "save" /\ k = u.kid /\ x.status = "RETIRED" /\ x.revoked = s[k].revoked
        BY <1>9, <2>4 DEF EditOf
      <3>2. Sound(s1)
        BY <1>5, <1>7, <3>1 DEF Sound, ActiveKeys, Usable
      <3> QED
        BY <1>8, <3>1, <3>2 DEF Ready
    <2>5. CASE u.pc = "revoke"
      <3>1. /\ k = u.kid /\ x.status = "RETIRED" /\ x.revoked
            /\ t.pc = IF provider = "kms" THEN "schedule" ELSE IF u.status = "ACTIVE" THEN "replace" ELSE "save"
        BY <1>9, <2>5 DEF EditOf
      <3>2. s[k].status = u.status /\ u.view = s
        BY <1>5, <2>5, <3>1 DEF Ready
      <3>3. Sound(s1)
        BY <1>5, <1>7, <3>1 DEF Sound, ActiveKeys, Usable
      <3>4. ASSUME u.status = "ACTIVE"
            PROVE  /\ ActiveKeys(s1) = {} /\ w.view[k].status # "NEXT"
                   /\ \A j \in Kids \ {k} : s1[j] = w.view[j]
        <4>1. k \in ActiveKeys(s)
          BY <1>5, <3>2, <3>4 DEF Sound, ActiveKeys, Usable
        <4>2. ActiveKeys(s1) = {}
          BY <1>5, <1>7, <3>1, <4>1 DEF Sound, ActiveKeys, Usable
        <4> QED
          BY <1>4, <1>7, <1>8, <3>1, <3>2, <3>4, <4>2
      <3> QED
        BY <1>8, <3>1, <3>3, <3>4 DEF Ready
    <2>6. CASE u.pc = "replace"
      <3>1. /\ t.pc = "save" /\ u.view[k].status = "NEXT" /\ ~u.view[k].revoked
            /\ x.status = "ACTIVE" /\ x.revoked = s[k].revoked
        BY <1>9, <2>6 DEF EditOf
      <3>2. ActiveKeys(s) = {} /\ ~x.revoked
        BY <1>5, <2>6, <3>1 DEF Ready
      <3>3. Sound(s1)
        BY <1>5, <1>7, <3>1, <3>2 DEF Sound, ActiveKeys, Usable
      <3> QED
        BY <1>8, <3>1, <3>3 DEF Ready
    <2> QED
      BY <1>9, <2>1, <2>2, <2>3, <2>4, <2>5, <2>6 DEF EditOf
  <1>11. Sound(store)'
    BY <1>4, <1>5, <1>8, <1>10 DEF Sound, ActiveKeys, Usable
  <1>12. Sound(Stored(c))' /\ Ready(command[c], Stored(c))'
    BY <1>2, <1>8, <1>10 DEF Sound, ActiveKeys, Usable, Ready, With
  <1> QED
    BY <1>1, <1>4, <1>11, <1>12, SerialByCommand DEF Sets

LEMMA SerialMove ==
    ASSUME RevokedInv, SerialInv, NEW c \in Commands, MoveStep(c) PROVE SerialInv'
  <1>0. PICK u : u = command[c]
    OBVIOUS
  <1>1. KeysTypeOK
    BY DEF RevokedInv
  <1>2. PICK t \in Command :
             /\ command' = [command EXCEPT ![c] = t]
             /\ t.kid = u.kid /\ t.view = u.view /\ t.demote = u.demote
             /\ \/ u.pc = "demote" /\ t.pc = "promote" /\ u.demote = {} /\ t.status = u.status
                \/ /\ u.pc = "schedule" /\ t.pc = IF u.status = "ACTIVE" THEN "replace" ELSE "save"
                   /\ t.status = u.status
                \/ u.pc = "replace" /\ t.pc = "create" /\ t.status = "ACTIVE"
             /\ UNCHANGED store /\ KeepRest
    BY <1>0, Moves
  <1>3. command'[c] = t /\ \A d \in Commands \ {c} : command'[d] = command[d]
    BY <1>1, <1>2, Becomes
  <1>4. PICK s : s = Stored(c)
    OBVIOUS
  <1>5. Active(c) /\ Stored(c)' = s /\ overlapped' = overlapped
    BY <1>0, <1>2, <1>3, <1>4 DEF Active, Stored, KeepRest
  <1> SUFFICES ASSUME ~overlapped PROVE SerialInv'
    BY <1>5 DEF SerialInv
  <1>6. Sound(store) /\ Sound(s) /\ Ready(u, s)
    BY <1>0, <1>2, <1>4, <1>5 DEF SerialInv
  <1>7. Ready(t, s)
    BY <1>0, <1>2, <1>6 DEF Ready, ActiveKeys, Usable, With
  <1>8. Sound(store)' /\ Sound(Stored(c))' /\ Ready(command[c], Stored(c))'
    BY <1>0, <1>2, <1>3, <1>5, <1>6, <1>7 DEF Sound, ActiveKeys, Usable, Ready, With
  <1> QED
    BY <1>3, <1>5, <1>8, SerialByCommand

LEMMA SerialEnds ==
    ASSUME RevokedInv, SerialInv, NEW c \in Commands, Save(c) \/ CommandDies(c) PROVE SerialInv'
  <1>1. KeysTypeOK
    BY DEF RevokedInv
  <1>2. /\ command' = [command EXCEPT ![c] = NoCommand] /\ store' \in {store, Stored(c)} /\ Active(c)
        /\ overlapped' = overlapped
    BY DEF Save, CommandDies, Exit, Active, KeepRest
  <1>3. command'[c] = NoCommand /\ \A d \in Commands \ {c} : command'[d] = command[d]
    BY <1>1, <1>2, NoCommandThere, Becomes
  <1> SUFFICES ASSUME ~overlapped PROVE SerialInv'
    BY <1>2 DEF SerialInv
  <1>4. PICK s : s = store'
    OBVIOUS
  <1>5. Sound(s)
    BY <1>2, <1>4 DEF SerialInv
  <1>6. Sound(store)' /\ ~Active(c)'
    BY <1>3, <1>4, <1>5, NoCommandThere DEF Sound, ActiveKeys, Usable, Active
  <1> QED
    BY <1>2, <1>3, <1>6, SerialByCommand

LEMMA SerialNext == RevokedInv /\ SerialInv /\ [KeysNext]_keyVars => SerialInv'
  <1> SUFFICES ASSUME RevokedInv, SerialInv, [KeysNext]_keyVars PROVE SerialInv'
    OBVIOUS
  <1>1. ASSUME UNCHANGED <<provider, store, command, overlapped>> PROVE SerialInv'
    BY <1>1 DEF SerialInv, Sound, ActiveKeys, Usable, Active, Stored, Ready, With
  <1>2. CASE ServiceStep
    BY <1>1, <1>2 DEF ServiceStep, Restart, Sign, FetchJwks, DayPasses
  <1> QED
    BY <1>1, <1>2, KeysSteps, SerialStart, SerialEdit, SerialMove, SerialEnds DEF keyVars

\* Commands run one after the other never leave two ACTIVE keys, wherever one of them died.
THEOREM OneSignerAtMost == KeysSpec => []AtMostOneSigner
  <1>1. KeysSpec => []SerialInv
    BY RevokedInvariance, SerialInit, SerialNext, PTL DEF KeysSpec
  <1>2. ASSUME SerialInv PROVE AtMostOneSigner
    <2> SUFFICES ASSUME ~overlapped PROVE Cardinality(ActiveKeys(store)) <= 1
      BY DEF AtMostOneSigner
    <2>1. \A j, k \in ActiveKeys(store) : j = k
      BY <1>2 DEF SerialInv, Sound
    <2>2. CASE ActiveKeys(store) = {}
      BY <2>2, FS_EmptySet
    <2>3. ASSUME NEW k \in ActiveKeys(store) PROVE Cardinality(ActiveKeys(store)) <= 1
      <3>1. ActiveKeys(store) = {k}
        BY <2>1
      <3> QED
        BY <3>1, FS_Singleton
    <2> QED
      BY <2>2, <2>3
  <1> QED
    BY <1>1, <1>2, PTL

\* After a step of command c no other is in progress.
LEMMA NoOther ==
    ASSUME OneAtATime, NEW c \in Commands, Active(c) \/ Idle,
           \A d \in Commands \ {c} : command'[d] = command[d], NEW d \in Commands, Active(d)'
    PROVE  d = c
  BY DEF OneAtATime, Active, Idle

\* Nothing signs while there is no key.
LEMMA NothingSigns ==
    ASSUME KeysTypeOK, Unnoticed, Known(store) = {} PROVE service.active = NoKid /\ jwks.fetched = 0
  <1>1. service.active \in Kids \cup {NoKid}
    BY DEF KeysTypeOK, Service
  <1>2. ASSUME service.active \in Kids PROVE FALSE
    BY <1>2 DEF Unnoticed, Live, InUse, Known
  <1> QED
    BY <1>1, <1>2 DEF Unnoticed

LEMMA RotationInit == KeysInit => RotationInv
  <1> SUFFICES ASSUME KeysInit PROVE Unnoticed
    BY DEF RotationInv
  <1>1. \A c \in Commands : ~Active(c)
    BY NoCommandThere DEF KeysInit, Active
  <1>2. NoKey.status = "NONE" /\ ~NoKey.revoked
    BY DEF NoKey
  <1>3. \A k \in Kids : store[k] = NoKey /\ issued[k] = 0
    BY DEF KeysInit
  <1>4. service.active = NoKid /\ service.published = {} /\ jwks.fetched = 0 /\ day = 1
    BY DEF KeysInit, Down
  <1>5. \A k \in Kids : ~Live(k) /\ ~Trusted(k)
    BY <1>1, <1>2, <1>3, <1>4, KeySentinels DEF Live, Valid, Trusted, InUse
  <1> QED
    BY <1>1, <1>2, <1>3, <1>4, <1>5 DEF Unnoticed

LEMMA RotationStart ==
    ASSUME RevokedInv, RotationInv, NEW c \in Commands, StartStep(c) PROVE RotationInv'
  <1>1. KeysTypeOK
    BY DEF RevokedInv
  <1>2. PICK t \in Command :
             /\ command[c].pc = "off" /\ command' = [command EXCEPT ![c] = t]
             /\ StartOf(t) /\ (provider = "file" => t.view = store)
             /\ overlapped' = (overlapped \/ ~Idle) /\ hasty' \in BOOLEAN /\ (hasty => hasty')
             /\ UNCHANGED <<provider, day, store, scheduled, service, jwks, issued, since, revokedKids>>
    BY <1>1, StartsAs
  <1>3. /\ command'[c] = t /\ \A d \in Commands \ {c} : command'[d] = command[d]
    BY <1>1, <1>2, Becomes
  <1> SUFFICES ASSUME ~overlapped', ~hasty' PROVE Unnoticed'
    BY DEF RotationInv
  <1>4. ~overlapped /\ ~hasty /\ Idle /\ OneAtATime
    BY <1>1, <1>2 DEF KeysTypeOK, RevokedInv
  <1>5. Unnoticed
    BY <1>4 DEF RotationInv
  <1>6. Stored(c)' = store
    BY <1>1, <1>2, <1>3 DEF Stored, KeysTypeOK
  <1>7. \A d \in Commands : Active(d)' => d = c
    BY <1>3, <1>4, NoOther
  <1>8. Careful(t, store)
    BY <1>2, <1>5 DEF Unnoticed, Careful, StartOf, With, InUse
  <1>9. \A k \in Kids : Live(k)' = Live(k) /\ InUse(store, k)' = InUse(store, k) /\ Loaded(k)' = Loaded(k)
                         /\ StaysPublished(k)' = StaysPublished(k)
    BY <1>2 DEF Live, Valid, InUse, Loaded, StaysPublished, Known
  <1>10. Careful(command[c], Stored(c))'
    BY <1>2, <1>3, <1>6, <1>8, <1>9 DEF Careful, InUse, Known
  <1>11. ASSUME NEW k \in Kids, Trusted(k)' PROVE Loaded(k) /\ StaysPublished(k)
    <2>1. InUse(store, k) \/ (t.pc \in {"demote", "promote"} /\ t.kid = k)
      BY <1>2, <1>3, <1>6, <1>7, <1>11 DEF Trusted, InUse
    <2>2. CASE InUse(store, k)
      BY <1>5, <2>2 DEF Unnoticed, Trusted
    <2>3. CASE t.pc \in {"demote", "promote"} /\ t.kid = k
      <3>1. store[k].status = "NEXT" /\ k \in service.published /\ day > since[k] + CacheTtl
        BY <1>2, <2>3 DEF StartOf, With
      <3>2. ~(day <= since[k] + CacheTtl)
        BY <1>1, <3>1, KeyLimits DEF KeysTypeOK
      <3>3. jwks.fetched # 0 => k \in jwks.kids
        BY <1>5, <3>1, <3>2 DEF Unnoticed, Fresh
      <3> QED
        BY <3>1, <3>3 DEF Loaded, StaysPublished
    <2> QED
      BY <2>1, <2>2, <2>3
  <1>12. \A k \in service.published : Fresh(k)' = Fresh(k)
    BY <1>2 DEF Fresh
  <1> QED
    BY <1>2, <1>5, <1>7, <1>9, <1>10, <1>11, <1>12 DEF Unnoticed, Known

LEMMA RotationEdit ==
    ASSUME RevokedInv, SerialInv, RotationInv, NEW c \in Commands, EditStep(c) PROVE RotationInv'
  <1>1. PICK t \in Command, k \in Kids, x \in StoredSigningKey :
             /\ Sets(c, t, k, x) /\ EditOf(command[c], t, Stored(c), k, x)
             /\ t.kid = command[c].kid /\ t.status = command[c].status
             /\ KeepRest
    BY Edits
  <1>2. PICK u, s, w : u = command[c] /\ s = Stored(c) /\ w = command'[c]
    OBVIOUS
  <1>3. KeysTypeOK /\ u \in Command /\ Named(u) /\ s \in KeyStore
    BY <1>2 DEF RevokedInv, KeysTypeOK, Stored, Command
  <1>4. /\ Active(c) /\ UNCHANGED <<provider, day, service, jwks, issued, since, overlapped, hasty>>
        /\ provider \in {"file", "kms"}
    BY <1>1, <1>2, <1>3 DEF EditOf, Active, KeepRest, KeysTypeOK
  <1> SUFFICES ASSUME ~overlapped, ~hasty PROVE Unnoticed'
    BY <1>4 DEF RotationInv
  <1>5. Unnoticed /\ Careful(u, s) /\ Ready(u, s) /\ OneAtATime
    BY <1>2, <1>4 DEF RotationInv, Unnoticed, SerialInv, RevokedInv
  <1>6. PICK s1 : s1 = [s EXCEPT ![k] = x]
    OBVIOUS
  <1>7. s1 \in KeyStore /\ s1[k] = x /\ \A j \in Kids \ {k} : s1[j] = s[j]
    BY <1>3, <1>6 DEF KeyStore
  <1>8. /\ Stored(c)' = s1
        /\ provider = "file" => store' = store
        /\ provider = "kms" => store' = s1 /\ store = s
        /\ w.pc = t.pc /\ w.kid = u.kid /\ w.status = u.status
    BY <1>1, <1>2, <1>3, <1>4, <1>6 DEF Sets, Stored, KeepRest, KeysTypeOK
  <1>9. EditOf(u, t, s, k, x)
    BY <1>1, <1>2
  <1>10. \A d \in Commands : Active(d)' => d = c
    BY <1>1, <1>4, <1>5, NoOther DEF Sets
  <1>11. \A j \in Kids : Live(j)' = Live(j) /\ Loaded(j)' = Loaded(j)
    BY <1>4 DEF Live, Valid, Loaded
  \* What the step does to key k: four of the six are left.
  <1>12. /\ ~x.revoked /\ x.status # "NONE" /\ w.pc \in {"save", "demote"}
         /\ \/ /\ u.pc = "create" /\ s[k].status = "NONE" /\ store[k].status = "NONE" /\ w.pc = "save"
               /\ x.status = "NEXT" \/ (x.status = "ACTIVE" /\ Known(s) = {} /\ Known(store) = {})
            \/ u.pc = "demote" /\ w.pc = "demote" /\ x.status = "RETIRING" /\ InUse(s, k)
            \/ u.pc = "promote" /\ w.pc = "save" /\ x.status = "ACTIVE" /\ k = u.kid
            \/ u.pc = "retire" /\ w.pc = "save" /\ x.status = "RETIRED" /\ k = u.kid
    BY <1>5, <1>8, <1>9 DEF EditOf, Careful, Ready, With, InUse
  <1>13. \A j \in Kids : Live(j) \/ store[j].status = "ACTIVE" => InUse(s1, j)
    <2> SUFFICES ASSUME NEW j \in Kids, Live(j) \/ store[j].status = "ACTIVE" PROVE InUse(s1, j)
      OBVIOUS
    <2>1. InUse(s, j) /\ (u.pc = "retire" => u.kid # j)
      BY <1>5 DEF Careful
    <2>2. CASE j # k
      BY <1>7, <2>1, <2>2 DEF InUse
    <2>3. CASE j = k
      BY <1>7, <1>12, <2>1, <2>3 DEF InUse
    <2> QED
      BY <2>2, <2>3
  <1>14. \A j \in Kids : Live(j) \/ store'[j].status = "ACTIVE" => InUse(s1, j)
    <2> SUFFICES ASSUME NEW j \in Kids, store'[j].status = "ACTIVE" PROVE InUse(s1, j)
      BY <1>13
    <2>1. CASE provider = "file"
      BY <1>8, <1>13, <2>1
    <2>2. CASE provider = "kms"
      BY <1>8, <2>2 DEF InUse
    <2> QED
      BY <1>4, <2>1, <2>2
  <1>15. Known(store') \subseteq Known(s1) /\ Known(store) \subseteq Known(store')
    <2>1. Known(store) \subseteq Known(s) /\ Known(s) \subseteq Known(s1)
      BY <1>5, <1>7, <1>12 DEF Careful, Known
    <2>2. CASE provider = "file"
      BY <1>8, <2>1, <2>2
    <2>3. CASE provider = "kms"
      BY <1>8, <2>1, <2>3
    <2> QED
      BY <1>4, <2>2, <2>3
  <1>16. \A j \in Kids : ~s1[j].revoked /\ ~store'[j].revoked
    <2>1. \A j \in Kids : ~s1[j].revoked
      BY <1>5, <1>7, <1>12 DEF Careful
    <2> QED
      BY <1>4, <1>5, <1>8, <2>1 DEF Unnoticed
  <1>17. Careful(w, s1)'
    BY <1>11, <1>12, <1>14, <1>15, <1>16 DEF Careful, InUse, Known
  <1>18. \A j \in Kids : Live(j) => InUse(store', j)
    <2>1. CASE provider = "file"
      BY <1>5, <1>8, <2>1 DEF Unnoticed
    <2>2. CASE provider = "kms"
      BY <1>8, <1>13, <2>2
    <2> QED
      BY <1>4, <2>1, <2>2
  <1>19. ASSUME NEW j \in Kids, Trusted(j)' PROVE Loaded(j) /\ StaysPublished(j)'
    <2>1. InUse(store', j) \/ InUse(s1, j) \/ (w.pc = "demote" /\ w.kid = j)
      BY <1>2, <1>8, <1>10, <1>12, <1>19 DEF Trusted, InUse
    <2>2. CASE u.pc = "create" /\ j = k
      <3>1. x.status = "ACTIVE" /\ Known(store) = {}
        BY <1>4, <1>7, <1>8, <1>12, <2>1, <2>2 DEF InUse
      <3>2. Loaded(j)
        BY <1>3, <1>5, <3>1, NothingSigns DEF Loaded
      <3>3. CASE provider = "file"
        BY <1>8, <3>1, <3>2, <3>3 DEF StaysPublished, Known
      <3>4. CASE provider = "kms"
        BY <1>7, <1>8, <2>2, <3>1, <3>2, <3>4 DEF StaysPublished
      <3> QED
        BY <1>4, <3>3, <3>4
    <2>3. CASE ~(u.pc = "create" /\ j = k)
      <3>1. InUse(store, j) \/ InUse(s, j) \/ (u.pc \in {"demote", "promote"} /\ u.kid = j)
        <4>1. CASE j # k
          BY <1>4, <1>7, <1>8, <1>12, <2>1, <4>1 DEF InUse
        <4>2. CASE j = k
          BY <1>4, <1>7, <1>8, <1>12, <2>1, <2>3, <4>2 DEF InUse
        <4> QED
          BY <4>1, <4>2
      <3>2. Trusted(j)
        BY <1>2, <1>4, <3>1 DEF Trusted
      <3>3. Loaded(j) /\ StaysPublished(j)
        BY <1>5, <3>2 DEF Unnoticed
      <3>4. CASE provider = "file"
        BY <1>8, <3>3, <3>4 DEF StaysPublished, Known
      <3>5. CASE provider = "kms"
        <4>1. Known(store) # {}
          <5>1. InUse(s, j) \/ (s[u.kid].status = "NEXT" /\ u.kid \in Kids)
            BY <1>3, <1>5, <1>8, <3>1, <3>5 DEF Ready, Named, InUse
          <5> QED
            BY <1>8, <3>5, <5>1 DEF InUse, Known
        <4>2. store[j].status \in {"NEXT", "ACTIVE", "RETIRING"}
          BY <3>3, <4>1 DEF StaysPublished
        <4>3. store' = s1 /\ store = s
          BY <1>8, <3>5
        <4>4. CASE j # k
          BY <1>7, <3>3, <4>2, <4>3, <4>4 DEF StaysPublished
        <4>5. CASE j = k
          <5>1. x.status # "RETIRED"
            BY <1>7, <1>12, <2>1, <4>3, <4>5 DEF InUse
          <5>2. x.status \in {"NEXT", "ACTIVE", "RETIRING"}
            BY <1>12, <5>1
          <5> QED
            BY <1>7, <3>3, <4>3, <4>5, <5>2 DEF StaysPublished
        <4> QED
          BY <4>4, <4>5
      <3> QED
        BY <1>4, <3>4, <3>5
    <2> QED
      BY <2>2, <2>3
  <1>20. Known(store') = {} => jwks.fetched = 0
    BY <1>5, <1>15 DEF Unnoticed
  <1>21. \A d \in Commands : Active(d)' => Careful(command[d], Stored(d))'
    BY <1>2, <1>8, <1>10, <1>17 DEF Careful, InUse, Known
  <1> QED
    BY <1>4, <1>5, <1>11, <1>16, <1>18, <1>19, <1>20, <1>21 DEF Unnoticed, Known, InUse, Fresh

LEMMA RotationMove ==
    ASSUME RevokedInv, RotationInv, NEW c \in Commands, MoveStep(c) PROVE RotationInv'
  <1>0. PICK u : u = command[c]
    OBVIOUS
  <1>1. KeysTypeOK
    BY DEF RevokedInv
  <1>2. PICK t \in Command :
             /\ command' = [command EXCEPT ![c] = t]
             /\ t.kid = u.kid /\ t.view = u.view
             /\ \/ u.pc = "demote" /\ t.pc = "promote"
                \/ u.pc = "schedule"
                \/ u.pc = "replace"
             /\ UNCHANGED store /\ KeepRest
    BY <1>0, Moves
  <1>3. command'[c] = t /\ \A d \in Commands \ {c} : command'[d] = command[d]
    BY <1>1, <1>2, Becomes
  <1>4. PICK s : s = Stored(c)
    OBVIOUS
  <1>5. /\ Active(c) /\ Stored(c)' = s
        /\ UNCHANGED <<provider, day, service, jwks, issued, since, overlapped, hasty>>
    BY <1>0, <1>2, <1>3, <1>4 DEF Active, Stored, KeepRest
  <1> SUFFICES ASSUME ~overlapped, ~hasty PROVE Unnoticed'
    BY <1>5 DEF RotationInv
  <1>6. Unnoticed /\ Careful(u, s) /\ OneAtATime
    BY <1>0, <1>2, <1>4, <1>5 DEF RotationInv, Unnoticed, RevokedInv
  <1>7. u.pc = "demote" /\ t.pc = "promote"
    BY <1>0, <1>2, <1>6 DEF Careful
  <1>8. \A d \in Commands : Active(d)' => d = c
    BY <1>3, <1>5, <1>6, NoOther
  <1>9. Careful(command[c], Stored(c))'
    BY <1>0, <1>2, <1>3, <1>5, <1>6, <1>7 DEF Careful, Live, Valid, InUse, Known
  <1>10. ASSUME NEW k \in Kids, Trusted(k)' PROVE Trusted(k)
    <2>1. InUse(store, k) \/ InUse(s, k) \/ t.kid = k
      BY <1>0, <1>2, <1>3, <1>5, <1>8, <1>10 DEF Trusted, InUse
    <2> QED
      BY <1>0, <1>2, <1>4, <1>5, <1>7, <2>1 DEF Trusted
  <1> QED
    BY <1>0, <1>2, <1>5, <1>6, <1>8, <1>9, <1>10
       DEF Unnoticed, Live, Valid, InUse, Loaded, StaysPublished, Fresh, Known

LEMMA RotationEnds ==
    ASSUME RevokedInv, RotationInv, NEW c \in Commands, Save(c) \/ CommandDies(c) PROVE RotationInv'
  <1>1. KeysTypeOK
    BY DEF RevokedInv
  <1>2. PICK s : s = store'
    OBVIOUS
  <1>3. /\ command' = [command EXCEPT ![c] = NoCommand] /\ (s = store \/ s = Stored(c)) /\ Active(c)
        /\ UNCHANGED <<provider, day, service, jwks, issued, since, overlapped, hasty>>
    BY <1>2 DEF Save, CommandDies, Exit, Active, KeepRest
  <1>4. command'[c] = NoCommand /\ \A d \in Commands \ {c} : command'[d] = command[d]
    BY <1>1, <1>3, NoCommandThere, Becomes
  <1> SUFFICES ASSUME ~overlapped, ~hasty PROVE Unnoticed'
    BY <1>3 DEF RotationInv
  <1>5. Unnoticed /\ Careful(command[c], Stored(c)) /\ OneAtATime
    BY <1>3 DEF RotationInv, Unnoticed, RevokedInv
  <1>6. \A d \in Commands : ~Active(d)'
    BY <1>3, <1>4, <1>5, NoCommandThere, NoOther DEF Active
  <1>7. /\ \A k \in Kids : ~s[k].revoked
        /\ \A k \in Kids : Live(k) => InUse(s, k)
        /\ Known(s) = {} => jwks.fetched = 0
    <2>1. CASE s = store
      BY <1>5, <2>1 DEF Unnoticed
    <2>2. CASE s = Stored(c)
      <3>1. Known(s) = {} => Known(store) = {}
        BY <1>5, <2>2 DEF Careful
      <3> QED
        BY <1>5, <2>2, <3>1 DEF Unnoticed, Careful
    <2> QED
      BY <1>3, <2>1, <2>2
  <1>8. ASSUME NEW k \in Kids, Trusted(k)' PROVE Loaded(k) /\ s[k].status \in {"ACTIVE", "RETIRING"}
    <2>1. InUse(s, k)
      BY <1>2, <1>6, <1>8 DEF Trusted, InUse
    <2>2. Trusted(k)
      BY <1>3, <2>1 DEF Trusted
    <2> QED
      BY <1>5, <2>1, <2>2 DEF Unnoticed, InUse
  <1> QED
    BY <1>2, <1>3, <1>5, <1>6, <1>7, <1>8
       DEF Unnoticed, Live, Valid, InUse, Loaded, StaysPublished, Fresh, Known

LEMMA RotationService ==
    ASSUME RevokedInv, RotationInv, ServiceStep PROVE RotationInv'
  <1>1. KeysTypeOK
    BY DEF RevokedInv
  <1>2. UNCHANGED <<provider, store, command, overlapped, hasty>>
    BY DEF ServiceStep, Restart, Sign, FetchJwks, DayPasses
  <1> SUFFICES ASSUME ~overlapped, ~hasty PROVE Unnoticed'
    BY <1>2 DEF RotationInv
  <1>3. Unnoticed
    BY DEF RotationInv
  <1>4. /\ service \in Service /\ day \in Nat /\ CacheTtl \in Nat /\ TokenTtl \in Nat
        /\ jwks.fetched \in Nat /\ \A k \in Kids : since[k] \in Nat /\ issued[k] \in Nat
    BY <1>1, KeyLimits DEF KeysTypeOK
  <1>5. service.active \in Kids \cup {NoKid} /\ service.published \subseteq Kids
    BY <1>4 DEF Service
  \* The keys that are live were so before, or are ACTIVE in the store.
  <1>6. ASSUME \A k \in Kids : Live(k)' => Live(k) \/ store[k].status = "ACTIVE",
               \A k \in Kids : Trusted(k) => Loaded(k)',
               Known(store) = {} => jwks'.fetched = 0,
               service'.active = NoKid => service'.published = {},
               jwks'.fetched <= day',
               \A k \in service'.published : Fresh(k)'
        PROVE  Unnoticed'
    <2>1. \A c \in Commands : Active(c)' = Active(c) /\ Stored(c)' = Stored(c)
      BY <1>2 DEF Active, Stored
    <2>2. \A c \in Commands : Active(c)' => Careful(command[c], Stored(c))'
      BY <1>2, <1>3, <1>6, <2>1 DEF Unnoticed, Careful, InUse, Known
    <2>3. \A k \in Kids : Live(k)' => InUse(store, k)'
      BY <1>2, <1>3, <1>6 DEF Unnoticed, InUse
    <2>4. \A k \in Kids : Trusted(k)' = Trusted(k) /\ StaysPublished(k)' = StaysPublished(k)
      BY <1>2, <2>1 DEF Trusted, InUse, StaysPublished, Known
    <2> QED
      BY <1>2, <1>3, <1>6, <2>2, <2>3, <2>4 DEF Unnoticed, Known
  <1>7. CASE Restart
    <2>1. UNCHANGED <<day, jwks, issued>>
      BY <1>7 DEF Restart
    <2>2. CASE \E k \in Kids : ActiveKeys(store) = {k} /\ Signs(k)
      <3>1. PICK a, b : a = (CHOOSE k \in Kids : ActiveKeys(store) = {k}) /\ b = Usable(store)
        OBVIOUS
      <3>2. a \in Kids /\ ActiveKeys(store) = {a}
        BY <2>2, <3>1
      <3>3. service' = [active |-> a, published |-> b, revoked |-> revokedKids]
        BY <1>7, <2>2, <3>1 DEF Restart
      <3>4. service'.active = a /\ service'.published = b /\ b \subseteq Kids
        BY <3>1, <3>3 DEF Usable
      <3>5. store[a].status = "ACTIVE" /\ Known(store) # {}
        BY <3>2 DEF ActiveKeys, Known
      <3>6. \A k \in Kids : Live(k)' => Live(k) \/ store[k].status = "ACTIVE"
        BY <2>1, <3>4, <3>5 DEF Live, Valid
      <3>7. \A k \in Kids : Trusted(k) => Loaded(k)'
        BY <1>3, <2>1, <3>1, <3>4, <3>5 DEF Unnoticed, StaysPublished, Loaded, Usable
      <3>8. ASSUME NEW k \in b PROVE Fresh(k)'
        <4>1. since'[k] = IF k \in service.published THEN since[k] ELSE day
          BY <1>7, <3>4 DEF Restart
        <4>2. CASE k \in service.published
          BY <1>3, <2>1, <4>1, <4>2 DEF Unnoticed, Fresh
        <4>3. CASE k \notin service.published
          BY <1>3, <1>4, <2>1, <4>1, <4>3 DEF Unnoticed, Fresh
        <4> QED
          BY <4>2, <4>3
      <3>9. a # NoKid /\ jwks'.fetched <= day'
        BY <1>3, <2>1, <3>2, KeySentinels DEF Unnoticed
      <3> QED
        BY <1>6, <3>4, <3>5, <3>6, <3>7, <3>8, <3>9
    <2>3. CASE ~\E k \in Kids : ActiveKeys(store) = {k} /\ Signs(k)
      <3>1. service' = Down
        BY <1>7, <2>3 DEF Restart
      <3>2. service'.active = NoKid /\ service'.published = {}
        BY <3>1 DEF Down
      <3>3. \A k \in Kids : Live(k)' => Live(k)
        BY <2>1, <3>2, KeySentinels DEF Live, Valid
      <3>4. \A k \in Kids : Trusted(k) => Loaded(k)'
        BY <1>3, <2>1, <3>2 DEF Unnoticed, Loaded
      <3>5. jwks'.fetched <= day' /\ (Known(store) = {} => jwks'.fetched = 0)
        BY <1>3, <2>1 DEF Unnoticed
      <3> QED
        BY <1>6, <3>2, <3>3, <3>4, <3>5
    <2> QED
      BY <2>2, <2>3
  <1>8. CASE Sign
    <2>1. /\ service.active \in Kids /\ UNCHANGED <<day, service, jwks, since>>
          /\ issued' = [issued EXCEPT ![service.active] = day]
      BY <1>5, <1>8 DEF Sign
    <2>2. \A k \in Kids : Live(k)' => Live(k)
      BY <1>1, <2>1 DEF Live, Valid, KeysTypeOK
    <2>3. /\ \A k \in Kids : Trusted(k) => Loaded(k)'
          /\ \A k \in service'.published : Fresh(k)'
          /\ Known(store) = {} => jwks'.fetched = 0
          /\ service'.active = NoKid => service'.published = {}
          /\ jwks'.fetched <= day'
      BY <1>3, <2>1 DEF Unnoticed, Loaded, Fresh
    <2> QED
      BY <1>6, <2>2, <2>3
  <1>9. CASE FetchJwks
    <2>1. /\ service.active # NoKid /\ UNCHANGED <<day, service, issued, since>>
          /\ jwks'.kids = service.published /\ jwks'.fetched = day
      BY <1>9 DEF FetchJwks
    <2>2. \A k \in Kids : Live(k)' => Live(k)
      BY <2>1 DEF Live, Valid
    <2>3. \A k \in Kids : Trusted(k) => Loaded(k)'
      BY <1>3, <2>1 DEF Unnoticed, Loaded
    <2>4. Known(store) # {}
      BY <1>1, <1>3, <2>1, NothingSigns
    <2>5. jwks'.fetched <= day' /\ \A k \in service'.published : Fresh(k)'
      BY <1>4, <2>1 DEF Fresh
    <2>6. service'.active # NoKid
      BY <2>1
    <2> QED
      BY <1>6, <2>2, <2>3, <2>4, <2>5, <2>6
  <1>10. CASE DayPasses
    <2>1. /\ UNCHANGED <<service, jwks, since>> /\ day' = day + 1
          /\ service.active = NoKid \/ jwks.fetched = 0 \/ day < jwks.fetched + CacheTtl
          /\ \A k \in Kids : issued'[k] = issued[k] \/ issued'[k] = 0
      BY <1>10 DEF DayPasses
    <2>2. ASSUME NEW k \in Kids, Live(k)' PROVE Live(k)
      <3>1. CASE service.active = k
        BY <3>1 DEF Live
      <3>2. CASE Valid(k)'
        <4>1. issued'[k] > 0 /\ day + 1 < issued'[k] + TokenTtl /\ issued'[k] = issued[k]
          BY <1>4, <2>1, <3>2 DEF Valid
        <4> QED
          BY <1>4, <4>1 DEF Live, Valid
      <3> QED
        BY <2>1, <2>2, <3>1, <3>2 DEF Live
    <2>3. /\ \A k \in Kids : Trusted(k) => Loaded(k)'
          /\ Known(store) = {} => jwks'.fetched = 0
          /\ service'.active = NoKid => service'.published = {}
      BY <1>3, <2>1 DEF Unnoticed, Loaded
    <2>4. jwks'.fetched <= day'
      BY <1>3, <1>4, <2>1 DEF Unnoticed
    <2>5. ASSUME NEW k \in service.published PROVE Fresh(k)'
      <3>1. k \in Kids /\ service.active # NoKid /\ Fresh(k)
        BY <1>3, <1>5 DEF Unnoticed
      <3>2. ASSUME jwks.fetched # 0, k \notin jwks.kids
            PROVE  jwks.fetched <= since[k] /\ day + 1 <= since[k] + CacheTtl
        BY <1>4, <2>1, <3>1, <3>2 DEF Fresh
      <3> QED
        BY <2>1, <3>2 DEF Fresh
    <2>6. \A k \in service'.published : Fresh(k)'
      BY <2>1, <2>5
    <2> QED
      BY <1>6, <2>2, <2>3, <2>4, <2>6
  <1> QED
    BY <1>7, <1>8, <1>9, <1>10 DEF ServiceStep

LEMMA RotationNext == RevokedInv /\ SerialInv /\ RotationInv /\ [KeysNext]_keyVars => RotationInv'
  <1> SUFFICES ASSUME RevokedInv, SerialInv, RotationInv, [KeysNext]_keyVars PROVE RotationInv'
    OBVIOUS
  <1>1. CASE UNCHANGED keyVars
    BY <1>1 DEF keyVars, RotationInv, Unnoticed, Careful, Live, Valid, Trusted, InUse, Loaded,
                StaysPublished, Fresh, Known, Active, Stored
  <1> QED
    BY <1>1, KeysSteps, RotationStart, RotationEdit, RotationMove, RotationEnds, RotationService

\* A rotation with the waits of keys.ts:15-16 is not noticed: a relying party has the key
\* of every token that is still valid, be its copy of the JWKS as old as it may.
THEOREM RotationsPassUnnoticed == KeysSpec => []RotationIsUnnoticed
  <1>1. KeysSpec => [](RevokedInv /\ SerialInv /\ RotationInv)
    BY RevokedInvariance, SerialInit, SerialNext, RotationInit, RotationNext, PTL DEF KeysSpec
  <1>2. RotationInv => RotationIsUnnoticed
    BY DEF RotationInv, Unnoticed, RotationIsUnnoticed, Live, Trusted, Loaded
  <1> QED
    BY <1>1, <1>2, PTL
-----------------------------------------------------------------------------
(* Schema.                                                                 *)

\* The columns the migrations in ex add to t.
ColumnsOf(ex, t) == (IF 1 \in ex THEN ColumnsAdded(1, t) ELSE {})
                      \cup (IF 3 \in ex THEN ColumnsAdded(3, t) ELSE {})

\* The tables of core-authentication are there, made by it or by the first migration.
CoreIsThere(db) == \A t \in CoreTables : "base" \in db[t]

\* db has the columns and tables the history ex accounts for, and no others than those
\* and the ones of was; a table that is there has its CREATE TABLE columns.
Follows(was, db, ex) ==
    /\ \A t \in Tables : ColumnsOf(ex, t) \subseteq db[t]
    /\ \A t \in Tables : db[t] \ {"base"} \subseteq was[t] \cup ColumnsOf(ex, t)
    /\ \A t \in Tables : db[t] = {} \/ "base" \in db[t]
    /\ \A i \in Migrations : \A t \in NewTables[i] :
         /\ i \in ex => "base" \in db[t]
         /\ "base" \in db[t] => i \in ex \/ "base" \in was[t]
    /\ ex # {} => CoreIsThere(db)

\* What was found is lost only with a migration that was reverted.
FoundKept(was, db, undone) ==
    \A t \in Tables : \A c \in was[t] \ db[t] :
      \E i \in undone : t \in NewTables[i] \/ c \in ColumnsAdded(i, t)

SchemaTypeOK ==
    /\ synced \in BOOLEAN
    /\ DOMAIN found = Tables
    /\ DOMAIN table = Tables
    /\ executed \subseteq Migrations
    /\ job \in [Operators -> Job]

\* A command undoes one migration; one that does not run the first finds the tables it
\* alters.
JobInv(o) ==
    /\ job[o].does = "down" => \E i \in Migrations : job[o].which = {i}
    /\ job[o].does = "up" => 1 \in job[o].which \/ CoreIsThere(table)

SchemaInv ==
    /\ SchemaTypeOK
    /\ Follows(found, table, executed)
    /\ FoundKept(found, table, reverted)
    /\ 1 \in executed => synced
    /\ \A o \in Operators : JobInv(o)

LEMMA TableNames ==
    /\ \A i \in Migrations : NewTables[i] \cap CoreTables = {} /\ NewTables[i] \subseteq Tables
    /\ \A i, j \in Migrations : i # j => NewTables[i] \cap NewTables[j] = {}
    /\ \A t \in Tables : t \in CoreTables \/ \E i \in Migrations : t \in NewTables[i]
    /\ CoreTables \subseteq Tables
  <1>1. /\ NewTables[1] = {"user_mfa_factors", "auth_otp_challenges"}
        /\ NewTables[2] = {"logout_jobs", "logout_deliveries"}
        /\ NewTables[3] = {"auth_client_handoff_paths", "handoff_requests"}
    BY DEF NewTables
  <1>2. Migrations = {1, 2, 3}
    BY DEF Migrations
  <1>3. \A i \in Migrations : NewTables[i] \cap CoreTables = {}
    BY <1>1, <1>2 DEF CoreTables
  <1>4. \A i, j \in Migrations : i # j => NewTables[i] \cap NewTables[j] = {}
    BY <1>1, <1>2
  <1> QED
    BY <1>3, <1>4 DEF Tables

LEMMA AddedColumns ==
    ASSUME NEW t
    PROVE  /\ ColumnsAdded(1, t) = FirstColumns(t)
           /\ ColumnsAdded(2, t) = {}
           /\ ColumnsAdded(3, t) = HandoffColumns(t)
           /\ "base" \notin FirstColumns(t) \cup HandoffColumns(t)
           /\ FirstColumns(t) \cap HandoffColumns(t) = {}
           /\ t \notin CoreTables => FirstColumns(t) = {} /\ HandoffColumns(t) = {}
           /\ REQUIRED(t) \subseteq {"base"} \cup FirstColumns(t) \cup HandoffColumns(t)
  <1>1. /\ ColumnsAdded(1, t) = FirstColumns(t)
        /\ ColumnsAdded(2, t) = {}
        /\ ColumnsAdded(3, t) = HandoffColumns(t)
    BY DEF ColumnsAdded
  <1>2. "base" \notin FirstColumns(t) \cup HandoffColumns(t)
    BY DEF FirstColumns, HandoffColumns
  <1>3. FirstColumns(t) \cap HandoffColumns(t) = {}
    BY DEF FirstColumns, HandoffColumns
  <1>4. t \notin CoreTables => FirstColumns(t) = {} /\ HandoffColumns(t) = {}
    BY DEF FirstColumns, HandoffColumns, CoreTables
  <1>5. REQUIRED(t) \subseteq {"base"} \cup FirstColumns(t) \cup HandoffColumns(t)
    BY DEF FirstColumns, HandoffColumns, REQUIRED
  <1> QED
    BY <1>1, <1>2, <1>3, <1>4, <1>5

\* A migration adds its columns and tables to those of the history, whatever was there.
LEMMA UpFollows ==
    ASSUME NEW was, NEW db, NEW ex, ex \subseteq Migrations, Follows(was, db, ex),
           NEW i \in Migrations, i = 1 \/ CoreIsThere(db)
    PROVE  /\ Follows(was, up(i, db), ex \cup {i})
           /\ CoreIsThere(up(i, db))
           /\ \A t \in Tables : db[t] \subseteq up(i, db)[t]
           /\ DOMAIN up(i, db) = Tables
  <1> PICK new : new = up(i, db)
    OBVIOUS
  <1>1. \A t \in Tables :
          new[t] = (IF t \in Creates(i) /\ db[t] = {} THEN {"base"} ELSE db[t])
                     \cup ColumnsAdded(i, t)
    BY DEF up
  <1>2. ASSUME NEW t \in Tables
        PROVE  /\ ColumnsOf(ex, t) \subseteq db[t]
               /\ db[t] \ {"base"} \subseteq was[t] \cup ColumnsOf(ex, t)
               /\ db[t] = {} \/ "base" \in db[t]
    BY DEF Follows
  <1>3. ASSUME NEW t \in Tables
        PROVE  /\ ColumnsOf(ex \cup {i}, t) \subseteq new[t]
               /\ new[t] \ {"base"} \subseteq was[t] \cup ColumnsOf(ex \cup {i}, t)
    <2>1. new[t] \ {"base"} \subseteq db[t] \cup ColumnsAdded(i, t)
      BY <1>1
    <2>2. db[t] \cup ColumnsAdded(i, t) \subseteq new[t]
      BY <1>1
    <2>3. ColumnsOf(ex \cup {i}, t) = ColumnsOf(ex, t) \cup ColumnsAdded(i, t)
      BY AddedColumns DEF ColumnsOf, Migrations
    <2> QED
      BY <1>2, <2>1, <2>2, <2>3
  <1>4. ASSUME NEW t \in Tables PROVE db[t] \subseteq new[t]
    BY <1>1, <1>4
  <1>5. CoreIsThere(new)
    <2>1. CASE CoreIsThere(db)
      BY <1>4, <2>1, TableNames DEF CoreIsThere
    <2>2. CASE i = 1
      <3>1. ASSUME NEW t \in CoreTables PROVE "base" \in new[t]
        <4>1. t \in Tables /\ t \in Creates(i)
          BY <2>2, TableNames DEF Creates
        <4> QED
          BY <1>1, <1>2, <4>1
      <3> QED
        BY <3>1 DEF CoreIsThere
    <2> QED
      BY <2>1, <2>2
  <1>6. ASSUME NEW t \in Tables PROVE new[t] = {} \/ "base" \in new[t]
    <2>1. CASE t \in CoreTables
      BY <1>5, <2>1 DEF CoreIsThere
    <2>2. CASE t \notin CoreTables
      <3>1. ColumnsAdded(i, t) = {}
        BY <2>2, AddedColumns DEF Migrations
      <3> QED
        BY <1>1, <1>2, <3>1
    <2> QED
      BY <2>1, <2>2
  <1>7. ASSUME NEW j \in Migrations, NEW t \in NewTables[j]
        PROVE  /\ j \in ex \cup {i} => "base" \in new[t]
               /\ "base" \in new[t] => j \in ex \cup {i} \/ "base" \in was[t]
    <2>1. t \in Tables /\ t \notin CoreTables
      BY TableNames
    <2>2. ColumnsAdded(i, t) = {}
      BY <2>1, AddedColumns DEF Migrations
    <2>3. (j \in ex => "base" \in db[t]) /\ ("base" \in db[t] => j \in ex \/ "base" \in was[t])
      BY DEF Follows
    <2>4. db[t] = {} \/ "base" \in db[t]
      BY <1>2, <2>1
    <2>5. t \in Creates(i) <=> j = i
      BY <2>1, TableNames DEF Creates
    <2> QED
      BY <1>1, <2>1, <2>2, <2>3, <2>4, <2>5
  <1>8. Follows(was, new, ex \cup {i})
    BY <1>3, <1>5, <1>6, <1>7 DEF Follows
  <1>9. DOMAIN new = Tables
    BY DEF up
  <1> QED
    BY <1>4, <1>5, <1>8, <1>9

\* Undoing one leaves the tables of core-authentication, and what the rest of the history
\* accounts for.
LEMMA DownFollows ==
    ASSUME NEW was, NEW db, NEW ex, ex \subseteq Migrations, Follows(was, db, ex),
           NEW i \in Migrations
    PROVE  /\ Follows(was, down(i, db), ex \ {i})
           /\ CoreIsThere(db) => CoreIsThere(down(i, db))
           /\ \A t \in Tables : \A c \in db[t] \ down(i, db)[t] :
                t \in NewTables[i] \/ c \in ColumnsAdded(i, t)
           /\ DOMAIN down(i, db) = Tables
  <1> PICK new : new = down(i, db)
    OBVIOUS
  <1>1. \A t \in Tables :
          new[t] = IF t \in NewTables[i] THEN {} ELSE db[t] \ ColumnsAdded(i, t)
    BY DEF down
  <1>2. ASSUME NEW t \in Tables
        PROVE  /\ ColumnsOf(ex, t) \subseteq db[t]
               /\ db[t] \ {"base"} \subseteq was[t] \cup ColumnsOf(ex, t)
               /\ db[t] = {} \/ "base" \in db[t]
    BY DEF Follows
  <1>3. ASSUME NEW t \in Tables
        PROVE  /\ ColumnsOf(ex \ {i}, t) \subseteq new[t]
               /\ new[t] \ {"base"} \subseteq was[t] \cup ColumnsOf(ex \ {i}, t)
    <2>1. CASE t \in NewTables[i]
      <3>1. t \notin CoreTables
        BY <2>1, TableNames
      <3>2. ColumnsOf(ex \ {i}, t) = {}
        BY <3>1, AddedColumns DEF ColumnsOf
      <3> QED
        BY <1>1, <2>1, <3>2
    <2>2. CASE t \notin NewTables[i]
      <3>1. new[t] = db[t] \ ColumnsAdded(i, t)
        BY <1>1, <2>2
      <3>2. ColumnsOf(ex \ {i}, t) = ColumnsOf(ex, t) \ ColumnsAdded(i, t)
        BY AddedColumns DEF ColumnsOf, Migrations
      <3> QED
        BY <1>2, <3>1, <3>2
    <2> QED
      BY <2>1, <2>2
  <1>4. ASSUME NEW t \in Tables, t \notin NewTables[i], "base" \in db[t] PROVE "base" \in new[t]
    <2>1. "base" \notin ColumnsAdded(i, t)
      BY AddedColumns DEF Migrations
    <2> QED
      BY <1>1, <1>4, <2>1
  <1>5. ASSUME NEW t \in CoreTables, "base" \in db[t] PROVE "base" \in new[t]
    <2>1. t \in Tables /\ t \notin NewTables[i]
      BY TableNames
    <2> QED
      BY <1>4, <1>5, <2>1
  <1>6. CoreIsThere(db) => CoreIsThere(new)
    BY <1>5 DEF CoreIsThere
  <1>7. ASSUME NEW t \in Tables PROVE new[t] = {} \/ "base" \in new[t]
    BY <1>1, <1>2, <1>4
  <1>8. ASSUME NEW j \in Migrations, NEW t \in NewTables[j]
        PROVE  /\ j \in ex \ {i} => "base" \in new[t]
               /\ "base" \in new[t] => j \in ex \ {i} \/ "base" \in was[t]
    <2>1. t \in Tables /\ (t \in NewTables[i] <=> j = i)
      BY TableNames
    <2>2. (j \in ex => "base" \in db[t]) /\ ("base" \in db[t] => j \in ex \/ "base" \in was[t])
      BY DEF Follows
    <2>3. CASE j = i
      BY <1>1, <2>1, <2>3
    <2>4. CASE j # i
      BY <1>1, <1>4, <2>1, <2>2, <2>4
    <2> QED
      BY <2>3, <2>4
  <1>9. Follows(was, new, ex \ {i})
    BY <1>3, <1>6, <1>7, <1>8 DEF Follows
  <1>10. DOMAIN new = Tables
    BY DEF down
  <1> QED
    BY <1>1, <1>6, <1>9, <1>10

\* All that was pending, one migration after the other.
LEMMA UpAllFollows ==
    ASSUME NEW was, NEW db, NEW ex, ex \subseteq Migrations, Follows(was, db, ex), DOMAIN db = Tables,
           NEW which, which \subseteq Migrations, 1 \in which \/ CoreIsThere(db)
    PROVE  /\ Follows(was, upAll(which, db), ex \cup which)
           /\ CoreIsThere(upAll(which, db))
           /\ \A t \in Tables : db[t] \subseteq upAll(which, db)[t]
           /\ DOMAIN upAll(which, db) = Tables
  <1> DEFINE Grown(old, to, new) ==
        /\ Follows(was, new, to)
        /\ CoreIsThere(new)
        /\ \A t \in Tables : old[t] \subseteq new[t]
        /\ DOMAIN new = Tables
  <1>1. ASSUME NEW i \in Migrations, NEW d, NEW e, e \subseteq Migrations, Follows(was, d, e),
               DOMAIN d = Tables, (i = 1 /\ 1 \in which) \/ CoreIsThere(d)
        PROVE  Grown(d, e \cup (which \cap {i}), upIf(i, which, d))
    <2>1. CASE i \in which
      <3>1. upIf(i, which, d) = up(i, d) /\ which \cap {i} = {i}
        BY <2>1 DEF upIf
      <3>2. i = 1 \/ CoreIsThere(d)
        BY <1>1
      <3> HIDE DEF Grown
      <3>3. Grown(d, e \cup {i}, up(i, d))
        BY <1>1, <3>2, UpFollows DEF Grown
      <3> QED
        BY <3>1, <3>3
    <2>2. CASE i \notin which
      <3>1. upIf(i, which, d) = d /\ e \cup (which \cap {i}) = e
        BY <2>2 DEF upIf
      <3>2. CoreIsThere(d)
        BY <1>1, <2>2
      <3> QED
        BY <1>1, <3>1, <3>2
    <2> QED
      BY <2>1, <2>2
  <1>2. PICK d1, d2, d3 : /\ d1 = upIf(1, which, db) /\ d2 = upIf(2, which, d1)
                          /\ d3 = upIf(3, which, d2)
    OBVIOUS
  <1>3. d3 = upAll(which, db)
    BY <1>2 DEF upAll
  <1>4. PICK e1, e2, e3 : /\ e1 = ex \cup (which \cap {1}) /\ e2 = e1 \cup (which \cap {2})
                          /\ e3 = e2 \cup (which \cap {3})
    OBVIOUS
  <1>5. Migrations = {1, 2, 3}
    BY DEF Migrations
  <1>6. e3 = ex \cup which /\ e1 \subseteq Migrations /\ e2 \subseteq Migrations
    BY <1>4, <1>5
  <1>7. Grown(db, e1, d1)
    <2>1. Grown(db, ex \cup (which \cap {1}), upIf(1, which, db))
      BY <1>1, <1>5
    <2> QED
      BY <1>2, <1>4, <2>1
  <1>8. Grown(d1, e2, d2)
    <2>1. Follows(was, d1, e1) /\ CoreIsThere(d1) /\ DOMAIN d1 = Tables
      BY <1>7
    <2>2. Grown(d1, e1 \cup (which \cap {2}), upIf(2, which, d1))
      BY <1>1, <1>5, <1>6, <2>1
    <2> QED
      BY <1>2, <1>4, <2>2
  <1>9. Grown(d2, e3, d3)
    <2>1. Follows(was, d2, e2) /\ CoreIsThere(d2) /\ DOMAIN d2 = Tables
      BY <1>8
    <2>2. Grown(d2, e2 \cup (which \cap {3}), upIf(3, which, d2))
      BY <1>1, <1>5, <1>6, <2>1
    <2> QED
      BY <1>2, <1>4, <2>2
  <1> QED
    BY <1>3, <1>6, <1>7, <1>8, <1>9

LEMMA SchemaInitInv == SchemaInit => SchemaInv
  <1> SUFFICES ASSUME SchemaInit PROVE SchemaInv
    OBVIOUS
  <1>1. /\ executed = {} /\ synced \in BOOLEAN /\ table = found
        /\ job = [o \in Operators |-> NoJob]
    BY DEF SchemaInit
  <1>2. DOMAIN found = Tables /\ \A t \in Tables : found[t] = {} \/ "base" \in found[t]
    BY FoundAssumption DEF SchemaInit
  <1>3. NoJob \in Job /\ NoJob.does = "nothing"
    BY DEF Job, NoJob
  <1>4. SchemaTypeOK
    BY <1>1, <1>2, <1>3 DEF SchemaTypeOK
  <1>5. Follows(found, table, executed)
    BY <1>1, <1>2 DEF Follows, ColumnsOf
  <1>6. \A o \in Operators : JobInv(o)
    BY <1>1, <1>3 DEF JobInv
  <1>7. FoundKept(found, table, reverted)
    BY <1>1 DEF FoundKept
  <1> QED
    BY <1>1, <1>4, <1>5, <1>6, <1>7 DEF SchemaInv

LEMMA LastIsApplied ==
    ASSUME executed \subseteq Migrations, executed # {}
    PROVE  \E i \in Migrations : Max(executed) = i
  <1>1. Migrations = {1, 2, 3}
    BY DEF Migrations
  <1>2. \E i \in executed : \A j \in executed : i >= j
    <2>1. CASE 3 \in executed
      BY <1>1, <2>1
    <2>2. CASE 3 \notin executed /\ 2 \in executed
      BY <1>1, <2>2
    <2>3. CASE executed = {1}
      BY <2>3
    <2> QED
      BY <1>1, <2>1, <2>2, <2>3
  <1>3. Max(executed) \in executed
    BY <1>2 DEF Max
  <1> QED
    BY <1>3

LEMMA SchemaNextInv == SchemaInv /\ [SchemaNext]_schemaVars => SchemaInv'
  <1> SUFFICES ASSUME SchemaInv, [SchemaNext]_schemaVars PROVE SchemaInv'
    OBVIOUS
  <1>1. /\ SchemaTypeOK /\ Follows(found, table, executed) /\ executed \subseteq Migrations
        /\ FoundKept(found, table, reverted)
        /\ 1 \in executed => synced
        /\ \A o \in Operators : JobInv(o)
        /\ job \in [Operators -> Job]
    BY DEF SchemaInv, SchemaTypeOK
  <1>2. NoJob \in Job /\ NoJob.does = "nothing"
    BY DEF Job, NoJob
  <1>3. CASE UNCHANGED schemaVars
    BY <1>1, <1>3 DEF schemaVars, SchemaInv, SchemaTypeOK, JobInv, CoreIsThere
  <1>4. ASSUME NEW o \in Operators, NEW j \in Job, job' = [job EXCEPT ![o] = j],
               UNCHANGED <<synced, found, table, executed, reverted>>,
               j.does = "down" => \E i \in Migrations : j.which = {i},
               j.does = "up" => 1 \in j.which \/ CoreIsThere(table)
        PROVE  SchemaInv'
    <2>1. job' \in [Operators -> Job]
      BY <1>1, <1>4
    <2>2. ASSUME NEW p \in Operators PROVE JobInv(p)'
      <3>1. CASE p = o
        <4>1. job'[p] = j
          BY <1>1, <1>4, <3>1
        <4> QED
          BY <1>4, <4>1 DEF JobInv
      <3>2. CASE p # o
        <4>1. job'[p] = job[p]
          BY <1>1, <1>4, <3>2
        <4> QED
          BY <1>1, <1>4, <4>1 DEF JobInv
      <3> QED
        BY <3>1, <3>2
    <2> QED
      BY <1>1, <1>4, <2>1, <2>2 DEF SchemaInv, SchemaTypeOK
  <1>5. ASSUME NEW o \in Operators, RunReads(o) PROVE SchemaInv'
    <2> PICK j : j = [does |-> "up", which |-> Migrations \ executed]
      OBVIOUS
    <2>1. j \in Job /\ j.does = "up" /\ j.which = Migrations \ executed
      BY DEF Job
    <2>2. 1 \in j.which \/ CoreIsThere(table)
      BY <1>1, <2>1 DEF Follows, Migrations
    <2>3. job' = [job EXCEPT ![o] = j] /\ UNCHANGED <<synced, found, table, executed, reverted>>
      BY <1>5 DEF RunReads
    <2> QED
      BY <1>4, <2>1, <2>2, <2>3
  <1>6. ASSUME NEW o \in Operators, RevertReads(o) PROVE SchemaInv'
    <2>1. PICK i \in Migrations : Max(executed) = i
      BY <1>1, <1>6, LastIsApplied DEF RevertReads
    <2> PICK j : j = [does |-> "down", which |-> {i}]
      OBVIOUS
    <2>2. j \in Job /\ j.does = "down" /\ j.which = {i}
      BY DEF Job
    <2>3. job' = [job EXCEPT ![o] = j] /\ UNCHANGED <<synced, found, table, executed, reverted>>
      BY <1>6, <2>1 DEF RevertReads
    <2> QED
      BY <1>4, <2>2, <2>3
  <1>7. ASSUME NEW o \in Operators, JobFails(o) PROVE SchemaInv'
    BY <1>2, <1>4, <1>7 DEF JobFails
  <1>8. ASSUME NEW o \in Operators, NEW db, NEW ex, NEW undone, table' = db, executed' = ex,
               reverted' = undone,
               job' = [job EXCEPT ![o] = NoJob], UNCHANGED <<synced, found>>,
               DOMAIN db = Tables, ex \subseteq Migrations, Follows(found, db, ex),
               CoreIsThere(table) => CoreIsThere(db),
               FoundKept(found, db, undone),
               1 \in ex => synced
        PROVE  SchemaInv'
    <2>1. SchemaTypeOK'
      BY <1>1, <1>2, <1>8 DEF SchemaTypeOK
    <2>2. FoundKept(found, table, reverted)'
      BY <1>8 DEF FoundKept
    <2>3. ASSUME NEW p \in Operators PROVE JobInv(p)'
      <3>1. CASE p = o
        <4>1. job'[p] = NoJob
          BY <1>1, <1>8, <3>1
        <4> QED
          BY <1>2, <4>1 DEF JobInv
      <3>2. CASE p # o
        <4>1. job'[p] = job[p]
          BY <1>1, <1>8, <3>2
        <4> QED
          BY <1>1, <1>8, <4>1 DEF JobInv
      <3> QED
        BY <3>1, <3>2
    <2> QED
      BY <1>8, <2>1, <2>2, <2>3 DEF SchemaInv
  <1>9. ASSUME NEW o \in Operators, RunCommits(o) PROVE SchemaInv'
    <2> PICK db, ex, w : /\ w = job[o].which /\ db = upAll(w, table) /\ ex = executed \cup w
      OBVIOUS
    <2>1. w \subseteq Migrations
      BY <1>1 DEF Job
    <2>2. 1 \in w \/ CoreIsThere(table)
      BY <1>1, <1>9 DEF RunCommits, JobInv
    <2>3. DOMAIN table = Tables
      BY <1>1 DEF SchemaTypeOK
    <2>4. /\ Follows(found, db, ex) /\ CoreIsThere(db) /\ DOMAIN db = Tables
          /\ \A t \in Tables : table[t] \subseteq db[t]
      BY <1>1, <2>1, <2>2, <2>3, UpAllFollows
    <2>5. /\ table' = db /\ executed' = ex /\ job' = [job EXCEPT ![o] = NoJob]
          /\ UNCHANGED <<synced, found, reverted>> /\ (1 \in w => synced)
      BY <1>9 DEF RunCommits
    <2>6. ex \subseteq Migrations /\ (1 \in ex => synced)
      BY <1>1, <2>1, <2>5
    <2>7. FoundKept(found, db, reverted)
      BY <1>1, <2>4 DEF FoundKept
    <2> QED
      BY <1>8, <2>4, <2>5, <2>6, <2>7
  <1>10. ASSUME NEW o \in Operators, RevertCommits(o) PROVE SchemaInv'
    <2>1. PICK i \in Migrations : job[o].which = {i}
      BY <1>1, <1>10 DEF RevertCommits, JobInv
    <2>2. (CHOOSE k \in Migrations : job[o].which = {k}) = i
      BY <2>1
    <2> PICK db, ex : db = down(i, table) /\ ex = executed \ {i}
      OBVIOUS
    <2>3. /\ Follows(found, db, ex) /\ DOMAIN db = Tables /\ (CoreIsThere(table) => CoreIsThere(db))
          /\ \A t \in Tables : \A c \in table[t] \ db[t] :
               t \in NewTables[i] \/ c \in ColumnsAdded(i, t)
      BY <1>1, DownFollows
    <2>4. /\ table' = db /\ executed' = ex /\ job' = [job EXCEPT ![o] = NoJob]
          /\ reverted' = reverted \cup {i} /\ UNCHANGED <<synced, found>>
      BY <1>10, <2>1, <2>2 DEF RevertCommits
    <2>5. ex \subseteq Migrations /\ (1 \in ex => synced)
      BY <1>1
    <2>6. FoundKept(found, db, reverted \cup {i})
      BY <1>1, <2>3 DEF FoundKept
    <2> QED
      BY <1>8, <2>3, <2>4, <2>5, <2>6
  <1> QED
    BY <1>3, <1>5, <1>6, <1>7, <1>9, <1>10 DEF SchemaNext

\* The tables are those the history accounts for, and so are the ones a job will leave.
THEOREM SchemaInvariance == SchemaSpec => []SchemaInv
  BY SchemaInitInv, SchemaNextInv, PTL DEF SchemaSpec

LEMMA HistoryFollows == ASSUME SchemaInv PROVE SchemaFollowsHistory
  <1>1. /\ executed \subseteq Migrations
        /\ FoundKept(found, table, reverted)
        /\ 1 \in executed => synced
        /\ \A t \in Tables : ColumnsOf(executed, t) \subseteq table[t]
        /\ \A t \in Tables : table[t] \ {"base"} \subseteq found[t] \cup ColumnsOf(executed, t)
        /\ \A i \in Migrations : \A t \in NewTables[i] :
             /\ i \in executed => "base" \in table[t]
             /\ "base" \in table[t] => i \in executed \/ "base" \in found[t]
        /\ executed # {} => CoreIsThere(table)
    BY DEF SchemaInv, SchemaTypeOK, Follows
  <1>2. Migrations = {1, 2, 3}
    BY DEF Migrations
  <1>3. ASSUME executed = Migrations PROVE SchemaReady
    <2>1. ASSUME NEW t \in Tables PROVE REQUIRED(t) \subseteq table[t]
      <3>1. ColumnsOf(executed, t) = FirstColumns(t) \cup HandoffColumns(t)
        BY <1>2, <1>3, AddedColumns DEF ColumnsOf
      <3>2. "base" \in table[t]
        BY <1>1, <1>2, <1>3, TableNames DEF CoreIsThere
      <3> QED
        BY <1>1, <3>1, <3>2, AddedColumns
    <2> QED
      BY <1>1, <1>2, <1>3, <2>1 DEF SchemaReady
  <1>4. executed # {} => \A t \in CoreTables : "base" \in table[t]
    BY <1>1 DEF CoreIsThere
  <1>5. ASSUME NEW t \in Tables, NEW c \in table[t]
        PROVE  \/ c \in found[t] \cup UNION {ColumnsAdded(i, t) : i \in executed}
               \/ c = "base" /\ (t \in CoreTables \/ \E i \in executed : t \in NewTables[i])
    <2>1. CASE c # "base"
      BY <1>1, <2>1 DEF ColumnsOf
    <2>2. CASE c = "base" /\ t \notin CoreTables
      <3>1. PICK i \in Migrations : t \in NewTables[i]
        BY <2>2, TableNames
      <3> QED
        BY <1>1, <2>2, <3>1
    <2> QED
      BY <2>1, <2>2
  <1>6. \A t \in Tables : \A c \in found[t] \ table[t] :
          \E i \in reverted : t \in NewTables[i] \/ c \in ColumnsAdded(i, t)
    BY <1>1 DEF FoundKept
  <1> QED
    BY <1>3, <1>4, <1>5, <1>6 DEF SchemaFollowsHistory

\* However runs and reverts overlap, fail and repeat, whatever tables and columns were
\* there before: the service starts on the full history, the tables of core-authentication
\* stay, nothing is there that was not found and that the history does not bring, and what
\* was found is lost only with a migration that was reverted.
THEOREM HistoryIsFollowed == SchemaSpec => []SchemaFollowsHistory
  <1>1. SchemaInv => SchemaFollowsHistory
    BY HistoryFollows
  <1> QED
    BY <1>1, SchemaInvariance, PTL
=============================================================================
