---------------------------- MODULE SigningKeys -----------------------------
(***************************************************************************)
(* The life of the signing keys: the operator's command scripts/keys.ts    *)
(* over its two stores, the service that loads them when it starts, and a  *)
(* relying party that keeps a copy of the JWKS.  Commands may overlap and  *)
(* may die between two awaits.                                             *)
(*                                                                         *)
(* The file store works on a copy of the file that the last step writes    *)
(* back whole; the kms store updates one row of signing_key_metadata at a  *)
(* time, by what the first step listed.                                    *)
(***************************************************************************)
EXTENDS Integers, FiniteSets

CONSTANTS
    Kids,         \* key ids
    NoKid,        \* no key
    Commands,     \* slots for operator commands that overlap
    TokenTtl,     \* how long a token is verified
    SessionTtl,   \* SESSION_ABSOLUTE_TTL_SECONDS: how long an ID token is a logout hint
    CacheTtl,     \* how long a relying party keeps the JWKS
    MaxDay        \* bound on the clock

ASSUME KeySentinels == NoKid \notin Kids
ASSUME KeyLimits == {TokenTtl, SessionTtl, CacheTtl, MaxDay} \subseteq Nat /\ TokenTtl <= SessionTtl

VARIABLES
    provider,     \* SIGNING_KEY_PROVIDER
    day,          \* a clock, from 1
    store,        \* the key file, or signing_key_metadata
    scheduled,    \* KMS keys whose deletion is scheduled: they sign no more
    command,      \* the commands in progress
    service,      \* what the running service loaded
    jwks,         \* the relying party's copy, and when it was fetched; 0: it has none
    issued,       \* kid -> when it last signed an ID token; 0: none that may still be used
    since,        \* kid -> since when the running service publishes it
    revokedKids,  \* history: kids whose revocation was stored
    overlapped,   \* history: two commands ran at once
    hasty         \* history: a step of the rotation came before its wait, or a revocation

keyVars == <<provider, day, store, scheduled, command, service, jwks, issued, since, revokedKids,
             overlapped, hasty>>

Statuses == {"NONE", "NEXT", "ACTIVE", "RETIRING", "RETIRED"}
StoredSigningKey == [status : Statuses, revoked : BOOLEAN]
NoKey == [status |-> "NONE", revoked |-> FALSE]
KeyStore == [Kids -> StoredSigningKey]

CommandPcs == {"off", "create", "demote", "promote", "retire", "revoke", "schedule", "replace", "save"}
\* The copy of the file (of the list read, what is used later), the key named and
\* the keys to demote.
Command == [pc : CommandPcs, kid : Kids \cup {NoKid}, view : KeyStore, demote : SUBSET Kids,
            status : Statuses]
NoCommand == [pc |-> "off", kid |-> NoKid, view |-> [k \in Kids |-> NoKey], demote |-> {},
              status |-> "NONE"]
Service == [active : Kids \cup {NoKid}, published : SUBSET Kids, revoked : SUBSET Kids]
Down == [active |-> NoKid, published |-> {}, revoked |-> {}]

KeysInit ==
    /\ provider \in {"file", "kms"}
    /\ day = 1
    /\ store = [k \in Kids |-> NoKey]
    /\ scheduled = {}
    /\ command = [c \in Commands |-> NoCommand]
    /\ service = Down
    /\ jwks = [kids |-> {}, fetched |-> 0]
    /\ issued = [k \in Kids |-> 0]
    /\ since = [k \in Kids |-> 0]
    /\ revokedKids = {}
    /\ overlapped = FALSE
    /\ hasty = FALSE

Idle == \A c \in Commands : command[c].pc = "off"
Known(s) == {k \in Kids : s[k].status # "NONE"}
With(s, status) == {k \in Kids : s[k].status = status}
\* A token signed by k may still be verified.
Valid(k) == issued[k] > 0 /\ day < issued[k] + TokenTtl
Exit(c) == command' = [command EXCEPT ![c] = NoCommand]

-----------------------------------------------------------------------------
(* A command lists the keys and checks what it was asked for.              *)

Starts(c, next) ==
    /\ command[c].pc = "off"
    /\ command' = [command EXCEPT ![c] = IF provider = "file" \/ next.pc = "revoke"
                                           THEN [next EXCEPT !.view = store] ELSE next]
    /\ overlapped' = (overlapped \/ ~Idle)
    /\ UNCHANGED <<provider, day, store, scheduled, service, jwks, issued, since, revokedKids>>

\* NEXT when a key is ACTIVE.  A key made ACTIVE later than the first was in no
\* relying party's JWKS before it signs.
Generate(c) ==
    LET first == \A k \in With(store, "ACTIVE") : store[k].revoked
    IN  /\ Starts(c, [NoCommand EXCEPT !.pc = "create", !.status = IF first THEN "ACTIVE" ELSE "NEXT"])
        /\ hasty' = (hasty \/ (first /\ Known(store) # {}))

\* The wait: the key was in the JWKS for longer than relying parties keep it.
Activate(c) ==
    \E k \in With(store, "NEXT") :
      /\ ~store[k].revoked
      /\ Starts(c, [NoCommand EXCEPT !.pc = "demote", !.kid = k, !.demote = With(store, "ACTIVE")])
      /\ hasty' = (hasty \/ k \notin service.published \/ day <= since[k] + CacheTtl)

\* The wait: the service signs with another key, and the tokens have expired.
Retire(c) ==
    \E k \in With(store, "RETIRING") :
      /\ Starts(c, [NoCommand EXCEPT !.pc = "retire", !.kid = k])
      /\ hasty' = (hasty \/ service.active = k \/ Valid(k))

Revoke(c) ==
    \E k \in Known(store) :
      /\ Starts(c, [NoCommand EXCEPT !.pc = "revoke", !.kid = k, !.status = store[k].status])
      /\ hasty' = TRUE

-----------------------------------------------------------------------------
(* What it changes: the copy of the file, or the row.                      *)

\* Sets key k, and goes on with command c as cmd.
Put(c, k, key, cmd) ==
    IF provider = "file"
      THEN /\ command' = [command EXCEPT ![c] = [cmd EXCEPT !.view[k] = key]]
           /\ UNCHANGED store
      ELSE /\ store' = [store EXCEPT ![k] = key]
           /\ command' = [command EXCEPT ![c] = cmd]

Stored(c) == IF provider = "file" THEN command[c].view ELSE store
Steps(c, pc) == [command[c] EXCEPT !.pc = pc]
KeepRest == UNCHANGED <<provider, day, service, jwks, issued, since, overlapped, hasty>>

\* create: an RSA key in the file, or CreateKey and a row.
Create(c) ==
    /\ command[c].pc = "create"
    /\ \E k \in Kids \ Known(store) :
         /\ \A d \in Commands : command[d].view[k].status = "NONE"
         /\ Put(c, k, [NoKey EXCEPT !.status = command[c].status], Steps(c, "save"))
    /\ UNCHANGED <<scheduled, revokedKids>> /\ KeepRest

\* Mutant: the new key is activated before the old one is demoted.
DemoteLast(c) ==
    /\ command[c].pc = "demote"
    /\ IF Stored(c)[command[c].kid].status # "ACTIVE"
         THEN Put(c, command[c].kid, [Stored(c)[command[c].kid] EXCEPT !.status = "ACTIVE"],
                  command[c])
         ELSE \E k \in command[c].demote :
                Put(c, k, [Stored(c)[k] EXCEPT !.status = "RETIRING"], Steps(c, "promote"))
    /\ UNCHANGED <<scheduled, revokedKids>> /\ KeepRest

\* activate: every key listed as ACTIVE becomes RETIRING ...
Demote(c) ==
    /\ command[c].pc = "demote"
    /\ IF command[c].demote = {}
         THEN command' = [command EXCEPT ![c].pc = "promote"] /\ UNCHANGED store
         ELSE \E k \in command[c].demote :
                Put(c, k, [Stored(c)[k] EXCEPT !.status = "RETIRING"],
                    [command[c] EXCEPT !.demote = @ \ {k}])
    /\ UNCHANGED <<scheduled, revokedKids>> /\ KeepRest

\* ... and the key named becomes ACTIVE, whatever it is by now.
Promote(c) ==
    LET k == command[c].kid
    IN  /\ command[c].pc = "promote"
        /\ Put(c, k, [Stored(c)[k] EXCEPT !.status = "ACTIVE"], Steps(c, "save"))
        /\ UNCHANGED <<scheduled, revokedKids>> /\ KeepRest

RetireKey(c) ==
    LET k == command[c].kid
    IN  /\ command[c].pc = "retire"
        /\ Put(c, k, [Stored(c)[k] EXCEPT !.status = "RETIRED"], Steps(c, "save"))
        /\ UNCHANGED <<scheduled, revokedKids>> /\ KeepRest

RevokeKey(c) ==
    LET k == command[c].kid
    IN  /\ command[c].pc = "revoke"
        /\ Put(c, k, [status |-> "RETIRED", revoked |-> TRUE],
               Steps(c, IF provider = "kms" THEN "schedule"
                        ELSE IF command[c].status = "ACTIVE" THEN "replace" ELSE "save"))
        /\ revokedKids' = IF provider = "kms" THEN revokedKids \cup {k} ELSE revokedKids
        /\ UNCHANGED scheduled /\ KeepRest

ScheduleKeyDeletion(c) ==
    /\ command[c].pc = "schedule"
    /\ scheduled' = scheduled \cup {command[c].kid}
    /\ command' = [command EXCEPT ![c].pc = IF command[c].status = "ACTIVE" THEN "replace" ELSE "save"]
    /\ UNCHANGED <<store, revokedKids>> /\ KeepRest

\* The revoked key was ACTIVE: a key listed as NEXT takes its place, or a new one.
Replace(c) ==
    LET next == {k \in With(command[c].view, "NEXT") : ~command[c].view[k].revoked}
    IN  /\ command[c].pc = "replace"
        /\ IF next = {}
             THEN /\ command' = [command EXCEPT ![c] = [@ EXCEPT !.pc = "create", !.status = "ACTIVE"]]
                  /\ UNCHANGED store
             ELSE \E k \in next :
                    Put(c, k, [Stored(c)[k] EXCEPT !.status = "ACTIVE"], Steps(c, "save"))
        /\ UNCHANGED <<scheduled, revokedKids>> /\ KeepRest

\* save: the whole file as this command has it.
Save(c) ==
    /\ command[c].pc = "save"
    /\ store' = Stored(c)
    /\ revokedKids' = revokedKids \cup {k \in Kids : Stored(c)[k].revoked}
    /\ Exit(c)
    /\ UNCHANGED scheduled /\ KeepRest

CommandDies(c) ==
    /\ command[c].pc # "off"
    /\ Exit(c)
    /\ UNCHANGED <<store, scheduled, revokedKids>> /\ KeepRest

-----------------------------------------------------------------------------
(* The service and the relying party.                                      *)

\* Mutants: a key that signs no more is not loaded; a key with revoked_at is loaded
\* by its status.
UsableSigners(s) == {k \in Kids : s[k].status \in {"NEXT", "ACTIVE"} /\ ~s[k].revoked}
UsableByStatus(s) == {k \in Kids : s[k].status \notin {"NONE", "RETIRED"}}

\* findPublishableKms, or the filter of loadFile.
Usable(s) == {k \in Kids : s[k].status \notin {"NONE", "RETIRED"} /\ ~s[k].revoked}
ActiveKeys(s) == {k \in Usable(s) : s[k].status = "ACTIVE"}

\* The private key is still there, in the file or in KMS (KmsSigningKey).
Signs(k) == k \notin scheduled

\* loadForProvider: a start without exactly one ACTIVE key, or whose key does
\* not sign, fails.
Restart ==
    /\ service' = IF \E k \in Kids : ActiveKeys(store) = {k} /\ Signs(k)
                    THEN [active |-> CHOOSE k \in Kids : ActiveKeys(store) = {k},
                          published |-> Usable(store), revoked |-> revokedKids]
                    ELSE Down
    /\ since' = [k \in Kids |-> IF k \notin service'.published THEN 0
                                ELSE IF k \in service.published THEN since[k] ELSE day]
    /\ UNCHANGED <<provider, day, store, scheduled, command, jwks, issued, revokedKids, overlapped, hasty>>

\* signJws and the tokens of oidc-provider.
Sign ==
    /\ service.active # NoKid
    /\ Signs(service.active)
    /\ issued' = [issued EXCEPT ![service.active] = day]
    /\ UNCHANGED <<provider, day, store, scheduled, command, service, jwks, since, revokedKids,
                   overlapped, hasty>>

FetchJwks ==
    /\ service.active # NoKid
    /\ jwks' = [kids |-> service.published, fetched |-> day]
    /\ UNCHANGED <<provider, day, store, scheduled, command, service, issued, since, revokedKids,
                   overlapped, hasty>>

\* A copy is not kept longer than CacheTtl while the service answers.
DayPasses ==
    /\ day < MaxDay
    /\ service.active = NoKid \/ jwks.fetched = 0 \/ day < jwks.fetched + CacheTtl
    /\ day' = day + 1
    /\ issued' = [k \in Kids |-> IF day + 1 - issued[k] <= SessionTtl THEN issued[k] ELSE 0]
    /\ UNCHANGED <<provider, store, scheduled, command, service, jwks, since, revokedKids,
                   overlapped, hasty>>

CommandStep(c) ==
    \/ Generate(c) \/ Activate(c) \/ Retire(c) \/ Revoke(c)
    \/ Create(c) \/ Demote(c) \/ Promote(c) \/ RetireKey(c) \/ RevokeKey(c)
    \/ ScheduleKeyDeletion(c) \/ Replace(c) \/ Save(c) \/ CommandDies(c)

KeysNext == (\E c \in Commands : CommandStep(c)) \/ Restart \/ Sign \/ FetchJwks \/ DayPasses

KeysSpec == KeysInit /\ [][KeysNext]_keyVars

-----------------------------------------------------------------------------
(* Properties.                                                             *)

\* Every variable stays in its domain.
KeysTypeOK ==
    /\ provider \in {"file", "kms"}
    /\ day \in Nat
    /\ store \in KeyStore
    /\ scheduled \subseteq Kids
    /\ command \in [Commands -> Command]
    /\ service \in Service
    /\ jwks \in [kids : SUBSET Kids, fetched : Nat]
    /\ issued \in [Kids -> Nat]
    /\ since \in [Kids -> Nat]
    /\ revokedKids \subseteq Kids
    /\ {overlapped, hasty} \subseteq BOOLEAN

\* A service that starts after a revocation was stored neither publishes the
\* key nor signs with it; with kms even if another command overlapped and made
\* it ACTIVE again (findPublishableKms), with the file only if none did.
RevokedStaysOut ==
    provider = "kms" \/ ~overlapped => service.published \cap service.revoked = {}

\* Commands run one after the other never leave two ACTIVE keys, wherever one
\* of them died, so that one more command lets the service start again.
AtMostOneSigner == ~overlapped => Cardinality(ActiveKeys(store)) <= 1

\* A rotation with the waits of keys.ts:15-16 is not noticed: a relying party has
\* the key of every token that is still valid, be its copy of the JWKS as old as
\* it may or fetched this moment.
RotationIsUnnoticed ==
    ~hasty /\ ~overlapped =>
      \A k \in Kids : Valid(k) =>
        /\ jwks.fetched # 0 => k \in jwks.kids
        /\ service.active # NoKid => k \in service.published

\* verifyHint of LogoutService: an ID token is a hint for as long as a session can
\* live, if the running service still publishes its key.
verifyHint(k, iat) == day - iat <= SessionTtl /\ k \in service.published

\* "Its expiry is not held against it (a member signs out long after the 5-minute
\* ID token expired), but it must be younger than a session can live"
\* (logout.service.ts:187-188).  A rotation with the waits of keys.ts:15-16
\* retires the key after the life of a token, not of a session.
HintsAreAccepted ==
    ~hasty /\ ~overlapped /\ service.active # NoKid =>
      \A k \in Kids : issued[k] > 0 => verifyHint(k, issued[k])

=============================================================================
