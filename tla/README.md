# Verification of oidc_mfa_auth

This directory specifies the core of the sign-in service `oidc_mfa_auth` in TLA+: what it keeps in
PostgreSQL and Redis about members, applications and keys, and what happens to it when requests and
operators' commands overlap, processes die and time passes. TLC model-checks small instances of each module; TLAPS proves the most important
properties for all values of the constants. `PROJECT.json` lists the components, the runs, the
mutants that show each property can fail, the lines each definition models, the known hazards of the
code and the theorems.

Paths below are relative to `src/src/modules/`, repositories to `src/src/database/repositories/`.

## 1. Inventory

The service is one NestJS program, run as several instances that share PostgreSQL and Redis. Node runs
one callback at a time, so the unit of interleaving is the code between two `await`s. There are two
realms, ADMIN and MUMIN; every key, cookie and query carries the realm, so the modules look at one.

| Component | State | Operations | Talks to |
|---|---|---|---|
| Realm session (`sessions/global-session.service.ts`, `session.repository.ts`) | row `auth_sessions`; hot copy `sso:<realm>:<hash>` in Redis; cookie of the browser | `create`, `read`, `touch`, `upgradeToAal2`, `revoke`; `keys.ts revokeAllSessions` | called by interactions, handoff, logout |
| Sign-in interaction (`oidc/interaction.service.ts`) | grant, grant context, `sidgrants:<sid>`, row `auth_session_clients` | `show`, `login`, `verifyMfa`, `sendCode`, `abort`, `finish` | sessions, credentials, MFA, oidc-provider |
| Token store (`oidc/oidc-redis.adapter.ts`, `oidc/provider.factory.ts`) | `oidc:<model>:<id>`, list `oidc:grant:<id>` | `upsert`, `find`, `consume`, `destroy`, `revokeByGrantId`, `findAccount` | oidc-provider |
| Realm logout (`logout/logout.service.ts`) | none of its own | `start`, `confirm`, `perform`: `endSession`, `revokeGrants` | sessions, token store, logout queue |
| Logout queue (`logout/logout-delivery.worker.ts`, `logout.repository.ts`) | `logout_jobs`, `logout_deliveries`, participant status, the worker's `running`/`again` flags | `createJob`, `claimDue`, `record`; `kick`, `tick`, `deliver` | clients over HTTP |
| Second factor (`mfa/mfa.service.ts`, `mfa/totp.ts`, `mfa.repository.ts`, `src/scripts/mfa-add-factor.ts`) | `auth_otp_challenges`, `user_mfa_factors`, Redis counter and cooldown | `options`, `startOtp`, `verifyOtp`, `verifyTotpCode`, `isRequired`, `isFresh`; `mfa:add-factor` | adapters, rate limit |
| Trusted handoff (`handoff/handoff.service.ts`, `handoff.repository.ts`) | `handoff_requests`: PENDING, then COMPLETED, CANCELLED or EXPIRED; the paths a client may be handed to | `createRequest`, `open`, `login`, `verifyMfa`, `sendCode`, `abort`, `continue`, `deliver` | sessions, MFA, keys, participants |
| Credentials and lockout (`identity/credential.service.ts`, `login-attempt.repository.ts`) | `auth_login_attempts`; reads the synced user tables | `verifyPassword`, `loginGate`, `getActiveMember`, `record` | users tables |
| Signing keys (`keys/signing-key.service.ts`, `signing-key.repository.ts`, `scripts/keys.ts`) | `signing_key_metadata` or the key file, loaded key set of each instance | `generate`, `activate`, `retire`, `revoke`, `loadKms`, `signJws` | KMS |
| Rate limits and CSRF (`security/*`) | Redis counters `ratelimit:*`, `cooldown:*` | `hit`, `cooldown`, `verify` | Redis |
| Client authentication (`oidc/client-auth.service.ts`) | used `jti`s in Redis | `authenticate`, `privateKeyJwt` | registry |
| Client registry (`oidc/client-registry.service.ts`, `client.repository.ts`, the scripts `client:register`, `client:add-uri`, `client:handoff`) | `auth_clients`, `auth_client_callbacks`, `auth_client_handoff_paths` | `register`, `addCallback`, `configure`, `findMetadata` | oidc-provider, logout, handoff |
| Schema (`src/src/database/migrations/*`, `schema-guard.service.ts`) | the tables and columns, `oidc_mfa_auth_migrations` | `migration:run`, `migration:revert`, the guard at start-up | everything that uses the database |
| Audit, configuration, pages, adapters, test tooling | append-only or none | - | - |

### What is hard, and what must be right

* **Realm session.** Three holders of the same fact (row, hot copy, cookie) written by separate awaits.
  Any two requests of the browser overlap; a process dies between two writes; Redis expires or evicts;
  an operator sweeps all sessions meanwhile. It must never raise assurance, lengthen a session, lead a
  cookie to another session, or serve a session that was revoked.
* **Sign-in, tokens and logout.** `finish` writes six things one after the other, a logout reads and
  deletes the same things in another order. Whoever holds a token must be reachable by the logout of
  its session, and a logout must leave no token and forget no client.
* **Logout queue.** Several workers, leases, retries, crashes, lost answers. A client must be settled
  once, never reported as told when it was not; every delivery must settle; the job must close with the
  right verdict whichever delivery is recorded last.
* **Second factor.** Parallel guesses against one limit, one code submitted twice, codes of neighbouring
  time steps in either order, a request that dies inside the rate limiter.
  Two enrolments that overlap must leave the member with the factor that was asked for last.
* **Sign-in.** The lockout's durable count is read before the password is compared and written after
  it. The freshness of the second factor is asked twice, with two limits. The member's rows change
  under a session that is already there.
* **Handoff.** One of complete, cancel and expire must win, in however many tabs; a delivered handoff
  must not be delivered again; what the source asked for is checked long after against a session the
  browser brings; the target must be told of the logout of that session.
* **Token store.** The TTL of a grant's list is read outside the MULTI that extends it; a code is marked
  as consumed without asking whether it was.
* **Signing keys.** Commands of several updates that overlap or die in between; services and relying
  parties that hold an older set of keys must still verify what is valid.
* **Client registry and authentication.** Scripts and service must agree on what a usable client is; a
  one-time assertion must not verify after the key that remembers it expired.
* **Schema.** Three migrations on a database that may already have some of the tables and columns, run and
  reverted by commands that fail or overlap.

The hazards, each at its line, are in `PROJECT.json`.

## 2. Modules

```
LogoutDelivery   abstract: settle each client once, close with the verdict
   ^ implements (run queue_leased)
LogoutQueue      createJob, claimDue, tick/kick, deliver, record            <- LogoutQueueProofs
SessionLogout    finish, handoff join, token exchange, logout follow-up     <- SessionLogoutProofs
RealmSession     the two stores of a session and the browser's cookie       <- RealmSessionProofs

OtpChallenge     one-time codes sent by email or SMS                        <- OtpChallengeProofs
TotpFactor       codes of an authenticator app, and the Redis counter       <- TotpFactorProofs
Factors          mfa:add-factor, and what a member is challenged with       <- SignInProofs
SignIn           the pages from the password to the code, and the lockout   <- SignInProofs
   MCSecondFactor runs these four

Handoff          createRequest to the posted assertion                      <- HandoffProofs
   HandoffPath   the paths it may open

SigningKeys      the operator's keys command, the service, a relying party
TokenStore       the Redis adapter of oidc-provider
ClientAuth       private_key_jwt and its one-time assertions
   ClientRegistry   client:register, client:add-uri, the metadata
Schema           migrations and the start-up guard
   MCPlatform runs these five; PlatformProofs is about them

MC<Module>       symmetry and values for TLC
```

`EXTENDS` composes `ClientAuth` with the registry it reads and `Handoff` with the path rules;
`SessionLogout` composes sign-in, handoff join and logout. `MCSecondFactor` and `MCPlatform` put
components that share no state into one run: a variable `part`, chosen in the initial state and never
changed, says which one runs, and the others stand still, so that the states add up instead of
multiplying. Some parts are one component under a further constraint on its steps (`Guessing`,
`Assuring`, `Syncing`, `Commanding`, `Rotating`, `Calling`), each chosen for the question of its
properties. The slots of all parts are given the same model values, so that one symmetry serves all.

The other modules meet at narrow interfaces. A session is ACTIVE or REVOKED in `SessionLogout` and
`Handoff`, which is what `RealmSession` shows of it; the job that `SessionLogout` creates is the one that
`LogoutQueue` works off; a code verified in `OtpChallenge` or `TotpFactor` is `VerifyCode` in `SignIn` and
`VerifyMfa` in `Handoff`, and leads to `upgradeToAal2` in `RealmSession`; what `finish` answers is in
`SignIn`, what it writes in `SessionLogout`, what becomes of the code in `TokenStore`.

Every module keeps the source's names. In all of them an await ends a step: what a request read before
it lives in its record (`req`, `flow`, `logout`, `flights`, `visit`, `tab`, `call`, `command`) and may be
stale when it is used.

### RealmSession

`rows`, `hot` and `cookie` are the three holders; `req[r].pc` says at which await request `r` is;
`minted` is a history variable, the session each random secret was drawn for. `Begin` sends the
browser's cookie as it is at that moment. A request runs the calls its handler makes: `show` reads and
finishes with a touch; `login` creates, `verifyMfa` reads and upgrades, both then touch with the cookie
*the request came with* (`interaction.service.ts` passes its own `req`); logout and a lost membership
revoke. `LoadHot`, `LoadRow` and `LoadWarm` are the three awaits of `load`; `TouchHot`/`TouchRow`,
`UpgradeRow`/`UpgradeDel`/`UpgradeHot`, `RevokeDel`/`RevokeRow` the awaits of the other calls. The reply
sets or clears the cookie, in any order with other replies. `HotGone` is Redis forgetting a key,
`SweepRows`/`SweepDel` the operator's mass revocation, of which `SCAN` may miss a key written meanwhile,
and `SweepDies` its end between the UPDATE, which is committed, and the last DEL: `missed` is a history
variable, the sessions whose copies it did not get to. `CrashAllowed` is whether requests and sweeps die.

### SessionLogout

A flow is a sign-in or a handoff, a logout a request to `/logout`; each runs once. `Login` creates a
session, `Reuse` takes the one of the cookie. Then come the awaits of `finish` in their order:
`FindGrant`, `SaveGrant`, `SetContext`, `TagGrant`, `Join`, `Resume`; then oidc-provider, which is
external: it issues a code, exchanges it while it and the grant are there, and stores a token.
A logout runs `Load`, `Revoke`, `ReadGrants`, and for each grant `ListTokens`, `DeleteTokens`,
`DestroyGrant`, `DropContext`, then `Untag`, `ReadClients`, `CreateJob`, `Reply`. `FlowFails`,
`GrantFails`, `FollowUpFails` and `Dies` are the failing awaits, each caught where the code catches it.
`Overlap` chooses between requests that interleave and requests one after the other.

### LogoutQueue and LogoutDelivery

One ended session. `Claim` is the one transaction of `claimDue` (SKIP LOCKED, lease, attempt count);
`LookUp`, `Post`, `Answered`/`Unanswered` are the awaits of `deliver` (an answer may be lost after the
client took the message); `RecordRetry`/`RecordFinal`, `RecordPart` and `RecordJob` the statements of
`record`. `TickIdle`, `TickBusy`, `PassEnds` and `ClaimFails` are the worker's loop with its two
flags. `Crash` ends an instance and all its attempts. Times are the time left (0 is due).
`LogoutDelivery` says what a client and an operator may rely on; the refinement maps a delivery in
RETRY to a client that is still pending.

Assumption: an attempt ends within its lease, or its process dies. The lease (60 s,
`logout-delivery.worker.ts:9`) is longer than the HTTP timeout (5 s) by design; without the assumption
`record` would let a late outcome overwrite a newer one (`logout.repository.ts:87` updates by key only).

### OtpChallenge and TotpFactor

`OtpChallenge` has the awaits of `startOtp` (`Cool`, `CountSent`, `Create`, `Sent`/`SendFails`) and of
`verifyOtp` (`Find`, `Spend`, `Consume`). A submitted code is right or wrong; which member and session a
challenge is bound to is one pair here, so only the interaction is kept. `TotpFactor` has the awaits of
`verifyTotpCode`: `Hit` is `INCR`+`TTL` in one MULTI, `Expire` the separate EXPIRE, `Check` the window of
`verifyTotp`, `Accept` the conditional UPDATE of `acceptTotpStep`. A code is the time step it is for.
Both have one clock: the skew between PostgreSQL, Redis and Node is not modelled.

### Factors

`AddBegins`, `ClearDefaults`, `SaveFactor` and `AddedFactor` are BEGIN, the UPDATE that clears
`is_default`, the INSERT and COMMIT of the transaction in `mfa.repository.ts`, as PostgreSQL runs them at READ
COMMITTED: the UPDATE works on the rows its snapshot saw and waits for their locks; the INSERT waits
for, or fails on, the unique index of one default per member. BEGIN and the snapshot of the UPDATE are one
step. `options` and `preferred` are `MfaService.options`; a factor is usable when its channel has an
adapter and its destination can be decrypted. Nothing in the repository disables or removes a factor.

### SignIn

`visit` holds the requests in progress. `VisitBegin` is the start of `show`, `login` or `verifyMfa`, with
what the client asks for (`isRequired`, `mfa_max_age`); `FindLoginAccount`, `ReadFailures`, `Compare`,
`RecordWrong`, `CheckEligible`, `RecordSuccess` the awaits of `verifyPassword` and `loginGate`;
`SignedIn` is `create` with `afterPrimary`; `VerifyCode`, `UpgradeSession`, `Finish` the rest of
`verifyMfa`. `wrongs` is `auth_login_attempts` since the last success. `Sync` is the sync service
changing the member's rows. An insert that fails is logged and forgotten (`lost`). With `LOGIN_ELIGIBILITY_CHECK_ENABLED=false`, `eligible` is TRUE.
The clock runs in parts of a second (`Second`, `Minute`): `NearestSecond` is the cast of `seconds_since_last`
(`::int` rounds), `retryAfter` what `lockedFor` makes of it, `minutes` what the page says. The awaits of the
audit are not steps.

Assumption: a request takes no longer than `MFA_MAX_AGE_SECONDS` from `upgradeToAal2` to `finish`
(`StallWithinCap`). One that does gets an acr of AAL1 although the client asked for AAL2.

### Handoff and HandoffPath

`CreateRequest` is the API call, `Configure` the script `client:handoff`, `LogOut` the realm logout as it
is seen from here. `FindPending`, `FindTarget`, `ReadSession`, `Login`, `VerifyMfa`, `Upgrade`, `Cancel`,
`Continue`, `Deliver`, `SignJws`, `Complete`, `JoinTarget` and `PostAssertion` are the awaits of `open`,
`login`, `verifyMfa`, `sendCode` and `abort` in each tab; each tab carries the cookie it came with, and
`late` says that the logout of its session came between reading it and joining it.

`HandoffPath` has `normalizeRelativePath` and `isAllowedPath` as operators. A path is a sequence of raw
segments; a segment is one of a few texts that differ in how they decode (`%2e%2e`, `a%2Fb`, `%2Fa`,
`%5C`, `%zz`) and in what the checks look for. `StaysInside` is the reference definition: what a browser
or a router makes of the decoded path.

### SigningKeys

`store` is the key file or `signing_key_metadata`; the provider is chosen in the initial state. A command
(`Generate`, `Activate`, `Retire`, `Revoke`) reads, changes key by key (`Create`, `Demote`, `Promote`,
`RetireKey`, `RevokeKey`, `ScheduleKeyDeletion`, `Replace`) and ends with `Save`: with the file all
changes are made on a copy that `Save` writes whole, with KMS each is an UPDATE of its own.
`CommandDies` ends it anywhere. `Restart` is `loadForProvider`; `Sign`, `FetchJwks` and `DayPasses` are the
service and a relying party whose copy of the JWKS is at most `CacheTtl` old. `hasty` says that a step of
the rotation did not wait as `src/scripts/keys.ts:15-16` documents, or that a key was revoked or made
ACTIVE at once, and `overlapped` that two commands ran at the same time.

### TokenStore

`key` and `list` are `oidc:<model>:<id>` and `oidc:grant:<id>`, each with its TTL. `ReadTtl` and `Exec` are
`upsert` (TTL, then MULTI), `Exchange` and `consume` the token endpoint, `ReadList` and `DeleteListed`
`revokeByGrantId`. `HSET` on a code that was deleted meanwhile leaves a key without payload. TTLs are in
whole units; the rounding below a second is not modelled.

### ClientRegistry and ClientAuth

`Register` is `client:register` in its one transaction, `AddCallback`/`AddCommits` what the transaction of
`client:add-uri` reads and writes, `HasMetadata` what `toMetadata` accepts, `Suspend` an administrator.
Rows older than this service, without realm or method, are in the initial states. `Present` is
`privateKeyJwt` up to `jwtVerify`, `SetNx` the Redis key that remembers the `jti`; copies of an
assertion are presented at any time.

Assumption: from `jwtVerify` to `SET NX` a call stalls no longer than the key's slack exceeds the
clock tolerance (60 s against 30 s, `SlackCovers`).

### Schema

A table is the set of its columns, `"base"` the ones of its CREATE TABLE. `up` and `down` are the three
migrations, `RunReads`/`RunCommits` and `RevertReads`/`RevertCommits` the TypeORM commands: the history is
read, then one transaction applies all that is pending or undoes the last. `SchemaReady` is the guard.
`found` is what was there before: `FoundSchemas` are databases with tables of core-authentication, and with
columns and tables the migrations would add themselves, up to all of them; `reverted` is a history of
`migration:revert`. Column types, checks and indexes
are not modelled.

## 3. Runs

| Run | Question | Bounds |
|---|---|---|
| `session_concurrent` | do the stores stay consistent when requests, evictions and a sweep overlap? | 2 requests at once, 2 sessions, 3 secrets, clock to 2 |
| `session_serial` | does a revocation, a rotation or a flush end what it should when requests and sweeps do not overlap but may die? | 1 request at a time, any number in sequence, 2 sessions, 4 secrets, clock to 4 |
| `session_revoke_race` | is a revoked session dead with overlapping requests? (violated) | 2 requests, 1 session |
| `queue_leased` | does the queue implement `LogoutDelivery`, one attempt at a time, and settle every job? | 2 instances that take 2 deliveries at a time, 2 clients, 1 fault, 4 attempts |
| `logout_overlap` | is whoever is served listed, and its grant found from the session? | 2 sign-ins, 2 logouts, 2 sessions, 2 clients, 2 grants |
| `logout_serial` | is a logout complete when nothing overlaps? | 3 sign-ins, 2 logouts, 1 failed await anywhere, the member may lose access |
| `logout_signin_race` | does a logout end all tokens when a sign-in is finishing? (violated) | 2 sign-ins, 1 logout |
| `logout_died` | does a failed logout still reach the clients? (violated) | 1 sign-in, 2 logouts, 1 fault |
| `second_factor` | do codes, limits, the lockout, the freshness of AAL2 and the choice of the factor hold when requests and enrolments overlap? | see below |
| `handoff_tabs` | does one assertion leave, for the right realm and assurance, to a target that will be told of the logout? | 2 tabs, 1 request, 2 sessions, 3 clients, 2 realms, 4 paths, clock to 3 |
| `platform` | do keys, tokens, clients, assertions and the schema stay right when commands and calls overlap or die? | see below |
| `keys_hint` | is an ID token a logout hint for as long as its session may live? (violated) | 2 keys, 1 command, clock to 5 |

`second_factor`, by part: `otp` 2 requests, 2 interactions, 3 challenges, 2 attempts, cap 1, clock to 2;
`totp` 2 submissions at once on 2 pages, 2 tries, 2 steps, window 2, 4 hits, 1 death; `factors` 2 commands
at once of 3, email only, default SMS; `lockout`, `assurance`, `sync` 2 requests (1 in `sync`), 2 failures
allowed, 2 sessions, 1 lost write, a clock of half seconds to 5, lock of 4, a cap of 2, and asked ages of 0
(none), 1 and 3 (shorter and longer than the cap), stall 1. A minute of the page is one second there: a
longer one only adds to the wait, so this is the hardest case. `assurance` ends with its first answer.

`platform`, by part: `commands` and `rotation` 3 keys, 2 commands, tokens of 1, sessions of 3, JWKS of 1,
clock to 5; `store` 2 codes, 2 tokens, 1 grant, 2 calls, lives 1 and 2, clock to 4; `registry` 1 client, 2
URIs, 2 editors; `calls` 2 assertions, 2 callers, lives 1 and 3, tolerance 1, slack 2, pause 1, clock to 8;
`schema` 2 operators, five databases found.

**Why the bounds are enough.** The properties relate two actors: a writer and a stale writer, a logout
and a sign-in, two workers, two guesses, two tabs, two commands. Two of each, over two sessions (so that a
mix-up between sessions is possible) and enough secrets, keys or factors for two changes after the first,
reach each conflict; the mutants confirm that each property can fail within the bounds. Clocks run past
every lifetime of the instance. `RetrySchedule` has fewer entries than the default, but more than one, so
that retries, the last retry and DEAD all happen. `MaxAttempts`, `MaxHits`, `MaxTime`, `MaxInFlight`,
`MaxFaults`, `MaxTries`, `MaxLost`, `MaxFactors`, `LastSecond`, `LastInstant`, `MaxDay`, `MaxNow`
and the sizes of the id sets are bounds of the models, not of the code; each is named where it is
declared. Where what may happen is finite (one-time ids, a clock that ends) the model ends, and deadlock is
not checked: `SessionLogout`, `MCSecondFactor`, `Handoff`, `MCPlatform`, `keys_hint`. It is checked in the
others. In `session_concurrent` requests do not die (the run would take too long); that the stores stay
consistent when they do is proved (section 5), and `session_serial` checks what a dying request leaves.

Some properties are stated up to what the code does not keep together, and say so: `logout_serial` for
executions in which no await failed (`logout_died` shows why), `LiveArtifactsAreListed` for an upsert that
was alone on its grant, `CodeBuysOnce` for exchanges that did not race, `GuessesNearLimit` and
`SentNearCap` with the overshoot that overlapping requests can reach, `TargetIsToldOfLogout` for requests
that were not late, the properties of the keys for commands that did not overlap, `RevokedNotServable` but for
what a sweep that died has missed, `SchemaFollowsHistory` but for what a reverted migration also drops,
`ToldWaitSuffices` with half a second more than the page says. In each but the last the exception is a history variable that the source's interleaving sets, not a guard on what
may happen.

The type invariant of each module is proved, so no run spends itself on one; those of `Factors` and
`Schema` stand with their proofs.

**Fairness** (`LogoutQueue!FairSpec` only). Each instance's timer fires again and its pass goes on (WF of
`Pass`), the database answers and `fetch` ends at its timeout (WF of the attempts of a client), and time
passes (WF of `Elapse`). Nothing obliges a fault, a crash or a logout to happen, and faults are bounded:
an instance that crashes for ever delivers nothing. A crashed instance is restarted (its timer fires
again), as the container is.

## 4. What disagrees with the code's own words

Four runs are expected to be violated; each shows an execution of the code that a comment or the
README rules out. The `findings` of `PROJECT.json` quote the words.

* `session_revoke_race`: `load` or `touch` of an overlapping request writes the hot copy back after a
  logout deleted it; the revoked session is served until that key expires.
* `logout_signin_race`: a sign-in that is finishing saves or tags its grant after the logout looked; its
  token works after the logout.
* `logout_died`: the session is revoked first, the job created last; what fails in between is never
  taken up again, and a second logout finds no session.
* `keys_hint`: a rotation that waits for the life of a token retires the key of ID tokens that are still
  hints for the life of a session; the logout is then refused.

More, met while modelling and without a run:

* Two logouts that both loaded the session queue two jobs (`logout.entity.ts:7` says one per revoked session;
  `revoke` drops the answer of the conditional update at `session.repository.ts:58`).
* `show` and the handoff's `open` revoke the session of a member who lost access without any of the
  follow-up of a logout (`SessionLogout!RevokeGone`, `Handoff!ReadSession`).
* The hourly cap of codes is exceeded by overlapping requests, by fewer than there are of them
  (`SentNearCap` is the bound that does hold); so is the lockout (`GuessesNearLimit`).
* `handoff-path.ts:8-9` says the decoded path is matched; the code decodes it for its checks and matches
  the raw one.
* `handoff.service.ts:45` says realm logout reaches the target too. It does not when the logout comes
  between the request's read of the session and its join (`late`).
* The page may say a wait that ends up to half a second before the lock (`login-attempt.repository.ts:42`).
* A `revoke --revoke-sessions` that dies in its Redis part leaves the revoked sessions served from their hot
  copies; `keys.ts:141` says these must go too. A second sweep repairs it.
* Two exchanges that both read a code before either marked it both get a token (`raced`);
  `oidc-redis.adapter.ts:9-10` says `consume` marks codes atomically and a second use is rejected.
* `down` of a migration drops the columns and tables that `up` found and did not add; the first one says at
  `:224` that it removes only what it added, and at `:14-15` that running it on a database that has some of
  them is safe. `SchemaFollowsHistory` says what does hold, with `reverted` as its exception.
* Two overlapping `client:add-uri` can leave two back-channel logout URIs, where the second was to replace
  the first (`client.repository.ts:37-38` says a client has at most one).
* A revert under a running service is not noticed: the guard runs at start-up only.
* An operator who recovers from an `activate` that died by `generate` gets an ACTIVE key that no relying
  party has seen (`hasty`).
* A second authenticator app added without `--default` never verifies: `verifyTotpCode` takes the first
  TOTP factor. Of two email factors only the first can be chosen, for an option is found by its method.

## 5. Proofs

TLAPS checks every theorem for all values of the constants that satisfy the named assumptions: sentinels
are outside their sets, limits are natural numbers (positive where zero means nothing), `Submits` and
`Visits` are finite because requests are counted, and the two assumptions on time of section 2. What a
theorem assumes beyond them stands in its `ASSUME`: `MaxInFlight = 1`, `Overlap = FALSE` or a finite
`Requests`. Every invariant and action property of the passing runs is stated by a theorem; the runs show
it on a small instance and, by their mutants, that it can fail.

None of the properties is inductive. They speak of the stores, while a request carries copies between them;
each invariant below adds what a request may know at each await.

**RealmSessionProofs**, requests that overlap: `SecretNamesSession`, `AssuranceBacked`,
`CurrentCopyExact`, `LifetimeFixed`, `ServedWithinLifetime`, `RowsForward` and `TypeOK`. `Inv` says that
a secret drawn but not yet written is in nobody else's hands (`Private`, `Inserting`), that every secret in
use was drawn (`Known`), and that the session a request or a hot key holds agrees with its row in all that
never changes, and claims no more assurance than the row (`HotCopies`, `Requesting`, `Stepping`). `LetGo`
covers the many steps that end or pass on a request without touching a store. The action properties follow
from `Inv` step by step.

With one request or sweep at a time (`MaxInFlight = 1`): `RevokedNotServable`, `ReplacedSecretDead` and
`DurableIdleBehind`; `session_revoke_race` shows that the first needs it. `Serial` says what the stores owe
each other between any two awaits: a session has at most one copy (`OneCopy`), of a row that is ACTIVE
unless the request at work is revoking it, or a sweep that died has missed it (`OfUsable`), never behind
its row's deadline (`Behind`, `Slid`), and under an old secret only while no browser holds the new one
(`Hidden`); and what the request at work has read is still so (`Unaware`, `Holds`). A request may die at any await, so these hold of half-done
work too. A sweep may die as well: what is said of ACTIVE rows is then said of rows that are ACTIVE or
missed (`Usable`).

**SessionLogoutProofs**, anything overlapping and failing: `JoinedBeforeServed` and `FoundFromSession`.
`Inv` follows the order of the awaits of `finish`: who is past `TagGrant` is tagged (`Findable`), who is
past `Join` or has an artifact is listed (`Listed`), and a logout forgets a tag only after its session was
revoked (`RevokedFirst`). `NamedSessionListsClient` is about an ID token, which names whatever session the
grant's context has by then. `Naming` says whose that can be: the flows of a grant are of one client
(`OneClient`, for a grant is shared only through the provider's session for a client, `OfClient`, and a
new grant has no context, `OfFlow`), and until an await fails, each session named by a token or a context
lists that client or a flow is on its way to the join (`WillList`).

Without overlap (`Overlap = FALSE`): `LogoutEndsTokensUnlessFailed` and `EveryClientQueuedUnlessFailed`;
`logout_signin_race` shows that the first needs it. `Serial` follows `revokeGrants`: the grants on which
the working codes and tokens of the session hang are among those still to revoke (`Chased`), the clients
among those read or queued (`Counted`). They do not come back: a flow works on an active session
(`Works`), and saves a grant that is live or no other's (`Unused`).

**LogoutQueueProofs.** `OneAttemptAtATime`, `ParticipantAgrees`, `TypeOK`, and `Implements`: every initial
state of the queue is one of `LogoutDelivery`, every step a step or a stutter of it. `Inv` says that an
attempt whose outcome is not recorded holds the lease of an open delivery, and that a recorded outcome
is final (`Leasing`), so that no two attempts are of one delivery (`Alone`); that a message that was
answered has reached its client (`Reached`); and that a retry is recorded only while the schedule has an
entry for it (`Retriable`). The refinement maps RETRY to pending; its one hard step is the record that
settles the last delivery, which must find the verdict of all of them.

**OtpChallengeProofs.** `OneWinPerCode` and `GuessesWithinLimit`: a challenge that verified a request is
used (`Closed`), comparisons and spent attempts agree (`Counted`), a row not yet made is blank (`Blank`),
a request names a row that was made (`Naming`). `SentNearCap`, for a finite set of requests: the codes of the
hour and the requests past the count that have no row yet are together below cap and requests (`Sending`),
as each of these may still add one but counted fewer than the cap.

**TotpFactorProofs.** `OneWinPerStep`: each step that verified a request is at or below the last step
used (`Spent`). `LimitIsTimed`: a counter without a TTL counts at most the requests that died or are about
to set one; proved by following the set of requests between INCR and EXPIRE.

**SignInProofs.** `AssuranceAsAsked` and `MemberWasAllowed`: whatever the member's rows say now, each
request in progress has seen (`Seeing`), and what it is past was so at some moment of it (`Checked`); a
finish comes within the stall of its upgrade (`Upgrading`). `GuessesNearLimit`: since any moment, what was
guessed was written, was lost or is about to be (`Matched`), and the failures that count with the requests
past the lockout stay below limit and requests (`Bounded`). `ToldWaitSuffices`: the wait was told for the
last of the failures there are (`ToldInv`), and is at most half a second short of it (`WaitRounded`), and
the lock needs `MaxFailures` of them to count.
`LastDefaultIsAsked`: a command that may commit has cleared every default there is, and no other such command
may commit before it (`Clearing`); the row locks and the unique index give that only together.

**HandoffProofs.** `OneAssertionPerRequest`, `AssertionWithinRealm`, `AssertionIsBacked`,
`TargetIsToldOfLogout` and `HandoffTypeOK`. A tab works for a session of the realm of its row, and has read
of it only what is still so (`Grounded`); what a signed assertion claims held when it was signed
(`Backed`); a tab past `Complete` is the only winner of its row and has posted nothing yet (`Winner`,
`OneWinner`); a tab that read a session that has ended since was late (`Listed`). `PathsStayInside` holds
for any sequence of segments: a path that is accepted names no other host and no scheme and has no segment
that a browser would take out (`OnHost`). What decoding and resolving compute is proved by induction over the
sequences, stated over sets: a set of numbers has a least element (`WFMin`).

**PlatformProofs.**

* `RegisteredIsUsable`: a row with a realm has a callback and key material, and an edit in progress
  replaces back-channel URIs only. `OncePerAssertion`: the key of an accepted assertion outlives it by the
  slack (`UsedInv`), and a call about to set it verified no longer ago than it may stall (`CallerInv`).
* `CodeBuysOnce`: a code that a call has spent or is about to is consumed or gone, and there is at most one
  such call (`Purchase`, `Spent`), unless two raced. `LiveArtifactsAreListed`: what a call has read of a
  grant's list is what the list must still be when it writes (`ReadWell`), unless it was mixed with another.
* `RevokedStaysOut`: a revoked key is marked in the store and in the copy a command works on (`RevokedInv`).
  `AtMostOneSigner`: what a lone command found when it started is still so at each of its writes (`Ready`).
  `RotationIsUnnoticed`: a key that signs, has signed or is about to (`Trusted`) is with the service and
  the relying party, as one the relying party lacks was first published after its copy was fetched and
  the copy is not old yet (`Fresh`); no command takes away a key that is needed (`Careful`).
* `SchemaFollowsHistory`: what is there is what the recorded history brings and nothing else that was not
  found (`Follows`), also between reading the history and the commit, as a migration that does not make the
  first tables finds them (`JobInv`); what was found and is not there any more was a reverted migration's
(`FoundKept`). It holds for any found database whose tables have their CREATE TABLE
  columns (`FoundAssumption`).

**Model-checked only.** `JobSettles`, the liveness of the queue, is out of the prover's reach, and so is that
the fair specification of the queue lets every fair step happen (`ENABLED`). The violated runs are
counterexamples and have nothing to prove.

## 6. Not modelled

* OTP delivery adapters (a send succeeds or throws), rendering and routing, audit inserts (nothing reads
  them), configuration, start-up and health checks (the constants stand for them; only the schema guard and
  the loading of keys are modelled), test drivers and demonstration clients.
* The cryptography and the encodings: SHA-256 and HMAC are taken as injective, random ids as fresh, the
  legacy password cipher, base32, the TOTP arithmetic and the comparison of client secrets as a code or
  password that is right or wrong. A CSRF token is a pure HMAC check.
* In modelled components: the parameter checks of `/logout`; the adapter's look-ups by uid and user code;
  the limit per IP address; the awaits of the audit; a key file that is torn by a dying write, and the
  metadata rows the file provider also keeps.
* oidc-provider, PostgreSQL, Redis and TypeORM's runner are external. A single statement or MULTI is
  atomic; oidc-provider is what the adapter sees of it.

## 7. Plan

The components whose state matters are modelled, and every safety property the runs check is proved. Left,
most important first:

1. Name in theorems what holds with overlap where `MaxInFlight = 1` or `Overlap = FALSE` is assumed: which
   copies a late `touch` can bring back, and which grants a sign-in that is finishing can leave.
2. Action properties about the logout follow-up: a grant that was destroyed is saved again only by a flow
   that found it before.
3. Shorter proofs of `LiveArtifactsAreListed` and `RotationIsUnnoticed`, with the frame lemmas they share.
