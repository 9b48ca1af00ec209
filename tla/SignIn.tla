------------------------------- MODULE SignIn -------------------------------
(***************************************************************************)
(* The sign-in pages, of InteractionService and the CredentialService      *)
(* under it: one member signs in from one browser while others guess the   *)
(* password, and the sync service changes the member's rows.  Requests     *)
(* overlap; every await is a step.                                         *)
(*                                                                         *)
(* Whether a code of the second factor is right is OtpChallenge's and      *)
(* TotpFactor's; how a session is stored is RealmSession's; what finish    *)
(* writes besides its answer is SessionLogout's.  A request refused by     *)
(* CSRF or by the limit per IP address changes nothing here.               *)
(***************************************************************************)
EXTENDS Integers, Sequences, FiniteSets, FiniteSetsExt

CONSTANTS
    Visits,        \* slots for requests that overlap
    MaxFailures,   \* LOGIN_MAX_FAILURES_PER_ACCOUNT
    Second,        \* a second, in units of the clock
    Minute,        \* a minute as the pages count it, in units of the clock
    LockTime,      \* LOGIN_ACCOUNT_LOCK_SECONDS
    MfaCap,        \* MFA_MAX_AGE_SECONDS
    AskedAges,     \* mfa_max_age of authorization requests; 0: none
    MaxStall,      \* bound: how long a request takes from upgrade to finish
    MaxSessions,   \* bound on the sessions created
    MaxLost,       \* bound on the attempts that could not be written, in a LockTime
    LastInstant     \* bound on the clock

ASSUME SignInLimits ==
    /\ {MaxFailures, Second, Minute, LockTime, MfaCap} \subseteq Nat \ {0}
    /\ {MaxStall, MaxSessions, MaxLost, LastInstant} \subseteq Nat
    /\ AskedAges \subseteq Nat
\* A request that takes longer gives a client that asked for AAL2 an acr of AAL1.
ASSUME StallWithinCap == MaxStall <= MfaCap
ASSUME VisitsAssumption == IsFiniteSet(Visits)

VARIABLES
    clock,     \* the clock
    standing,   \* users and mumin_master: no active member, one with allow_login = false, or one
    eligible,   \* user_eligible lists the member, or nobody asks
    wrongs,     \* auth_login_attempts: the wrong passwords since the last success
    core,       \* the realm session of the browser; id 0: none
    visit,      \* the requests in progress
    guesses,    \* history: when a password was compared and wrong, since the last success
    lost,       \* history: when one of those could not be written
    told,       \* history: when the wait of the last locked page ends; 0: a failure came since
    code        \* history: the last answer of finish

signInVars == <<clock, standing, eligible, wrongs, core, visit, guesses, lost, told, code>>

Session == [id : 0..MaxSessions, aal : {1, 2}, mfaAt : Nat]
NoSession == [id |-> 0, aal |-> 1, mfaAt |-> 0]

VisitPcs == {"off", "account", "lock", "compare", "wrong", "eligible", "success", "create",
             "verify", "upgrade", "finish"}
Visit == [pc : VisitPcs, kind : {"off", "show", "login", "mfa"}, asks : BOOLEAN, age : Nat,
          session : Session, barred : BOOLEAN, sawOpen : BOOLEAN, sawEligible : BOOLEAN]
NoVisit == [pc |-> "off", kind |-> "off", asks |-> FALSE, age |-> 0, session |-> NoSession,
            barred |-> FALSE, sawOpen |-> FALSE, sawEligible |-> FALSE]

Code == [given : BOOLEAN, asks : BOOLEAN, age : Nat, acr : {1, 2}, mfaAt : Nat, at : Nat,
         kind : {"off", "show", "login", "mfa"}, sawOpen : BOOLEAN, sawEligible : BOOLEAN]
NoCode == [given |-> FALSE, asks |-> FALSE, age |-> 0, acr |-> 1, mfaAt |-> 0, at |-> 0,
           kind |-> "off", sawOpen |-> FALSE, sawEligible |-> FALSE]

SignInInit ==
    /\ clock = 1
    /\ standing = "open" /\ eligible = TRUE
    /\ wrongs = <<>>
    /\ core = NoSession
    /\ visit = [v \in Visits |-> NoVisit]
    /\ guesses = <<>> /\ lost = <<>>
    /\ told = 0
    /\ code = NoCode

Onto(v, pc) == visit' = [visit EXCEPT ![v].pc = pc]
Leave(v) == visit' = [visit EXCEPT ![v] = NoVisit]

-----------------------------------------------------------------------------
(* MfaService.                                                             *)

\* Mutant: the platform's cap is not applied.
effectiveMaxAgeAsked(age) == IF age > 0 THEN age ELSE MfaCap

effectiveMaxAge(age) == IF age > 0 /\ age < MfaCap THEN age ELSE MfaCap

Fresh(s, age) == s.aal = 2 /\ clock - s.mfaAt <= age

-----------------------------------------------------------------------------
(* show, login and verifyMfa begin: the context of the interaction, and    *)
(* for show and verifyMfa the session.                                     *)

\* asks: isRequired, by the client or a policy; only then the age asked for matters.
VisitBegin(v) ==
    /\ visit[v].pc = "off"
    /\ \E kind \in {"show", "login", "mfa"}, asks \in BOOLEAN, age \in AskedAges \cup {0} :
         /\ kind # "login" => core.id # 0
         /\ ~asks => age = 0
         /\ visit' = [visit EXCEPT ![v] =
                        [pc |-> "account", kind |-> kind, asks |-> asks,
                         age |-> age,
                         session |-> IF kind = "login" THEN NoSession ELSE core,
                         barred |-> FALSE, sawOpen |-> standing = "open", sawEligible |-> eligible]]
    /\ UNCHANGED <<clock, standing, eligible, wrongs, core, guesses, lost, told, code>>

\* finish: what the client is told, by the session as this request knows it.
\* isFresh is asked again, with the cap of the platform.
Answer(v, s) ==
    LET acr == IF Fresh(s, MfaCap) THEN 2 ELSE 1
    IN  /\ code' = [given |-> TRUE, asks |-> visit[v].asks, age |-> visit[v].age, acr |-> acr,
                    mfaAt |-> s.mfaAt, at |-> clock, kind |-> visit[v].kind,
                    sawOpen |-> visit[v].sawOpen, sawEligible |-> visit[v].sawEligible]
        /\ Leave(v)

\* afterPrimary: the page of the second factor, or finish at once.
AfterPrimary(v, s) ==
    IF visit[v].asks /\ ~Fresh(s, effectiveMaxAge(visit[v].age))
      THEN Leave(v) /\ UNCHANGED code
      ELSE Answer(v, s)

\* The member lost access: show revokes the session, verifyMfa only turns away.
TurnAway(v) ==
    /\ Leave(v)
    /\ core' = IF visit[v].kind = "show" /\ core.id = visit[v].session.id THEN NoSession ELSE core

-----------------------------------------------------------------------------
(* getActiveMember, and the checks of verifyPassword around the password.  *)

\* Mutant: verifyMfa trusts the member of the session.
FindLoginAccountOnce(v) ==
    /\ visit[v].pc = "account"
    /\ CASE visit[v].kind = "mfa" -> Onto(v, "verify") /\ UNCHANGED core
         [] visit[v].kind = "login" /\ standing # "gone" ->
              visit' = [visit EXCEPT ![v].pc = "lock", ![v].barred = standing = "barred"] /\ UNCHANGED core
         [] visit[v].kind = "show" /\ standing = "open" -> Onto(v, "eligible") /\ UNCHANGED core
         [] OTHER -> TurnAway(v)
    /\ UNCHANGED <<clock, standing, eligible, wrongs, guesses, lost, told, code>>

\* findLoginAccount.  verifyPassword looks at allow_login after the password only.
FindLoginAccount(v) ==
    /\ visit[v].pc = "account"
    /\ CASE visit[v].kind = "login" /\ standing # "gone" ->
              visit' = [visit EXCEPT ![v].pc = "lock", ![v].barred = standing = "barred"] /\ UNCHANGED core
         [] visit[v].kind # "login" /\ standing = "open" -> Onto(v, "eligible") /\ UNCHANGED core
         [] OTHER -> TurnAway(v)
    /\ UNCHANGED <<clock, standing, eligible, wrongs, guesses, lost, told, code>>

\* isEligible, of loginGate.
CheckEligible(v) ==
    /\ visit[v].pc = "eligible"
    /\ CASE ~eligible -> TurnAway(v) /\ UNCHANGED code
         [] eligible /\ visit[v].kind = "login" -> Onto(v, "success") /\ UNCHANGED <<core, code>>
         [] eligible /\ visit[v].kind = "mfa" -> Onto(v, "verify") /\ UNCHANGED <<core, code>>
         [] OTHER -> AfterPrimary(v, visit[v].session) /\ UNCHANGED core
    /\ UNCHANGED <<clock, standing, eligible, wrongs, guesses, lost, told>>

-----------------------------------------------------------------------------
(* verifyPassword: the lockout and the password.                           *)

\* created_at > now() - interval.
recentFailures(rows, t) == {i \in DOMAIN rows : rows[i] > t - LockTime}

\* Mutant: one failure too many.
LockedAfter(failures) == Cardinality(failures) > MaxFailures

Locked(failures) == Cardinality(failures) >= MaxFailures

\* EXTRACT(EPOCH FROM ...)::int rounds an age to the nearest second, a tie to either.
NearestSecond(age) == {r \in {Second * n : n \in 0..age} :
                         2 * (r - age) <= Second /\ 2 * (age - r) <= Second}

\* lockedFor: a second at least.
retryAfter(age) == {IF LockTime - r < Second THEN Second ELSE LockTime - r : r \in NearestSecond(age)}

\* minutes: the page rounds a wait up.
minutes(wait) == {m \in {Minute * n : n \in 0..wait} : wait <= m /\ m < wait + Minute}

\* Mutant: the wait is counted from the first of the failures.
ReadFailuresFirst(v) ==
    LET failures == recentFailures(wrongs, clock)
    IN  /\ visit[v].pc = "lock"
        /\ IF Locked(failures)
             THEN /\ \E wait \in retryAfter(clock - Min({wrongs[i] : i \in failures})) :
                       \E m \in minutes(wait) : told' = clock + m
                  /\ Leave(v)
             ELSE Onto(v, "compare") /\ UNCHANGED told
        /\ UNCHANGED <<clock, standing, eligible, wrongs, core, guesses, lost, code>>

\* recentFailures and lockedFor: the wait is counted from the last failure.
ReadFailures(v) ==
    LET failures == recentFailures(wrongs, clock)
    IN  /\ visit[v].pc = "lock"
        /\ IF Locked(failures)
             THEN /\ \E wait \in retryAfter(clock - Max({wrongs[i] : i \in failures})) :
                       \E m \in minutes(wait) : told' = clock + m
                  /\ Leave(v)
             ELSE Onto(v, "compare") /\ UNCHANGED told
        /\ UNCHANGED <<clock, standing, eligible, wrongs, core, guesses, lost, code>>

\* The legacy password is decrypted and compared.
Compare(v) ==
    /\ visit[v].pc = "compare"
    /\ \/ guesses' = Append(guesses, clock) /\ Onto(v, "wrong")
       \/ /\ IF visit[v].barred THEN Leave(v) ELSE Onto(v, "eligible")
          /\ UNCHANGED guesses
    /\ UNCHANGED <<clock, standing, eligible, wrongs, core, lost, told, code>>

\* An attempt is not written.
Forgotten ==
    /\ Cardinality(recentFailures(lost, clock)) < MaxLost
    /\ lost' = Append(lost, clock)

\* record; an insert that fails is logged and forgotten.
RecordWrong(v) ==
    /\ visit[v].pc = "wrong"
    /\ \/ wrongs' = Append(wrongs, clock) /\ told' = 0 /\ UNCHANGED lost
       \/ Forgotten /\ UNCHANGED <<wrongs, told>>
    /\ Leave(v)
    /\ UNCHANGED <<clock, standing, eligible, core, guesses, code>>

RecordSuccess(v) ==
    /\ visit[v].pc = "success"
    /\ \/ wrongs' = <<>> /\ guesses' = <<>> /\ lost' = <<>>
       \/ UNCHANGED <<wrongs, guesses, lost>>
    /\ Onto(v, "create")
    /\ UNCHANGED <<clock, standing, eligible, core, told, code>>

\* sessions.create, and afterPrimary with the new session.
SignedIn(v) ==
    LET s == [id |-> core.id + 1, aal |-> 1, mfaAt |-> 0]
    IN  /\ visit[v].pc = "create"
        /\ core.id < MaxSessions
        /\ core' = s
        /\ AfterPrimary(v, s)
        /\ UNCHANGED <<clock, standing, eligible, wrongs, guesses, lost, told>>

-----------------------------------------------------------------------------
(* verifyMfa.                                                              *)

\* The code is right, or the page comes again.
VerifyCode(v) ==
    /\ visit[v].pc = "verify"
    /\ Onto(v, "upgrade") \/ Leave(v)
    /\ UNCHANGED <<clock, standing, eligible, wrongs, core, guesses, lost, told, code>>

\* upgradeToAal2, of the session this request came with; it throws when that
\* session was upgraded or revoked since.
UpgradeSession(v) ==
    LET s == visit[v].session
        up == [s EXCEPT !.aal = 2, !.mfaAt = clock]
    IN  /\ visit[v].pc = "upgrade"
        /\ \/ /\ visit' = [visit EXCEPT ![v].pc = "finish", ![v].session = up]
              /\ core' = IF core.id = s.id THEN up ELSE core
           \/ core # s /\ Leave(v) /\ UNCHANGED core
        /\ UNCHANGED <<clock, standing, eligible, wrongs, guesses, lost, told, code>>

Finish(v) ==
    /\ visit[v].pc = "finish"
    /\ Answer(v, visit[v].session)
    /\ UNCHANGED <<clock, standing, eligible, wrongs, core, guesses, lost, told>>

-----------------------------------------------------------------------------
(* The sync service, the clock, and requests that die.                     *)

Sync ==
    /\ \/ standing' \in {"gone", "barred", "open"} \ {standing} /\ UNCHANGED eligible
       \/ eligible' = ~eligible /\ UNCHANGED standing
    /\ visit' = [v \in Visits |->
                   IF visit[v].pc = "off" THEN visit[v]
                   ELSE [visit[v] EXCEPT !.sawOpen = @ \/ standing' = "open",
                                         !.sawEligible = @ \/ eligible']]
    /\ UNCHANGED <<clock, wrongs, core, guesses, lost, told, code>>

TimePasses ==
    /\ clock < LastInstant
    /\ \A v \in Visits : visit[v].pc = "finish" => clock < visit[v].session.mfaAt + MaxStall
    /\ clock' = clock + 1
    /\ UNCHANGED <<standing, eligible, wrongs, core, visit, guesses, lost, told, code>>

\* One that dies before it recorded the wrong password is a write that failed.
VisitDies(v) ==
    /\ visit[v].pc # "off"
    /\ IF visit[v].pc = "wrong"
         THEN Forgotten
         ELSE UNCHANGED lost
    /\ Leave(v)
    /\ UNCHANGED <<clock, standing, eligible, wrongs, core, guesses, told, code>>

SignInStep(v) ==
    \/ VisitBegin(v) \/ FindLoginAccount(v) \/ CheckEligible(v)
    \/ ReadFailures(v) \/ Compare(v) \/ RecordWrong(v) \/ RecordSuccess(v) \/ SignedIn(v)
    \/ VerifyCode(v) \/ UpgradeSession(v) \/ Finish(v)
    \/ VisitDies(v)

SignInNext == Sync \/ TimePasses \/ \E v \in Visits : SignInStep(v)

SignInSpec == SignInInit /\ [][SignInNext]_signInVars

-----------------------------------------------------------------------------
(* Properties.                                                             *)

\* Every variable stays in its domain.
SignInTypeOK ==
    /\ clock \in Nat
    /\ standing \in {"gone", "barred", "open"} /\ eligible \in BOOLEAN
    /\ {wrongs, guesses, lost} \subseteq Seq(Nat)
    /\ core \in Session
    /\ visit \in [Visits -> Visit]
    /\ told \in Nat
    /\ code \in Code

\* In any LockTime since the last sign-in, the password is guessed at most as often
\* as the lockout allows, plus once for each other request that read the failures
\* before they were written, plus the attempts whose write failed: nothing in
\* verifyPassword keeps the SELECT, the comparison and the INSERT together.
GuessesNearLimit ==
    Cardinality(recentFailures(guesses, clock)) <
        MaxFailures + Cardinality(Visits) + Cardinality(recentFailures(lost, clock))

\* Who waits as long as the locked page says, and half a second more, is not
\* locked out any more, though the count spans failures of different ages -
\* unless somebody failed since.  The half second is what the age of the last
\* failure loses when it is rounded; without it the claim is false.
ToldWaitSuffices ==
    told # 0 /\ 2 * (clock - told) >= Second => ~Locked(recentFailures(wrongs, clock))

\* A client that asks for AAL2 gets it, with a second factor entered in this very
\* request, or one not older than the client asked for and never older than the
\* platform's cap: finish asks isFresh again, with another limit than afterPrimary.
AssuranceAsAsked ==
    code.given /\ code.asks =>
      /\ code.acr = 2
      /\ \/ code.kind = "mfa"
         \/ /\ code.age > 0 => code.at - code.mfaAt <= code.age
            /\ code.at - code.mfaAt <= MfaCap

\* "A member who was disabled after signing in is not silently carried into another
\* application" (credential.service.ts:107): what each check asks for was so at
\* some moment of the request that answers the client.
MemberWasAllowed == code.given => code.sawOpen /\ code.sawEligible
=============================================================================
