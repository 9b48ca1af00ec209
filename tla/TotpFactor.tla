----------------------------- MODULE TotpFactor -----------------------------
(***************************************************************************)
(* The codes of one member's authenticator app: MfaService.verifyTotpCode, *)
(* over user_mfa_factors.last_used_step and the Redis counter of           *)
(* RateLimitService.hit.  Requests of the member's tabs overlap; every     *)
(* await is a step; a request may die between INCR and EXPIRE.             *)
(*                                                                         *)
(* A code is the time step it is for.  The member has one active factor,   *)
(* in every session and interaction; the counter is of one interaction.    *)
(***************************************************************************)
EXTENDS Integers, FiniteSets

CONSTANTS
    Submits,     \* slots for concurrent requests
    Pages,       \* interactions (or handoffs) the member verifies for
    NoPage,      \* no interaction
    Window,      \* OTP_TTL_SECONDS, in steps of the app
    MaxTries,    \* OTP_MAX_ATTEMPTS
    MaxSteps,    \* bound on the clock
    MaxHits,     \* bound on the codes submitted
    MaxDead      \* bound on requests that die

ASSUME SubmitsAssumption == IsFiniteSet(Submits)
ASSUME PageAssumption == NoPage \notin Pages
ASSUME TriesAssumption ==
    /\ {Window, MaxTries} \subseteq Nat \ {0}
    /\ {MaxSteps, MaxHits, MaxDead} \subseteq Nat

VARIABLES
    currentStep,  \* the clock, in steps of the app
    tries,        \* ratelimit:totp:<sid>:<uid>
    lastStep,     \* user_mfa_factors.last_used_step; 0: NULL
    submit,       \* the requests in progress
    hits,         \* how many codes were submitted
    dead,         \* how many requests died
    accepted      \* history: how many requests a step verified

totpVars == <<currentStep, tries, lastStep, submit, hits, dead, accepted>>

\* The clock starts at 2, so that the step before it is not the NULL of lastStep.
FirstStep == 2
Steps == 1 .. (FirstStep + MaxSteps + 2)

\* ends: when the key expires, 0 while it has no TTL.  count = 0: no key.
Counter == [count : Nat, ends : Nat]
NoCounter == [count |-> 0, ends |-> 0]

SubmitPcs == {"off", "expire", "check", "accept"}
Submit == [pc : SubmitPcs, page : Pages \cup {NoPage}, step : Steps \cup {0}, allowed : BOOLEAN]
NoSubmit == [pc |-> "off", page |-> NoPage, step |-> 0, allowed |-> FALSE]

TotpInit ==
    /\ currentStep = FirstStep
    /\ tries = [u \in Pages |-> NoCounter]
    /\ lastStep = 0
    /\ submit = [r \in Submits |-> NoSubmit]
    /\ hits = 0
    /\ dead = 0
    /\ accepted = [s \in Steps |-> 0]

GoOn(r, pc) == submit' = [submit EXCEPT ![r].pc = pc]
Done(r) == submit' = [submit EXCEPT ![r] = NoSubmit]

-----------------------------------------------------------------------------
(* RateLimitService.hit.                                                   *)

\* Mutant: only the hit that made the key gives it a TTL.
HitFirst(r) ==
    /\ submit[r].pc = "off"
    /\ hits < MaxHits
    /\ hits' = hits + 1
    /\ \E u \in Pages, s \in Steps :
         LET n == tries[u].count + 1
             q == [pc |-> "check", page |-> u, step |-> s, allowed |-> n <= MaxTries]
         IN  /\ tries' = [tries EXCEPT ![u].count = n]
             /\ submit' = [submit EXCEPT ![r] =
                             IF n = 1 THEN [q EXCEPT !.pc = "expire"]
                             ELSE IF q.allowed THEN q ELSE NoSubmit]
    /\ UNCHANGED <<currentStep, lastStep, dead, accepted>>

\* INCR and TTL in one MULTI.  Without a TTL, EXPIRE follows, and then the
\* answer: the code, of step s, is looked at only within the limit.
Hit(r) ==
    /\ submit[r].pc = "off"
    /\ hits < MaxHits
    /\ hits' = hits + 1
    /\ \E u \in Pages, s \in Steps :
         LET n == tries[u].count + 1
             q == [pc |-> "check", page |-> u, step |-> s, allowed |-> n <= MaxTries]
         IN  /\ tries' = [tries EXCEPT ![u].count = n]
             /\ submit' = [submit EXCEPT ![r] =
                             IF tries[u].ends = 0 THEN [q EXCEPT !.pc = "expire"]
                             ELSE IF q.allowed THEN q ELSE NoSubmit]
    /\ UNCHANGED <<currentStep, lastStep, dead, accepted>>

\* EXPIRE does nothing to a key that is gone.
Expire(r) ==
    LET u == submit[r].page
    IN  /\ submit[r].pc = "expire"
        /\ tries' = IF tries[u].count = 0 THEN tries
                    ELSE [tries EXCEPT ![u].ends = currentStep + Window]
        /\ IF submit[r].allowed THEN GoOn(r, "check") ELSE Done(r)
        /\ UNCHANGED <<currentStep, lastStep, hits, dead, accepted>>

-----------------------------------------------------------------------------
(* The code.                                                               *)

\* verifyTotp: the step must be the current one or next to it.
Check(r) ==
    /\ submit[r].pc = "check"
    /\ IF submit[r].step \in (currentStep - 1)..(currentStep + 1) THEN GoOn(r, "accept") ELSE Done(r)
    /\ UNCHANGED <<currentStep, tries, lastStep, hits, dead, accepted>>

\* Mutant: only the very last step is refused.
AcceptOther(r) ==
    LET s == submit[r].step
    IN  /\ submit[r].pc = "accept"
        /\ IF lastStep # s
             THEN lastStep' = s /\ accepted' = [accepted EXCEPT ![s] = @ + 1]
             ELSE UNCHANGED <<lastStep, accepted>>
        /\ Done(r)
        /\ UNCHANGED <<currentStep, tries, hits, dead>>

\* acceptTotpStep: one conditional UPDATE.
Accept(r) ==
    LET s == submit[r].step
    IN  /\ submit[r].pc = "accept"
        /\ IF lastStep < s
             THEN lastStep' = s /\ accepted' = [accepted EXCEPT ![s] = @ + 1]
             ELSE UNCHANGED <<lastStep, accepted>>
        /\ Done(r)
        /\ UNCHANGED <<currentStep, tries, hits, dead>>

-----------------------------------------------------------------------------
(* Time, which removes the keys whose TTL is over, and requests that die.  *)

StepPasses ==
    /\ currentStep < FirstStep + MaxSteps
    /\ currentStep' = currentStep + 1
    /\ tries' = [u \in Pages |-> IF tries[u].ends \in 1..(currentStep + 1) THEN NoCounter ELSE tries[u]]
    /\ UNCHANGED <<lastStep, submit, hits, dead, accepted>>

SubmitDies(r) ==
    /\ submit[r].pc # "off"
    /\ dead < MaxDead
    /\ dead' = dead + 1
    /\ Done(r)
    /\ UNCHANGED <<currentStep, tries, lastStep, hits, accepted>>

SubmitStep(r) == Hit(r) \/ Expire(r) \/ Check(r) \/ Accept(r) \/ SubmitDies(r)

TotpNext == StepPasses \/ \E r \in Submits : SubmitStep(r)

TotpSpec == TotpInit /\ [][TotpNext]_totpVars

-----------------------------------------------------------------------------
(* Properties.                                                             *)

\* Every variable stays in its domain.
TotpTypeOK ==
    /\ currentStep \in Nat
    /\ tries \in [Pages -> Counter]
    /\ lastStep \in Steps \cup {0}
    /\ submit \in [Submits -> Submit]
    /\ hits \in Nat
    /\ dead \in Nat
    /\ accepted \in [Steps -> Nat]

\* A code of the authenticator app verifies one request, in any interaction and
\* in any order the codes of neighbouring steps are submitted in.
OneWinPerStep == \A s \in Steps : accepted[s] <= 1

\* The requests between INCR and EXPIRE.
Expiring(u) == {r \in Submits : submit[r].pc = "expire" /\ submit[r].page = u}

\* A counter has no TTL only while each request that counted in it died or is
\* about to set one: a request that dies between INCR and EXPIRE leaves nobody
\* shut out for longer than until the next try.
LimitIsTimed ==
    \A u \in Pages : tries[u].ends = 0 => tries[u].count <= dead + Cardinality(Expiring(u))
=============================================================================
