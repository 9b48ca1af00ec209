----------------------------- MODULE ClientAuth -----------------------------
(***************************************************************************)
(* A registered client calls a Core API directly: ClientAuthService.       *)
(* authenticate, above all private_key_jwt, whose assertions are used once *)
(* by way of a Redis key that expires.  Copies of an assertion may be      *)
(* presented at any time and at once; the registry changes meanwhile.      *)
(*                                                                         *)
(* jwtVerify and SET NX are two steps, with a pause of up to MaxPause in   *)
(* between.                                                                *)
(***************************************************************************)
EXTENDS ClientRegistry

CONSTANTS
    Callers,       \* slots for API calls that overlap
    Jtis,          \* assertions
    NoJti,
    Tolerance,     \* clockTolerance
    MaxTokenAge,   \* maxTokenAge
    Slack,         \* the least TTL, and what is added to the rest of an assertion's life
    MaxPause,      \* bound: how long a call stalls between jwtVerify and SET
    Lifetimes,     \* how long clients make their assertions live
    LastInstant    \* bound on the clock

ASSUME AuthSentinels == NoJti \notin Jtis
ASSUME AuthLimits ==
    /\ {Tolerance, MaxTokenAge, Slack, MaxPause, LastInstant} \subseteq Nat
    /\ Lifetimes \subseteq Nat
\* 60 s against a tolerance of 30 s: a call may stall for the other 30.
ASSUME SlackCovers == Tolerance + MaxPause <= Slack

VARIABLES
    instant,     \* the clock
    assertion,   \* the assertions clients have signed
    used,        \* clientassert:jti:<client>:<jti>: when the key expires, 0: no key
    caller,      \* the calls in progress
    accepted     \* history: jti -> how many calls it authenticated

authVars == <<instant, assertion, used, caller, accepted>>

Assertion == [made : BOOLEAN, iss : ClientIds \cup {""}, iat : Nat, exp : Nat]
NoAssertion == [made |-> FALSE, iss |-> "", iat |-> 0, exp |-> 0]
Caller == [pc : {"off", "set"}, jti : Jtis \cup {NoJti}, verified : Nat]
NoCaller == [pc |-> "off", jti |-> NoJti, verified |-> 0]

AuthInit ==
    /\ RegistryInit
    /\ instant = 1
    /\ assertion = [j \in Jtis |-> NoAssertion]
    /\ used = [j \in Jtis |-> 0]
    /\ caller = [r \in Callers |-> NoCaller]
    /\ accepted = [j \in Jtis |-> 0]

\* The client signs an assertion.
SignAssertion(j) ==
    /\ ~assertion[j].made
    /\ \E c \in ClientIds, life \in Lifetimes :
         assertion' = [assertion EXCEPT ![j] = [made |-> TRUE, iss |-> c, iat |-> instant,
                                                exp |-> instant + life]]
    /\ UNCHANGED <<registryVars, instant, used, caller, accepted>>

\* jwtVerify at time t: exp and iat, with the tolerance on both.
jwtVerify(a, t) ==
    /\ t < a.exp + Tolerance
    /\ t - a.iat <= MaxTokenAge + Tolerance
    /\ a.iat - t <= Tolerance

\* privateKeyJwt, up to jwtVerify.
Present(r) ==
    /\ caller[r].pc = "off"
    /\ \E j \in Jtis :
         /\ assertion[j].made
         /\ HasMetadata(assertion[j].iss) /\ authMethod(assertion[j].iss) = "private_key_jwt"
         /\ jwtVerify(assertion[j], instant)
         /\ caller' = [caller EXCEPT ![r] = [pc |-> "set", jti |-> j, verified |-> instant]]
    /\ UNCHANGED <<registryVars, instant, assertion, used, accepted>>

\* Mutant: the key lives as long as the assertion.
ttlOfRest(a, t) == IF a.exp - t > 1 THEN a.exp - t ELSE 1

ttlOf(a, t) == IF a.exp - t + Slack > Slack THEN a.exp - t + Slack ELSE Slack

\* SET NX EX: the first call takes the jti, for longer than the assertion verifies.
SetNx(r) ==
    LET j == caller[r].jti
    IN  /\ caller[r].pc = "set"
        /\ IF used[j] > instant
             THEN UNCHANGED <<used, accepted>>
             ELSE /\ used' = [used EXCEPT ![j] = instant + ttlOf(assertion[j], instant)]
                  /\ accepted' = [accepted EXCEPT ![j] = @ + 1]
        /\ caller' = [caller EXCEPT ![r] = NoCaller]
        /\ UNCHANGED <<registryVars, instant, assertion>>

InstantPasses ==
    /\ instant < LastInstant
    /\ \A r \in Callers : caller[r].pc = "set" => instant < caller[r].verified + MaxPause
    /\ instant' = instant + 1
    /\ UNCHANGED <<registryVars, assertion, used, caller, accepted>>

CallerDies(r) ==
    /\ caller[r].pc = "set"
    /\ caller' = [caller EXCEPT ![r] = NoCaller]
    /\ UNCHANGED <<registryVars, instant, assertion, used, accepted>>

AuthNext ==
    \/ RegistryNext /\ UNCHANGED authVars
    \/ \E j \in Jtis : SignAssertion(j)
    \/ \E r \in Callers : Present(r) \/ SetNx(r) \/ CallerDies(r)
    \/ InstantPasses

AuthSpec == AuthInit /\ [][AuthNext]_<<registryVars, authVars>>

-----------------------------------------------------------------------------
(* Properties.                                                             *)

\* Every variable stays in its domain.
AuthTypeOK ==
    /\ RegistryTypeOK
    /\ instant \in Nat
    /\ assertion \in [Jtis -> Assertion]
    /\ used \in [Jtis -> Nat]
    /\ caller \in [Callers -> Caller]
    /\ accepted \in [Jtis -> Nat]

\* A signed assertion authenticates one call, however often and whenever it is
\* presented: its key outlives the tolerance in which it still verifies.
OncePerAssertion == \A j \in Jtis : accepted[j] <= 1
=============================================================================
