---------------------------- MODULE OtpChallenge ----------------------------
(***************************************************************************)
(* The one-time codes sent to one member in one realm session by email or  *)
(* SMS: MfaService.startOtp and verifyOtp, over the auth_otp_challenges    *)
(* rows and the Redis key of the resend cooldown.  Requests of the         *)
(* member's tabs overlap; every await is a step; a request may die.        *)
(*                                                                         *)
(* A submitted code is right or wrong for the challenge it names.  What a  *)
(* verified code leads to is upgradeToAal2 in RealmSession.                *)
(***************************************************************************)
EXTENDS Integers, FiniteSets

CONSTANTS
    Requests,      \* slots for concurrent requests
    Uids,          \* interactions (or handoffs) the member verifies for
    Ids,           \* challenge ids
    NoUid,         \* a challenge that was not made
    NoId,          \* no challenge
    OtpTtl,        \* OTP_TTL_SECONDS
    MaxAttempts,   \* OTP_MAX_ATTEMPTS
    Cooldown,      \* OTP_RESEND_COOLDOWN_SECONDS; 0: none
    Cap,           \* OTP_MAX_SENDS_PER_HOUR
    Hour,          \* the hour the cap is counted over
    MaxTime,       \* bound on the clock
    MaxFaults      \* bound on requests that die

ASSUME SentinelAssumption == NoUid \notin Uids /\ NoId \notin Ids
ASSUME LimitAssumption ==
    /\ {OtpTtl, MaxAttempts, Cap, Hour} \subseteq Nat \ {0}
    /\ {Cooldown, MaxTime, MaxFaults} \subseteq Nat

VARIABLES
    now,        \* the clock
    challenge,  \* auth_otp_challenges, by id
    cooldown,   \* cooldown:otp-resend:<sid>:<uid>: when the key expires, 0: no key
    req,        \* the requests in progress
    faults,     \* how many requests died
    compared,   \* history: how many codes were compared with a challenge
    won         \* history: how many requests a challenge verified

vars == <<now, challenge, cooldown, req, faults, compared, won>>

Challenge == [uid : Uids \cup {NoUid}, attempts : Nat, created : Nat, expires : Nat,
              used : BOOLEAN]
NoChallenge == [uid |-> NoUid, attempts |-> 0, created |-> 0, expires |-> 0, used |-> FALSE]

Pcs == {"off", "cool", "count", "create", "sending", "spend", "consume"}
Request == [pc : Pcs, uid : Uids \cup {NoUid}, id : Ids \cup {NoId}, seen : Nat]
NoRequest == [pc |-> "off", uid |-> NoUid, id |-> NoId, seen |-> 0]

Init ==
    /\ now = 0
    /\ challenge = [i \in Ids |-> NoChallenge]
    /\ cooldown = [u \in Uids |-> 0]
    /\ req = [r \in Requests |-> NoRequest]
    /\ faults = 0
    /\ compared = [i \in Ids |-> 0]
    /\ won = [i \in Ids |-> 0]

Made == {i \in Ids : challenge[i].uid # NoUid}

Go(r, pc) == req' = [req EXCEPT ![r].pc = pc]
End(r) == req' = [req EXCEPT ![r] = NoRequest]

-----------------------------------------------------------------------------
(* startOtp: from a page that needs a code, the switch or the resend form. *)

\* Bound: a request that may send starts only while an id is left for it.
SendBegin(r) ==
    /\ req[r].pc = "off"
    /\ Cardinality(Made \cup {q \in Requests : req[q].pc \in {"cool", "count", "create"}})
         < Cardinality(Ids)
    /\ \E u \in Uids, pc \in {"cool", "count"} :
         req' = [req EXCEPT ![r] = [NoRequest EXCEPT !.pc = pc, !.uid = u]]
    /\ UNCHANGED <<now, challenge, cooldown, faults, compared, won>>

\* A resend: SET NX EX, or the time that is left of it.
Cool(r) ==
    LET u == req[r].uid
    IN  /\ req[r].pc = "cool"
        /\ IF cooldown[u] > 0
             THEN End(r) /\ UNCHANGED cooldown
             ELSE /\ Go(r, "count")
                  /\ cooldown' = [cooldown EXCEPT ![u] = IF Cooldown = 0 THEN 0 ELSE now + Cooldown]
        /\ UNCHANGED <<now, challenge, faults, compared, won>>

\* countSentSince: of every session and interaction of the member.
Recent == {i \in Made : challenge[i].created > now - Hour}

\* Mutant: a code that was used or could not be sent does not count.
CountSentUnused(r) ==
    /\ req[r].pc = "count"
    /\ IF Cardinality({i \in Recent : ~challenge[i].used}) >= Cap THEN End(r) ELSE Go(r, "create")
    /\ UNCHANGED <<now, challenge, cooldown, faults, compared, won>>

CountSent(r) ==
    /\ req[r].pc = "count"
    /\ IF Cardinality(Recent) >= Cap THEN End(r) ELSE Go(r, "create")
    /\ UNCHANGED <<now, challenge, cooldown, faults, compared, won>>

Create(r) ==
    /\ req[r].pc = "create"
    /\ \E i \in Ids \ Made :
         /\ challenge' = [challenge EXCEPT ![i] =
                            [NoChallenge EXCEPT !.uid = req[r].uid, !.created = now,
                                                !.expires = now + OtpTtl]]
         /\ req' = [req EXCEPT ![r] = [@ EXCEPT !.pc = "sending", !.id = i]]
    /\ UNCHANGED <<now, cooldown, faults, compared, won>>

Sent(r) ==
    /\ req[r].pc = "sending"
    /\ End(r)
    /\ UNCHANGED <<now, challenge, cooldown, faults, compared, won>>

\* The adapter threw, or the write of the provider's message id; the code may
\* have reached the member all the same.
SendFails(r) ==
    /\ req[r].pc = "sending"
    /\ challenge' = [challenge EXCEPT ![req[r].id].used = TRUE]
    /\ End(r)
    /\ UNCHANGED <<now, cooldown, faults, compared, won>>

-----------------------------------------------------------------------------
(* verifyOtp.                                                              *)

\* findById: the challenge named by the form must be of this interaction.
Find(r) ==
    /\ req[r].pc = "off"
    /\ \E i \in Made :
         req' = [req EXCEPT ![r] =
                   [NoRequest EXCEPT !.pc = "spend", !.uid = challenge[i].uid, !.id = i,
                                     !.seen = challenge[i].attempts]]
    /\ UNCHANGED <<now, challenge, cooldown, faults, compared, won>>

\* Mutant: the attempts read by findById are written back, one more.
SpendRead(r) ==
    LET i == req[r].id
        c == challenge[i]
    IN  /\ req[r].pc = "spend"
        /\ IF ~c.used /\ now < c.expires /\ req[r].seen < MaxAttempts
             THEN /\ challenge' = [challenge EXCEPT ![i].attempts = req[r].seen + 1]
                  /\ compared' = [compared EXCEPT ![i] = @ + 1]
                  /\ Go(r, "consume") \/ End(r)
             ELSE End(r) /\ UNCHANGED <<challenge, compared>>
        /\ UNCHANGED <<now, cooldown, faults, won>>

\* spendAttempt, one conditional UPDATE, and the comparison with the hash: the
\* code submitted was right or wrong.
Spend(r) ==
    LET i == req[r].id
        c == challenge[i]
    IN  /\ req[r].pc = "spend"
        /\ IF ~c.used /\ now < c.expires /\ c.attempts < MaxAttempts
             THEN /\ challenge' = [challenge EXCEPT ![i].attempts = @ + 1]
                  /\ compared' = [compared EXCEPT ![i] = @ + 1]
                  /\ Go(r, "consume") \/ End(r)
             ELSE End(r) /\ UNCHANGED <<challenge, compared>>
        /\ UNCHANGED <<now, cooldown, faults, won>>

\* Mutant: the update has no condition.
ConsumeAlways(r) ==
    LET i == req[r].id
    IN  /\ req[r].pc = "consume"
        /\ won' = [won EXCEPT ![i] = @ + 1]
        /\ challenge' = [challenge EXCEPT ![i].used = TRUE]
        /\ End(r)
        /\ UNCHANGED <<now, cooldown, faults, compared>>

Consume(r) ==
    LET i == req[r].id
    IN  /\ req[r].pc = "consume"
        /\ won' = IF challenge[i].used THEN won ELSE [won EXCEPT ![i] = @ + 1]
        /\ challenge' = [challenge EXCEPT ![i].used = TRUE]
        /\ End(r)
        /\ UNCHANGED <<now, cooldown, faults, compared>>

-----------------------------------------------------------------------------
(* Time, and requests that die between two awaits.                         *)

Tick ==
    /\ now < MaxTime
    /\ now' = now + 1
    /\ cooldown' = [u \in Uids |-> IF cooldown[u] > now + 1 THEN cooldown[u] ELSE 0]
    /\ UNCHANGED <<challenge, req, faults, compared, won>>

Dies(r) ==
    /\ req[r].pc # "off"
    /\ faults < MaxFaults
    /\ faults' = faults + 1
    /\ End(r)
    /\ UNCHANGED <<now, challenge, cooldown, compared, won>>

Step(r) ==
    \/ SendBegin(r) \/ Cool(r) \/ CountSent(r) \/ Create(r) \/ Sent(r) \/ SendFails(r)
    \/ Find(r) \/ Spend(r) \/ Consume(r)
    \/ Dies(r)

Next == Tick \/ \E r \in Requests : Step(r)

Spec == Init /\ [][Next]_vars

-----------------------------------------------------------------------------
(* Properties.                                                             *)

\* Every variable stays in its domain.
TypeOK ==
    /\ now \in Nat
    /\ challenge \in [Ids -> Challenge]
    /\ cooldown \in [Uids -> Nat]
    /\ req \in [Requests -> Request]
    /\ faults \in Nat
    /\ compared \in [Ids -> Nat]
    /\ won \in [Ids -> Nat]

\* A code that was sent verifies one request, however many submit it at once:
\* of the requests whose guess was counted, consume lets one through.
OneWinPerCode == \A i \in Ids : won[i] <= 1

\* Parallel guesses are not compared with a challenge more often than it
\* allows, though each read attempt_count before it spent one.
GuessesWithinLimit == \A i \in Ids : compared[i] <= MaxAttempts

\* The codes made in an hour stay within the cap but for the requests that
\* were counting at the same time: nothing between countSentSince and create
\* keeps them apart.  README.md:112-113 and the comment at mfa.repository.ts:105
\* speak of a cap per hour without that margin.
SentNearCap == Cardinality(Recent) < Cap + Cardinality(Requests)
=============================================================================
