---------------------------- MODULE RealmSession ----------------------------
(***************************************************************************)
(* The Core session of one realm (GlobalSessionService): a durable row in  *)
(* auth_sessions, a hot copy in Redis under the hash of the cookie secret, *)
(* and the cookie of one browser.  Every HTTP request of that browser is a *)
(* sequence of service calls; every await of a call is a step of its own,  *)
(* so requests interleave wherever Node can interleave them.               *)
(*                                                                         *)
(* A secret stands for its SHA-256 (taken as injective).  One realm is     *)
(* modelled: cookie name, Redis key and row lookup all carry the realm.    *)
(***************************************************************************)
EXTENDS Integers, FiniteSets

CONSTANTS
    Requests,      \* slots for concurrent HTTP requests of the browser
    Sids,          \* session ids randomUUID may return
    Secrets,       \* cookie secrets randomToken may return
    NoSid,         \* no session
    NoSecret,      \* no cookie
    IdleTtl,       \* SESSION_IDLE_TTL_SECONDS
    AbsTtl,        \* SESSION_ABSOLUTE_TTL_SECONDS
    MaxTime,       \* bound on the clock
    MaxInFlight,   \* bound on the requests and sweeps in progress at once
    CrashAllowed,  \* whether a request or a sweep may die between two awaits
    SweepAllowed   \* whether the operator revokes all sessions

ASSUME SentinelAssumption == NoSid \notin Sids /\ NoSecret \notin Secrets
ASSUME TtlAssumption == IdleTtl \in Nat \ {0} /\ AbsTtl \in Nat \ {0}
ASSUME BoundAssumption ==
    MaxTime \in Nat /\ MaxInFlight \in Nat /\ {CrashAllowed, SweepAllowed} \subseteq BOOLEAN

VARIABLES
    now,       \* Date.now()
    rows,      \* auth_sessions, by sid
    hot,       \* Redis sso:<realm>:<hash>, by secret; NoSession: no key
    minted,    \* the session each secret was drawn for; NoSid: not drawn yet
    cookie,    \* the secret the browser holds
    req,       \* the requests in progress
    sweep      \* the operator's "keys revoke --revoke-sessions"

vars == <<now, rows, hot, minted, cookie, req, sweep>>

-----------------------------------------------------------------------------
(* State.                                                                  *)

Session == [sid : Sids \cup {NoSid}, aal : {1, 2}, idle : Nat, abs : Nat]
NoSession == [sid |-> NoSid, aal |-> 1, idle |-> 0, abs |-> 0]

Row == [status : {"NONE", "ACTIVE", "REVOKED"}, aal : {1, 2},
        hash : Secrets \cup {NoSecret}, idle : Nat, abs : Nat]
NoRow == [status |-> "NONE", aal |-> 1, hash |-> NoSecret, idle |-> 0, abs |-> 0]

Calls == {"none", "create", "read", "touch", "upgrade", "revoke"}
Pcs == {"off", "insert", "createHot", "get", "row", "warm", "loaded",
        "touchRow", "upgradeDel", "upgradeHot", "revokeRow", "reply"}

\* want: the session an earlier read returned.  ses: the session the current
\* call works on.  sec: the secret it drew.  out: what the reply does to the
\* cookie of the browser.
Request == [pc : Pcs, call : Calls, cookie : Secrets \cup {NoSecret},
            want : Sids \cup {NoSid}, ses : Session,
            sec : Secrets \cup {NoSecret}, out : {"keep", "set", "clear"}]
NoRequest == [pc |-> "off", call |-> "none", cookie |-> NoSecret, want |-> NoSid,
              ses |-> NoSession, sec |-> NoSecret, out |-> "keep"]

\* left: the keys the scan has still to find.  missed is history, not state of
\* the program: the sessions whose copies the last sweep left when it died.
Sweep == [pc : {"off", "scan"}, left : SUBSET Secrets, missed : SUBSET Sids]

Init ==
    /\ now = 0
    /\ rows = [s \in Sids |-> NoRow]
    /\ hot = [k \in Secrets |-> NoSession]
    /\ minted = [k \in Secrets |-> NoSid]
    /\ cookie = NoSecret
    /\ req = [r \in Requests |-> NoRequest]
    /\ sweep = [pc |-> "off", left |-> {}, missed |-> {}]

InFlight == {r \in Requests : req[r].pc # "off"}
Quiet == InFlight = {} /\ sweep.pc = "off"
Busy == Cardinality(InFlight) + (IF sweep.pc = "off" THEN 0 ELSE 1)

Earlier(a, b) == IF a < b THEN a ELSE b
Alive(s) == now < s.idle /\ now < s.abs
FreshSid(s) == \A k \in Secrets : minted[k] # s
FreshSecret(k) == minted[k] = NoSid

\* The reply is all that is left of the request.
ReplyOf(q, o) == [NoRequest EXCEPT !.pc = "reply", !.out = o,
                                   !.sec = IF o = "set" THEN q.sec ELSE NoSecret]

\* A handler that holds a session finishes its flow with touch, or answers.
\* touch goes by the cookie the request came with, whatever was set since.
TouchOrReply(q, o) == {ReplyOf(q, o), [q EXCEPT !.pc = "get", !.call = "touch",
                                                !.want = NoSid, !.ses = NoSession, !.out = o]}

\* The key of secret k after writeHot(k, s): nothing is written once s is over.
Written(k, s) == IF Alive(s) THEN [hot EXCEPT ![k] = s] ELSE hot

-----------------------------------------------------------------------------
(* A request arrives with the cookie the browser holds at that moment.     *)

Begin(r) ==
    /\ req[r].pc = "off"
    /\ Busy < MaxInFlight
    /\ \E c \in {"read", "revoke"} :
         req' = [req EXCEPT ![r] = [NoRequest EXCEPT !.pc = "get", !.call = c, !.cookie = cookie]]
    /\ UNCHANGED <<now, rows, hot, minted, cookie, sweep>>

-----------------------------------------------------------------------------
(* create: a new row, its hot copy, a new cookie.  The session the browser *)
(* had before is left as it is.                                            *)

CreateDraw(r) ==
    /\ req[r].pc = "off"
    /\ Busy < MaxInFlight
    /\ \E s \in Sids, k \in Secrets :
         /\ FreshSid(s) /\ FreshSecret(k)
         /\ minted' = [minted EXCEPT ![k] = s]
         /\ req' = [req EXCEPT ![r] =
                      [NoRequest EXCEPT
                         !.pc = "insert", !.call = "create", !.cookie = cookie, !.sec = k,
                         !.ses = [sid |-> s, aal |-> 1, idle |-> now + IdleTtl, abs |-> now + AbsTtl]]]
    /\ UNCHANGED <<now, rows, hot, cookie, sweep>>

CreateInsert(r) ==
    LET s == req[r].ses
    IN  /\ req[r].pc = "insert"
        /\ rows' = [rows EXCEPT ![s.sid] = [status |-> "ACTIVE", aal |-> s.aal, hash |-> req[r].sec,
                                            idle |-> s.idle, abs |-> s.abs]]
        /\ req' = [req EXCEPT ![r].pc = "createHot"]
        /\ UNCHANGED <<now, hot, minted, cookie, sweep>>

CreateHot(r) ==
    /\ req[r].pc = "createHot"
    /\ hot' = Written(req[r].sec, req[r].ses)
    /\ \E q \in TouchOrReply(req[r], "set") : req' = [req EXCEPT ![r] = q]
    /\ UNCHANGED <<now, rows, minted, cookie, sweep>>

-----------------------------------------------------------------------------
(* load: the hot copy is trusted when present; otherwise the ACTIVE row of *)
(* that secret, whose hot copy is then rebuilt.                            *)

\* A call that found no session.  upgrade throws; logout clears the cookie
\* without a session as well.
Nothing(r) ==
    \E o \in CASE req[r].call = "revoke" -> {"clear"}
               [] req[r].call = "read"   -> {"keep", "clear"}
               [] OTHER                  -> {req[r].out} :
      req' = [req EXCEPT ![r] = ReplyOf(req[r], o)]

LoadHot(r) ==
    LET k == req[r].cookie
        h == hot[k]
    IN  /\ req[r].pc = "get"
        /\ \/ k = NoSecret /\ Nothing(r)
           \/ /\ k # NoSecret
              /\ \/ /\ h.sid = NoSid
                    /\ req' = [req EXCEPT ![r].pc = "row"]
                 \/ /\ h.sid # NoSid /\ Alive(h)
                    /\ req' = [req EXCEPT ![r].pc = "loaded", ![r].ses = h]
                 \/ h.sid # NoSid /\ ~Alive(h) /\ Nothing(r)
        /\ UNCHANGED <<now, rows, hot, minted, cookie, sweep>>

RowSession(s) == [sid |-> s, aal |-> rows[s].aal, idle |-> rows[s].idle, abs |-> rows[s].abs]

\* Mutant: the lookup forgets the secret.
FoundBySomeRow(k) == {s \in Sids : rows[s].status = "ACTIVE"}

\* findActiveBySecretHash
Found(k) == {s \in Sids : rows[s].status = "ACTIVE" /\ rows[s].hash = k}

LoadRow(r) ==
    LET found == Found(req[r].cookie)
    IN  /\ req[r].pc = "row"
        /\ \/ \E s \in found :
                /\ Alive(RowSession(s))
                /\ req' = [req EXCEPT ![r].pc = "warm", ![r].ses = RowSession(s)]
           \/ /\ \A s \in found : ~Alive(RowSession(s))
              /\ Nothing(r)
        /\ UNCHANGED <<now, rows, hot, minted, cookie, sweep>>

LoadWarm(r) ==
    /\ req[r].pc = "warm"
    /\ hot' = Written(req[r].cookie, req[r].ses)
    /\ req' = [req EXCEPT ![r].pc = "loaded"]
    /\ UNCHANGED <<now, rows, minted, cookie, sweep>>

-----------------------------------------------------------------------------
(* read, touch, upgradeToAal2 and revoke, once load has returned.          *)

ReadDone(r) ==
    /\ req[r].pc = "loaded" /\ req[r].call = "read"
    /\ \/ \E q \in TouchOrReply(req[r], "keep") : req' = [req EXCEPT ![r] = q]
       \/ req' = [req EXCEPT ![r].pc = "get", ![r].call = "revoke", ![r].ses = NoSession]
    /\ UNCHANGED <<now, rows, hot, minted, cookie, sweep>>

\* The handler verified a code for the session it read: upgradeToAal2.  The
\* new secret is drawn with the call; nobody sees it before UpgradeRow.
ReadUpgrade(r) ==
    /\ req[r].pc = "loaded" /\ req[r].call = "read"
    /\ \E k \in Secrets :
         /\ FreshSecret(k)
         /\ minted' = [minted EXCEPT ![k] = req[r].ses.sid]
         /\ req' = [req EXCEPT ![r].pc = "get", ![r].call = "upgrade", ![r].ses = NoSession,
                               ![r].want = req[r].ses.sid, ![r].sec = k]
    /\ UNCHANGED <<now, rows, hot, cookie, sweep>>

\* Mutants: the absolute expiry slides as well; the hot copy is left as it is.
TouchHotSlidingAll(r) ==
    LET s == [req[r].ses EXCEPT !.idle = now + IdleTtl, !.abs = now + AbsTtl]
    IN  /\ req[r].pc = "loaded" /\ req[r].call = "touch"
        /\ hot' = Written(req[r].cookie, s)
        /\ req' = [req EXCEPT ![r].pc = "touchRow", ![r].ses = s]
        /\ UNCHANGED <<now, rows, minted, cookie, sweep>>

TouchHotRowOnly(r) ==
    LET s == [req[r].ses EXCEPT !.idle = Earlier(now + IdleTtl, req[r].ses.abs)]
    IN  /\ req[r].pc = "loaded" /\ req[r].call = "touch"
        /\ req' = [req EXCEPT ![r].pc = "touchRow", ![r].ses = s]
        /\ UNCHANGED <<now, rows, hot, minted, cookie, sweep>>

TouchHot(r) ==
    LET s == [req[r].ses EXCEPT !.idle = Earlier(now + IdleTtl, req[r].ses.abs)]
    IN  /\ req[r].pc = "loaded" /\ req[r].call = "touch"
        /\ hot' = Written(req[r].cookie, s)
        /\ req' = [req EXCEPT ![r].pc = "touchRow", ![r].ses = s]
        /\ UNCHANGED <<now, rows, minted, cookie, sweep>>

\* Mutant: the whole loaded session is saved, not its idle expiry alone.
TouchRowSave(r) ==
    LET s == req[r].ses
    IN  /\ req[r].pc = "touchRow"
        /\ rows' = [rows EXCEPT ![s.sid].status = "ACTIVE", ![s.sid].aal = s.aal, ![s.sid].idle = s.idle]
        /\ req' = [req EXCEPT ![r] = ReplyOf(req[r], req[r].out)]
        /\ UNCHANGED <<now, hot, minted, cookie, sweep>>

TouchRow(r) ==
    /\ req[r].pc = "touchRow"
    /\ rows' = [rows EXCEPT ![req[r].ses.sid].idle = req[r].ses.idle]
    /\ req' = [req EXCEPT ![r] = ReplyOf(req[r], req[r].out)]
    /\ UNCHANGED <<now, hot, minted, cookie, sweep>>

\* Mutants: the row keeps its assurance; the copy to be published keeps the
\* assurance it was loaded with.
UpgradeRowHashOnly(r) ==
    /\ req[r].pc = "loaded" /\ req[r].call = "upgrade"
    /\ req[r].ses.sid = req[r].want
    /\ rows' = [rows EXCEPT ![req[r].want].hash = req[r].sec]
    /\ req' = [req EXCEPT ![r].pc = "upgradeDel", ![r].ses.aal = 2]
    /\ UNCHANGED <<now, hot, minted, cookie, sweep>>

UpgradeRowStaleCopy(r) ==
    /\ req[r].pc = "loaded" /\ req[r].call = "upgrade"
    /\ req[r].ses.sid = req[r].want
    /\ rows' = [rows EXCEPT ![req[r].want].aal = 2, ![req[r].want].hash = req[r].sec]
    /\ req' = [req EXCEPT ![r].pc = "upgradeDel"]
    /\ UNCHANGED <<now, hot, minted, cookie, sweep>>

\* Otherwise "session changed during MFA" is thrown, which SecretNamesSession
\* shows never happens: the guard is always true.
UpgradeRow(r) ==
    /\ req[r].pc = "loaded" /\ req[r].call = "upgrade"
    /\ req[r].ses.sid = req[r].want
    /\ rows' = [rows EXCEPT ![req[r].want].aal = 2, ![req[r].want].hash = req[r].sec]
    /\ req' = [req EXCEPT ![r].pc = "upgradeDel", ![r].ses.aal = 2]
    /\ UNCHANGED <<now, hot, minted, cookie, sweep>>

\* Mutant: the new key is deleted instead of the old one.
UpgradeDelNewKey(r) ==
    /\ req[r].pc = "upgradeDel"
    /\ hot' = [hot EXCEPT ![req[r].sec] = NoSession]
    /\ req' = [req EXCEPT ![r].pc = "upgradeHot"]
    /\ UNCHANGED <<now, rows, minted, cookie, sweep>>

UpgradeDel(r) ==
    /\ req[r].pc = "upgradeDel"
    /\ hot' = [hot EXCEPT ![req[r].cookie] = NoSession]
    /\ req' = [req EXCEPT ![r].pc = "upgradeHot"]
    /\ UNCHANGED <<now, rows, minted, cookie, sweep>>

UpgradeHot(r) ==
    /\ req[r].pc = "upgradeHot"
    /\ hot' = Written(req[r].sec, req[r].ses)
    /\ \E q \in TouchOrReply(req[r], "set") : req' = [req EXCEPT ![r] = q]
    /\ UNCHANGED <<now, rows, minted, cookie, sweep>>

\* Mutant: only the row is revoked.
RevokeDelSkipped(r) ==
    /\ req[r].pc = "loaded" /\ req[r].call = "revoke"
    /\ req' = [req EXCEPT ![r].pc = "revokeRow"]
    /\ UNCHANGED <<now, rows, hot, minted, cookie, sweep>>

RevokeDel(r) ==
    /\ req[r].pc = "loaded" /\ req[r].call = "revoke"
    /\ hot' = [hot EXCEPT ![req[r].cookie] = NoSession]
    /\ req' = [req EXCEPT ![r].pc = "revokeRow"]
    /\ UNCHANGED <<now, rows, minted, cookie, sweep>>

RevokeRow(r) ==
    LET s == req[r].ses.sid
    IN  /\ req[r].pc = "revokeRow"
        /\ rows' = IF rows[s].status = "ACTIVE"
                     THEN [rows EXCEPT ![s].status = "REVOKED"] ELSE rows
        /\ req' = [req EXCEPT ![r] = ReplyOf(req[r], "clear")]
        /\ UNCHANGED <<now, hot, minted, cookie, sweep>>

-----------------------------------------------------------------------------
(* The reply reaches the browser, or the process dies first.               *)

Reply(r) ==
    /\ req[r].pc = "reply"
    /\ cookie' = CASE req[r].out = "set"   -> req[r].sec
                   [] req[r].out = "clear" -> NoSecret
                   [] OTHER                -> cookie
    /\ req' = [req EXCEPT ![r] = NoRequest]
    /\ UNCHANGED <<now, rows, hot, minted, sweep>>

Crash(r) ==
    /\ CrashAllowed
    /\ req[r].pc # "off"
    /\ req' = [req EXCEPT ![r] = NoRequest]
    /\ UNCHANGED <<now, rows, hot, minted, cookie, sweep>>

-----------------------------------------------------------------------------
(* revokeAllSessions of the keys script: the rows in one statement, then   *)
(* the hot copies a SCAN finds.  A key written during the scan is missed.  *)
(* The script may die or lose Redis once the UPDATE is committed: the keys *)
(* it has not found stay, and nothing but another sweep looks for them.    *)

SweepRows ==
    /\ SweepAllowed
    /\ sweep.pc = "off"
    /\ Busy < MaxInFlight
    /\ rows' = [s \in Sids |-> IF rows[s].status = "ACTIVE"
                                 THEN [rows[s] EXCEPT !.status = "REVOKED"] ELSE rows[s]]
    /\ sweep' = [sweep EXCEPT !.pc = "scan", !.left = {k \in Secrets : hot[k].sid # NoSid}]
    /\ UNCHANGED <<now, hot, minted, cookie, req>>

SweepDel ==
    /\ sweep.pc = "scan"
    /\ \E batch \in SUBSET sweep.left :
         /\ batch # {} \/ sweep.left = {}
         /\ hot' = [k \in Secrets |-> IF k \in batch THEN NoSession ELSE hot[k]]
         /\ sweep' = IF batch = sweep.left
                       THEN [pc |-> "off", left |-> {}, missed |-> {}]
                       ELSE [sweep EXCEPT !.left = @ \ batch]
    /\ UNCHANGED <<now, rows, minted, cookie, req>>

SweepDies ==
    /\ CrashAllowed
    /\ sweep.pc = "scan"
    /\ sweep' = [pc |-> "off", left |-> {},
                 missed |-> {hot[k].sid : k \in sweep.left} \ {NoSid}]
    /\ UNCHANGED <<now, rows, hot, minted, cookie, req>>

-----------------------------------------------------------------------------
(* The environment: time, and Redis dropping a key (EX, eviction, flush).  *)

Tick ==
    /\ now < MaxTime
    /\ now' = now + 1
    /\ UNCHANGED <<rows, hot, minted, cookie, req, sweep>>

HotGone(k) ==
    /\ hot[k].sid # NoSid
    /\ hot' = [hot EXCEPT ![k] = NoSession]
    /\ UNCHANGED <<now, rows, minted, cookie, req, sweep>>

Step(r) ==
    \/ Begin(r) \/ CreateDraw(r) \/ CreateInsert(r) \/ CreateHot(r)
    \/ LoadHot(r) \/ LoadRow(r) \/ LoadWarm(r)
    \/ ReadDone(r) \/ ReadUpgrade(r) \/ TouchHot(r) \/ TouchRow(r)
    \/ UpgradeRow(r) \/ UpgradeDel(r) \/ UpgradeHot(r)
    \/ RevokeDel(r) \/ RevokeRow(r) \/ Reply(r) \/ Crash(r)

Next ==
    \/ \E r \in Requests : Step(r)
    \/ SweepRows \/ SweepDel \/ SweepDies
    \/ Tick
    \/ \E k \in Secrets : HotGone(k)

Spec == Init /\ [][Next]_vars
-----------------------------------------------------------------------------
(* Properties.                                                             *)

\* Every variable stays in its domain.
TypeOK ==
    /\ now \in Nat
    /\ rows \in [Sids -> Row]
    /\ hot \in [Secrets -> Session]
    /\ minted \in [Secrets -> Sids \cup {NoSid}]
    /\ cookie \in Secrets \cup {NoSecret}
    /\ req \in [Requests -> Request]
    /\ sweep \in Sweep

\* What request r knows of its session while a call is under way.
Holding(r) == req[r].ses.sid # NoSid

\* The secret under which request r holds (or is about to publish) a session.
HeldUnder(r) == IF req[r].pc \in {"insert", "createHot", "upgradeDel", "upgradeHot"}
                  THEN req[r].sec ELSE req[r].cookie

\* A secret leads to the one session it was drawn for, whichever store answers
\* and however requests overlap; so upgradeToAal2 never meets another session
\* than the one its handler read with the same cookie.
SecretNamesSession ==
    /\ \A k \in Secrets : hot[k].sid # NoSid => hot[k].sid = minted[k]
    /\ \A s \in Sids : rows[s].status # "NONE" => minted[rows[s].hash] = s
    /\ \A r \in Requests : Holding(r) => req[r].ses.sid = minted[HeldUnder(r)]
    /\ \A r \in Requests :
         req[r].pc = "loaded" /\ req[r].call = "upgrade" => req[r].ses.sid = req[r].want

\* No copy claims a second factor that the durable row does not record: a
\* flush of Redis can never lower the assurance a member was served at.
AssuranceBacked ==
    \A k \in Secrets : hot[k].sid # NoSid /\ hot[k].aal = 2 => rows[hot[k].sid].aal = 2

\* The hot copy under the secret of the row has the assurance of the row, so a
\* completed second factor is never forgotten by the cookie it was issued with,
\* even when touches or other upgrades of the session are still under way.
CurrentCopyExact ==
    \A k \in Secrets :
      hot[k].sid # NoSid /\ rows[hot[k].sid].hash = k => hot[k].aal = rows[hot[k].sid].aal

\* Sliding the idle expiry never moves it past the absolute one (when it does
\* not start there), and never moves the absolute one, in either store.
LifetimeFixed ==
    /\ \A k \in Secrets : hot[k].sid # NoSid => hot[k].abs = rows[hot[k].sid].abs
    /\ IdleTtl <= AbsTtl =>
         /\ \A s \in Sids : rows[s].idle <= rows[s].abs
         /\ \A k \in Secrets : hot[k].idle <= hot[k].abs

\* load accepts a session only before the absolute expiry its row was created
\* with, however often it was touched.
ServedWithinLifetime ==
    [][\A r \in Requests :
         req[r].pc \in {"get", "row"} /\ req'[r].pc \in {"warm", "loaded"}
           => now < rows[req'[r].ses.sid].abs]_vars

\* A row only moves forward: a revoked session is never made active again, a
\* second factor never taken back, an absolute expiry never moved, by a writer
\* that loaded the session earlier.
RowsForward ==
    [][\A s \in Sids : rows[s].status # "NONE" =>
         /\ rows[s].status = "REVOKED" => rows'[s].status = "REVOKED"
         /\ rows'[s].status # "NONE"
         /\ rows'[s].aal >= rows[s].aal
         /\ rows'[s].abs = rows[s].abs]_vars

\* Once nothing is in progress, no hot copy serves a revoked session, but for
\* the sessions whose copies the last sweep left when it died; when a sweep has
\* run to its end, none is left, whatever earlier sweeps missed.
RevokedNotServable ==
    Quiet => \A k \in Secrets : hot[k].sid # NoSid =>
      rows[hot[k].sid].status = "ACTIVE" \/ hot[k].sid \in sweep.missed

\* Once nothing is in progress and the browser holds the secret the row names,
\* that is the only secret with a hot copy: whatever the browser held before an
\* upgrade, also one that died half-way, no longer works.
ReplacedSecretDead ==
    Quiet => \A k \in Secrets :
      hot[k].sid # NoSid /\ cookie # NoSecret /\ rows[hot[k].sid].hash = cookie => k = cookie

\* Losing Redis may shorten a session but never lengthens it: the row of a
\* session that is not over lets it live no longer than its hot copy does.
DurableIdleBehind ==
    \A k \in Secrets :
      hot[k].sid # NoSid /\ rows[hot[k].sid].hash = k /\ now < hot[k].abs
        => Earlier(rows[hot[k].sid].idle, rows[hot[k].sid].abs) <= hot[k].idle
=============================================================================
