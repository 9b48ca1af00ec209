------------------------------ MODULE Handoff -------------------------------
(***************************************************************************)
(* Trusted handoff: HandoffService, the handoff_requests rows and the      *)
(* settings of client:handoff.  A source application asks for a handoff,   *)
(* the member's browser opens its link in one tab or several, Core proves  *)
(* the identity from its own realm session and posts one signed assertion  *)
(* to the target.  Every await is a step; a request may die between two.   *)
(*                                                                         *)
(* The realm session is seen from outside: live, revoked or logged out,    *)
(* and when its second factor was verified (RealmSession has its copies,   *)
(* OtpChallenge and TotpFactor the factors, SessionLogout the logout).     *)
(***************************************************************************)
EXTENDS HandoffPath, FiniteSets

CONSTANTS
    Tabs,            \* slots for browser requests that overlap
    Ids,             \* handoff requests
    Sids,            \* realm sessions
    Clients,         \* registered applications
    Realms,          \* a realm of an environment
    AuthRealm,       \* client -> its auth_realm
    Environment,     \* client -> its environment
    AsksAal2,        \* the clients whose default_acr is AAL2
    Settings,        \* what client:handoff may set a client to
    NoId, NoSid, NoClient, NoRealm,
    RequestTtl,      \* HANDOFF_REQUEST_TTL_SECONDS
    MfaMaxAge,       \* MFA_MAX_AGE_SECONDS
    MaxNow,          \* bound on the clock
    Changing         \* bound: the clients whose settings change

ASSUME HandoffSentinels ==
    NoId \notin Ids /\ NoSid \notin Sids /\ NoClient \notin Clients /\ NoRealm \notin Realms
ASSUME HandoffLimits == RequestTtl \in Nat \ {0} /\ {MfaMaxAge, MaxNow} \subseteq Nat
ASSUME HandoffRegistry == AuthRealm \in [Clients -> Realms] /\ AsksAal2 \subseteq Clients

\* client-handoff.ts refuses --inbound without a callback and a list of paths.
Setting == [inbound : BOOLEAN, outbound : BOOLEAN, patterns : SUBSET Seq(STRING)]
ASSUME HandoffSettings ==
    /\ Settings \subseteq Setting
    /\ \A s \in Settings : s.inbound => s.patterns # {}

VARIABLES
    clock,      \* Date.now() and now(); 0 is before everything
    setting,    \* the handoff fields of auth_clients and their path lists
    handoff,    \* handoff_requests, by id
    session,    \* realm sessions, by sid
    cookie,     \* realm -> the session the browser holds
    tab,        \* the browser's requests in progress
    joined,     \* auth_session_clients: sid -> clients
    told,       \* history: sid -> the clients its logout found
    posted      \* history: the assertions that left

handoffVars == <<clock, setting, handoff, session, cookie, tab, joined, told, posted>>

Row == [status : {"NONE", "PENDING", "COMPLETED", "EXPIRED", "CANCELLED"},
        target : Clients \cup {NoClient}, realm : Realms \cup {NoRealm},
        path : Paths \cup Path \cup {NoPath}, expires : Nat, sid : Sids \cup {NoSid}]
NoRow == [status |-> "NONE", target |-> NoClient, realm |-> NoRealm, path |-> NoPath,
          expires |-> 0, sid |-> NoSid]

RealmSess == [state : {"none", "live", "revoked", "out"}, realm : Realms \cup {NoRealm}, mfa : Nat]
NoSess == [state |-> "none", realm |-> NoRealm, mfa |-> 0]

TabPcs == {"off", "target", "session", "login", "code", "upgrade", "cancel", "continue", "deliver",
           "sign", "complete", "join", "post"}
Tab == [pc : TabPcs, form : {"open", "login", "mfa", "abort"}, id : Ids \cup {NoId},
        sid : Sids \cup {NoSid}, mfa : Nat, signed : Nat, aal2 : BOOLEAN, late : BOOLEAN]
NoTab == [pc |-> "off", form |-> "open", id |-> NoId, sid |-> NoSid, mfa |-> 0, signed |-> 0,
          aal2 |-> FALSE, late |-> FALSE]
Assertion == [id : Ids, target : Clients \cup {NoClient}, sid : Sids \cup {NoSid}, mfa : Nat,
              signed : Nat, aal2 : BOOLEAN, late : BOOLEAN]

HandoffInit ==
    /\ clock = 1
    /\ setting \in [Clients -> Settings]
    /\ handoff = [i \in Ids |-> NoRow]
    /\ session = [s \in Sids |-> NoSess]
    /\ cookie = [k \in Realms |-> NoSid]
    /\ tab = [r \in Tabs |-> NoTab]
    /\ joined = [s \in Sids |-> {}]
    /\ told = [s \in Sids |-> {}]
    /\ posted = {}

Turn(r, pc) == tab' = [tab EXCEPT ![r].pc = pc]
Done(r) == tab' = [tab EXCEPT ![r] = NoTab]
Target(r) == handoff[tab[r].id].target
Live(s) == s # NoSid /\ session[s].state = "live"

-----------------------------------------------------------------------------
(* The source's back end and the operator.                                 *)

\* Mutant: any application that accepts handoffs is a target.
MayHandOffAnywhere(src, target) == setting[src].outbound /\ target # src /\ setting[target].inbound

\* createRequest, up to the realm: an authenticated source, within its limit.
MayHandOff(src, target) ==
    /\ setting[src].outbound
    /\ target # src
    /\ setting[target].inbound
    /\ Environment[target] = Environment[src]
    /\ AuthRealm[target] = AuthRealm[src]

\* enabledPatterns, isAllowedPath and create.  The row's realm is the source's.
CreateRequest(src, target) ==
    /\ MayHandOff(src, target)
    /\ \E i \in Ids, p \in Paths :
         LET path == normalizeRelativePath(p)
         IN  /\ handoff[i].status = "NONE"
             /\ path # NoPath /\ isAllowedPath(path, setting[target].patterns)
             /\ handoff' = [handoff EXCEPT ![i] =
                              [NoRow EXCEPT !.status = "PENDING", !.target = target,
                                            !.realm = AuthRealm[src], !.path = path,
                                            !.expires = clock + RequestTtl]]
    /\ UNCHANGED <<clock, setting, session, cookie, tab, joined, told, posted>>

\* configure: the fields and the path list, in one transaction.
Configure(c) ==
    /\ \E s \in Settings : setting' = [setting EXCEPT ![c] = s]
    /\ UNCHANGED <<clock, handoff, session, cookie, tab, joined, told, posted>>

-----------------------------------------------------------------------------
(* The browser opens the link, or posts one of its forms.                  *)

\* findPending, with the cookie the browser sent.
FindPending(r) ==
    /\ tab[r].pc = "off"
    /\ \E i \in Ids, form \in {"open", "login", "mfa", "abort"} :
         /\ handoff[i].status = "PENDING"
         /\ IF handoff[i].expires <= clock
              THEN /\ handoff' = [handoff EXCEPT ![i].status = "EXPIRED"]
                   /\ UNCHANGED tab
              ELSE /\ tab' = [tab EXCEPT ![r] = [NoTab EXCEPT !.pc = "target", !.form = form, !.id = i,
                                                    !.sid = cookie[handoff[i].realm]]]
                   /\ UNCHANGED handoff
    /\ UNCHANGED <<clock, setting, session, cookie, joined, told, posted>>

\* pending: the target as it is now; deliver does not look at it again.
FindTarget(r) ==
    /\ tab[r].pc = "target"
    /\ IF setting[Target(r)].inbound
         THEN Turn(r, CASE tab[r].form = "login" -> "login"
                        [] tab[r].form = "abort" -> "cancel"
                        [] OTHER -> "session")
         ELSE Done(r)
    /\ UNCHANGED <<clock, setting, handoff, session, cookie, joined, told, posted>>

\* open and mfaState read the session and its member.  The login page, or a
\* member without access: open revokes the session and does no more.
ReadSession(r) ==
    LET s == tab[r].sid
    IN  /\ tab[r].pc = "session"
        /\ \/ /\ ~Live(s)
              /\ Done(r) /\ UNCHANGED session
           \/ /\ Live(s)
              /\ tab' = [tab EXCEPT ![r] = [@ EXCEPT !.mfa = session[s].mfa, !.form = "open",
                            !.pc = IF tab[r].form = "mfa" THEN "code" ELSE "continue"]]
              /\ UNCHANGED session
           \/ /\ Live(s)
              /\ Done(r)
              /\ session' = IF tab[r].form = "open"
                              THEN [session EXCEPT ![s].state = "revoked"] ELSE session
        /\ UNCHANGED <<clock, setting, handoff, cookie, joined, told, posted>>

\* login: the form, the limit and the password, or a new session.
Login(r) ==
    /\ tab[r].pc = "login"
    /\ \/ Done(r) /\ UNCHANGED <<session, cookie>>
       \/ \E s \in Sids :
            /\ session[s].state = "none"
            /\ session' = [session EXCEPT ![s] = [NoSess EXCEPT !.state = "live",
                                                     !.realm = handoff[tab[r].id].realm]]
            /\ cookie' = [cookie EXCEPT ![handoff[tab[r].id].realm] = s]
            /\ tab' = [tab EXCEPT ![r] = [@ EXCEPT !.pc = "continue", !.sid = s, !.form = "open"]]
    /\ UNCHANGED <<clock, setting, handoff, joined, told, posted>>

\* verifyMfa and sendCode: a wrong code, or only a page, or a right code.
VerifyMfa(r) ==
    /\ tab[r].pc = "code"
    /\ Done(r) \/ Turn(r, "upgrade")
    /\ UNCHANGED <<clock, setting, handoff, session, cookie, joined, told, posted>>

\* upgradeToAal2 throws when the cookie no longer names the session.
Upgrade(r) ==
    LET s == tab[r].sid
    IN  /\ tab[r].pc = "upgrade"
        /\ \/ Done(r) /\ UNCHANGED session
           \/ /\ Live(s)
              /\ session' = [session EXCEPT ![s].mfa = clock]
              /\ tab' = [tab EXCEPT ![r] = [@ EXCEPT !.pc = "deliver", !.mfa = clock]]
        /\ UNCHANGED <<clock, setting, handoff, cookie, joined, told, posted>>

\* Mutant: the request is cancelled whatever became of it.
CancelAlways(r) ==
    /\ tab[r].pc = "cancel"
    /\ handoff' = [handoff EXCEPT ![tab[r].id].status = "CANCELLED"]
    /\ Done(r)
    /\ UNCHANGED <<clock, setting, session, cookie, joined, told, posted>>

\* abort: the page says cancelled whether the row was still PENDING or not.
Cancel(r) ==
    LET i == tab[r].id
    IN  /\ tab[r].pc = "cancel"
        /\ handoff' = IF handoff[i].status = "PENDING"
                        THEN [handoff EXCEPT ![i].status = "CANCELLED"] ELSE handoff
        /\ Done(r)
        /\ UNCHANGED <<clock, setting, session, cookie, joined, told, posted>>

-----------------------------------------------------------------------------
(* continue and deliver.                                                   *)

isFresh(mfa) == mfa > 0 /\ clock - mfa <= MfaMaxAge

\* Mutant: a member who has just signed in is handed over at once.
ContinueAtOnce(r) ==
    /\ tab[r].pc = "continue"
    /\ tab' = [tab EXCEPT ![r] = [@ EXCEPT !.pc = "sign", !.aal2 = isFresh(tab[r].mfa), !.signed = clock]]
    /\ UNCHANGED <<clock, setting, handoff, session, cookie, joined, told, posted>>

\* The code page, or straight on to deliver, with no await in between.
Continue(r) ==
    /\ tab[r].pc = "continue"
    /\ \/ Done(r) /\ ~isFresh(tab[r].mfa)
       \/ /\ Target(r) \notin AsksAal2 \/ isFresh(tab[r].mfa)
          /\ tab' = [tab EXCEPT ![r] = [@ EXCEPT !.pc = "sign", !.aal2 = isFresh(tab[r].mfa), !.signed = clock]]
    /\ UNCHANGED <<clock, setting, handoff, session, cookie, joined, told, posted>>

\* After a verified code: the audit event was written first.
Deliver(r) ==
    /\ tab[r].pc = "deliver"
    /\ tab' = [tab EXCEPT ![r] = [@ EXCEPT !.pc = "sign", !.aal2 = isFresh(tab[r].mfa), !.signed = clock]]
    /\ UNCHANGED <<clock, setting, handoff, session, cookie, joined, told, posted>>

\* signJws, or KMS fails and the request stays PENDING.
SignJws(r) ==
    /\ tab[r].pc = "sign"
    /\ Turn(r, "complete") \/ Done(r)
    /\ UNCHANGED <<clock, setting, handoff, session, cookie, joined, told, posted>>

\* Mutant: the update has only the id.
CompleteAlways(r) ==
    /\ tab[r].pc = "complete"
    /\ handoff' = [handoff EXCEPT ![tab[r].id] = [@ EXCEPT !.status = "COMPLETED", !.sid = tab[r].sid]]
    /\ Turn(r, "join")
    /\ UNCHANGED <<clock, setting, session, cookie, joined, told, posted>>

\* complete: one conditional UPDATE; the loser's signed assertion is dropped.
Complete(r) ==
    LET i == tab[r].id
    IN  /\ tab[r].pc = "complete"
        /\ IF handoff[i].status = "PENDING" /\ handoff[i].expires > clock
             THEN /\ handoff' = [handoff EXCEPT ![i] = [@ EXCEPT !.status = "COMPLETED", !.sid = tab[r].sid]]
                  /\ Turn(r, "join")
             ELSE Done(r) /\ UNCHANGED handoff
        /\ UNCHANGED <<clock, setting, session, cookie, joined, told, posted>>

\* Mutant: the target joins the session once it has answered.
JoinLater(r) ==
    /\ tab[r].pc = "join"
    /\ Turn(r, "post")
    /\ UNCHANGED <<clock, setting, handoff, session, cookie, joined, told, posted>>

JoinTarget(r) ==
    /\ tab[r].pc = "join"
    /\ joined' = [joined EXCEPT ![tab[r].sid] = @ \cup {Target(r)}]
    /\ Turn(r, "post")
    /\ UNCHANGED <<clock, setting, handoff, session, cookie, told, posted>>

\* touch, the audit event and the page that posts the assertion.
PostAssertion(r) ==
    LET t == tab[r]
    IN  /\ t.pc = "post"
        /\ posted' = posted \cup {[id |-> t.id, target |-> Target(r), sid |-> t.sid, mfa |-> t.mfa,
                                   signed |-> t.signed, aal2 |-> t.aal2, late |-> t.late]}
        /\ Done(r)
        /\ UNCHANGED <<clock, setting, handoff, session, cookie, joined, told>>

-----------------------------------------------------------------------------
(* The rest of the system, time and requests that die.                     *)

\* A realm logout ends the session and lists its clients; a request that has
\* read the session and not joined yet is late for it.
LogOut(s) ==
    /\ session[s].state = "live"
    /\ session' = [session EXCEPT ![s].state = "out"]
    /\ told' = [told EXCEPT ![s] = joined[s]]
    /\ tab' = [r \in Tabs |-> IF tab[r].sid = s /\ tab[r].pc # "post"
                                THEN [tab[r] EXCEPT !.late = TRUE] ELSE tab[r]]
    /\ UNCHANGED <<clock, setting, handoff, cookie, joined, posted>>

RequestDies(r) ==
    /\ tab[r].pc # "off"
    /\ Done(r)
    /\ UNCHANGED <<clock, setting, handoff, session, cookie, joined, told, posted>>

TimePasses ==
    /\ clock < MaxNow
    /\ clock' = clock + 1
    /\ UNCHANGED <<setting, handoff, session, cookie, tab, joined, told, posted>>

TabStep(r) ==
    \/ FindPending(r) \/ FindTarget(r) \/ ReadSession(r) \/ Login(r) \/ VerifyMfa(r) \/ Upgrade(r)
    \/ Cancel(r) \/ Continue(r) \/ Deliver(r) \/ SignJws(r) \/ Complete(r) \/ JoinTarget(r)
    \/ PostAssertion(r) \/ RequestDies(r)

HandoffNext ==
    \/ \E src, target \in Clients : CreateRequest(src, target)
    \/ \E c \in Changing : Configure(c)
    \/ \E s \in Sids : LogOut(s)
    \/ \E r \in Tabs : TabStep(r)
    \/ TimePasses

HandoffSpec == HandoffInit /\ [][HandoffNext]_handoffVars

-----------------------------------------------------------------------------
(* Properties.                                                             *)

\* Every variable stays in its domain.
HandoffTypeOK ==
    /\ clock \in Nat
    /\ setting \in [Clients -> Settings]
    /\ handoff \in [Ids -> Row]
    /\ session \in [Sids -> RealmSess]
    /\ cookie \in [Realms -> Sids \cup {NoSid}]
    /\ tab \in [Tabs -> Tab]
    /\ joined \in [Sids -> SUBSET (Clients \cup {NoClient})]
    /\ told \in [Sids -> SUBSET (Clients \cup {NoClient})]
    /\ posted \subseteq Assertion

\* However many tabs open, cancel and complete a request at once, at most one
\* assertion leaves for it, and its row says so: COMPLETED, by that session
\* (HandoffRepository.complete and cancel, deliver).
OneAssertionPerRequest ==
    /\ \A p \in posted : handoff[p.id].status = "COMPLETED" /\ handoff[p.id].sid = p.sid
    /\ \A p, q \in posted : p.id = q.id => p = q

\* An assertion carries a session of the realm of both applications, though the
\* session is read from the browser long after createRequest compared them.
AssertionWithinRealm ==
    \A p \in posted : session[p.sid].realm = AuthRealm[p.target]

\* A target that asks for AAL2 receives nothing from a session without a second
\* factor, on any way into deliver, and no assertion claims one that the session
\* does not have or that had aged when it was signed.
AssertionIsBacked ==
    \A p \in posted :
      /\ p.target \in AsksAal2 => p.mfa > 0
      /\ p.aal2 => p.mfa > 0 /\ p.signed - p.mfa <= MfaMaxAge
      /\ p.mfa <= session[p.sid].mfa

\* The target that received an assertion is told of the logout of its session,
\* unless the logout came between the read of the session and the join.
TargetIsToldOfLogout ==
    \A p \in posted : session[p.sid].state = "out" => p.late \/ p.target \in told[p.sid]

\* Every path that was accepted opens inside the target, where it says.
PathsStayInside == \A i \in Ids : handoff[i].status # "NONE" => StaysInside(handoff[i].path)
=============================================================================
