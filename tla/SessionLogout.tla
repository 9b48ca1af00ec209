---------------------------- MODULE SessionLogout ----------------------------
(***************************************************************************)
(* What a realm session leaves behind and how its logout finds it again:   *)
(* the grants and tokens a finished sign-in stores in Redis                *)
(* (InteractionService.finish, OidcRedisAdapter), the clients that joined  *)
(* the session (sign-ins, handoffs), and LogoutService, which revokes the  *)
(* session, its tokens, and queues a job for the clients.  The browsers of *)
(* one member in one realm; every await is a step.                         *)
(*                                                                         *)
(* The session itself is ACTIVE or REVOKED here: RealmSession has its      *)
(* stores, expiry and cookie secret, LogoutQueue has what becomes of a     *)
(* job.  oidc-provider is external: it issues a code for a grant it finds, *)
(* exchanges it while the grant is there, and serves a token likewise.     *)
(***************************************************************************)
EXTENDS Naturals, FiniteSets

CONSTANTS
    Flows,        \* sign-ins and handoffs, each run once
    Logouts,      \* logout requests, each run once
    Clients,      \* registered clients of the realm
    Sids,         \* sessions a password login may create
    Grants,       \* ids a new grant may get
    NoSid,        \* no session
    NoGrant,      \* no grant
    NoClient,     \* a flow that has not begun
    Overlap,      \* whether flows and logouts overlap
    MemberLeaves, \* whether the member may lose access
    MaxFaults     \* bound on failed awaits

ASSUME NoneAssumption == NoSid \notin Sids /\ NoGrant \notin Grants /\ NoClient \notin Clients
ASSUME ModeAssumption == {Overlap, MemberLeaves} \subseteq BOOLEAN /\ MaxFaults \in Nat

VARIABLES
    session,    \* auth_sessions.status, by sid
    cookie,     \* the session the browser's cookie leads to
    flow,       \* the sign-ins and handoffs
    logout,     \* the logout requests
    joined,     \* auth_session_clients, by sid
    ctx,        \* oidc:grantctx:<grant>: the sid a token of the grant will name
    tagged,     \* oidc:sidgrants:<sid>
    live,       \* oidc:Grant:<grant>
    stored,     \* oidc:AuthorizationCode:*, oidc:AccessToken:*
    listed,     \* oidc:grant:<grant>: the codes and tokens of the grant
    opGrant,    \* the grant the provider's own session has for a client
    jobs,       \* logout_jobs with their deliveries
    faults      \* how many awaits failed

stores == <<joined, ctx, tagged, live, stored, listed, jobs>>
vars == <<session, cookie, flow, logout, stores, opGrant, faults>>

Artifact == Flows \X {"code", "token"}
Code(f) == <<f, "code">>
Token(f) == <<f, "token">>

\* named: the sid in the ID token.  fresh: the flow created its session.
Flow == [pc : {"off", "find", "save", "context", "tag", "join", "resume", "exchange",
               "token", "handoff", "page", "gone", "done"},
         client : Clients \cup {NoClient}, sid : Sids \cup {NoSid}, fresh : BOOLEAN,
         grant : Grants \cup {NoGrant}, named : Sids \cup {NoSid}]
NoFlow == [pc |-> "off", client |-> NoClient, sid |-> NoSid, fresh |-> FALSE,
           grant |-> NoGrant, named |-> NoSid]

\* grant, seen, left: the grant being revoked, what lrange listed of it, and
\* how many of the two revokeByGrantId calls are to come.
Logout == [pc : {"off", "revoke", "grants", "list", "delete", "destroy", "context",
                 "untag", "clients", "job", "reply", "done"},
           sid : Sids \cup {NoSid}, todo : SUBSET Grants, grant : Grants \cup {NoGrant},
           seen : SUBSET Artifact, left : 0..2, clients : SUBSET Clients]
NoLogout == [pc |-> "off", sid |-> NoSid, todo |-> {}, grant |-> NoGrant,
             seen |-> {}, left |-> 0, clients |-> {}]

Init ==
    /\ session = [s \in Sids |-> "NONE"]
    /\ cookie = NoSid
    /\ flow = [f \in Flows |-> NoFlow]
    /\ logout = [l \in Logouts |-> NoLogout]
    /\ joined = [s \in Sids |-> {}]
    /\ ctx = [g \in Grants |-> NoSid]
    /\ tagged = [s \in Sids |-> {}]
    /\ live = {}
    /\ stored = {}
    /\ listed = [g \in Grants |-> {}]
    /\ opGrant = [c \in Clients |-> NoGrant]
    /\ jobs = {}
    /\ faults = 0

Resting == {"off", "done"}
Quiet == (\A f \in Flows : flow[f].pc \in Resting) /\ (\A l \in Logouts : logout[l].pc \in Resting)
MayBegin == Overlap \/ Quiet

\* The session a request finds with the cookie of the browser.
Current == IF cookie # NoSid /\ session[cookie] = "ACTIVE" THEN cookie ELSE NoSid

Go(f, pc) == flow' = [flow EXCEPT ![f].pc = pc]

-----------------------------------------------------------------------------
(* A sign-in or a handoff, from the request that has its session.          *)

\* A flow for client c on session s, at a sign-in's finish or a handoff's
\* deliver.  ctx.grantId comes with the interaction.
Started(c, s, new) ==
    {[NoFlow EXCEPT !.pc = "find", !.client = c, !.sid = s, !.fresh = new, !.grant = opGrant[c]],
     [NoFlow EXCEPT !.pc = "handoff", !.client = c, !.sid = s, !.fresh = new]}

\* Password login: always a new session; the old one is left alone.  The login
\* may end with a page instead, asking for a second factor or saying why the
\* handoff cannot go on.
Login(f) ==
    /\ flow[f].pc = "off" /\ MayBegin
    /\ \E c \in Clients, s \in Sids :
         /\ session[s] = "NONE"
         /\ session' = [session EXCEPT ![s] = "ACTIVE"]
         /\ \E new \in Started(c, s, TRUE) \cup
                        {[NoFlow EXCEPT !.pc = "page", !.client = c, !.sid = s, !.fresh = TRUE]} :
              flow' = [flow EXCEPT ![f] = new]
    /\ UNCHANGED <<cookie, logout, stores, opGrant, faults>>

ShowPage(f) ==
    /\ flow[f].pc = "page"
    /\ cookie' = flow[f].sid
    /\ Go(f, "done")
    /\ UNCHANGED <<session, logout, stores, opGrant, faults>>

\* A live session is reused, MFA done or not needed.
Reuse(f) ==
    /\ flow[f].pc = "off" /\ MayBegin
    /\ Current # NoSid
    /\ \E c \in Clients : \E new \in Started(c, Current, FALSE) :
         flow' = [flow EXCEPT ![f] = new]
    /\ UNCHANGED <<session, cookie, logout, stores, opGrant, faults>>

\* getActiveMember finds no member any more: the session is revoked, and no
\* follow-up is run.
FindGone(f) ==
    /\ MemberLeaves
    /\ flow[f].pc = "off" /\ MayBegin
    /\ Current # NoSid
    /\ flow' = [flow EXCEPT ![f] = [NoFlow EXCEPT !.pc = "gone", !.sid = Current]]
    /\ UNCHANGED <<session, cookie, logout, stores, opGrant, faults>>

RevokeGone(f) ==
    /\ flow[f].pc = "gone"
    /\ session' = [session EXCEPT ![flow[f].sid] = "REVOKED"]
    /\ cookie' = NoSid
    /\ Go(f, "done")
    /\ UNCHANGED <<logout, stores, opGrant, faults>>

FindGrant(f) ==
    /\ flow[f].pc = "find"
    /\ \E g \in Grants :
         /\ IF flow[f].grant \in live THEN g = flow[f].grant
            ELSE \A h \in Flows : flow[h].grant # g
         /\ flow' = [flow EXCEPT ![f].pc = "save", ![f].grant = g]
    /\ UNCHANGED <<session, cookie, logout, stores, opGrant, faults>>

SaveGrant(f) ==
    /\ flow[f].pc = "save"
    /\ live' = live \cup {flow[f].grant}
    /\ Go(f, "context")
    /\ UNCHANGED <<session, cookie, logout, joined, ctx, tagged, stored, listed, jobs, opGrant, faults>>

SetContext(f) ==
    /\ flow[f].pc = "context"
    /\ ctx' = [ctx EXCEPT ![flow[f].grant] = flow[f].sid]
    /\ Go(f, "tag")
    /\ UNCHANGED <<session, cookie, logout, joined, tagged, live, stored, listed, jobs, opGrant, faults>>

\* Mutant: SET instead of SADD.
TagGrantAlone(f) ==
    /\ flow[f].pc = "tag"
    /\ tagged' = [tagged EXCEPT ![flow[f].sid] = {flow[f].grant}]
    /\ Go(f, "join")
    /\ UNCHANGED <<session, cookie, logout, joined, ctx, live, stored, listed, jobs, opGrant, faults>>

TagGrant(f) ==
    /\ flow[f].pc = "tag"
    /\ tagged' = [tagged EXCEPT ![flow[f].sid] = @ \cup {flow[f].grant}]
    /\ Go(f, "join")
    /\ UNCHANGED <<session, cookie, logout, joined, ctx, live, stored, listed, jobs, opGrant, faults>>

\* Mutants: only a handoff joins; ON CONFLICT (client_id) instead of (sid, client_id).
JoinByHandoff(f) ==
    /\ flow[f].pc \in {"join", "handoff"}
    /\ joined' = IF flow[f].pc = "handoff"
                   THEN [joined EXCEPT ![flow[f].sid] = @ \cup {flow[f].client}] ELSE joined
    /\ cookie' = IF flow[f].fresh THEN flow[f].sid ELSE cookie
    /\ Go(f, IF flow[f].pc = "join" THEN "resume" ELSE "done")
    /\ UNCHANGED <<session, logout, ctx, tagged, live, stored, listed, jobs, opGrant, faults>>

JoinOnce(f) ==
    /\ flow[f].pc \in {"join", "handoff"}
    /\ joined' = IF \E s \in Sids : flow[f].client \in joined[s] THEN joined
                 ELSE [joined EXCEPT ![flow[f].sid] = @ \cup {flow[f].client}]
    /\ cookie' = IF flow[f].fresh THEN flow[f].sid ELSE cookie
    /\ Go(f, IF flow[f].pc = "join" THEN "resume" ELSE "done")
    /\ UNCHANGED <<session, logout, ctx, tagged, live, stored, listed, jobs, opGrant, faults>>

\* participants.join; the reply that follows sets the cookie of a new session
\* and sends the browser back to the provider.
Join(f) ==
    /\ flow[f].pc \in {"join", "handoff"}
    /\ joined' = [joined EXCEPT ![flow[f].sid] = @ \cup {flow[f].client}]
    /\ cookie' = IF flow[f].fresh THEN flow[f].sid ELSE cookie
    /\ Go(f, IF flow[f].pc = "join" THEN "resume" ELSE "done")
    /\ UNCHANGED <<session, logout, ctx, tagged, live, stored, listed, jobs, opGrant, faults>>

-----------------------------------------------------------------------------
(* oidc-provider, and the adapter it stores codes and tokens with.         *)

\* upsert of an artifact of grant g: the key and its entry in the grant's list
\* in one MULTI.
Upsert(a, g) ==
    /\ stored' = stored \cup {a}
    /\ listed' = [listed EXCEPT ![g] = @ \cup {a}]

Resume(f) ==
    /\ flow[f].pc = "resume"
    /\ IF flow[f].grant \in live
         THEN /\ opGrant' = [opGrant EXCEPT ![flow[f].client] = flow[f].grant]
              /\ Upsert(Code(f), flow[f].grant)
              /\ Go(f, "exchange")
         ELSE Go(f, "done") /\ UNCHANGED <<opGrant, stored, listed>>
    /\ UNCHANGED <<session, cookie, logout, joined, ctx, tagged, live, jobs, faults>>

\* The client exchanges its code, or never does.  claims() names the session
\* the grant's context has now.
Exchange(f) ==
    /\ flow[f].pc = "exchange"
    /\ \/ /\ Code(f) \in stored /\ flow[f].grant \in live
          /\ flow' = [flow EXCEPT ![f].pc = "token", ![f].named = ctx[flow[f].grant]]
       \/ Go(f, "done")
    /\ UNCHANGED <<session, cookie, logout, stores, opGrant, faults>>

SaveToken(f) ==
    /\ flow[f].pc = "token"
    /\ Upsert(Token(f), flow[f].grant)
    /\ Go(f, "done")
    /\ UNCHANGED <<session, cookie, logout, joined, ctx, tagged, live, jobs, opGrant, faults>>

-----------------------------------------------------------------------------
(* Logout: start or confirm, perform, endSession, revokeGrants.            *)

LStep(l, pc) == logout' = [logout EXCEPT ![l].pc = pc]
Keep(except) == UNCHANGED <<flow, opGrant, faults>> /\ UNCHANGED except

\* load; without a session there is nothing to end.
Load(l) ==
    /\ logout[l].pc = "off" /\ MayBegin
    /\ logout' = [logout EXCEPT ![l] =
                    IF Current = NoSid THEN [NoLogout EXCEPT !.pc = "reply"]
                    ELSE [NoLogout EXCEPT !.pc = "revoke", !.sid = Current]]
    /\ Keep(<<session, cookie, stores>>)

\* repo.revoke says whether it was this request that revoked the session; the
\* service does not ask.
Revoke(l) ==
    /\ logout[l].pc = "revoke"
    /\ session' = [session EXCEPT ![logout[l].sid] = "REVOKED"]
    /\ LStep(l, "grants")
    /\ Keep(<<cookie, stores>>)

\* Mutant: the loop ends with the first grant.
NextGrantFirst(q, todo) ==
    IF todo = {} THEN {[q EXCEPT !.pc = "untag", !.todo = {}, !.grant = NoGrant]}
    ELSE {[q EXCEPT !.pc = "list", !.todo = {}, !.grant = g, !.left = 2] : g \in todo}

\* What revokeGrants does next with grants todo.
NextGrant(q, todo) ==
    IF todo = {} THEN {[q EXCEPT !.pc = "untag", !.todo = {}, !.grant = NoGrant]}
    ELSE {[q EXCEPT !.pc = "list", !.todo = todo \ {g}, !.grant = g, !.left = 2] : g \in todo}

ReadGrants(l) ==
    /\ logout[l].pc = "grants"
    /\ \E q \in NextGrant(logout[l], tagged[logout[l].sid]) : logout' = [logout EXCEPT ![l] = q]
    /\ Keep(<<session, cookie, stores>>)

\* revokeByGrantId, for access tokens and then for codes; both use one list.
ListTokens(l) ==
    /\ logout[l].pc = "list"
    /\ logout' = [logout EXCEPT ![l].pc = "delete", ![l].seen = listed[logout[l].grant]]
    /\ Keep(<<session, cookie, stores>>)

DeleteTokens(l) ==
    /\ logout[l].pc = "delete"
    /\ stored' = stored \ logout[l].seen
    /\ listed' = [listed EXCEPT ![logout[l].grant] = {}]
    /\ logout' = [logout EXCEPT ![l].pc = IF logout[l].left = 2 THEN "list" ELSE "destroy",
                                ![l].seen = {}, ![l].left = @ - 1]
    /\ Keep(<<session, cookie, joined, ctx, tagged, live, jobs>>)

DestroyGrant(l) ==
    /\ logout[l].pc = "destroy"
    /\ live' = live \ {logout[l].grant}
    /\ LStep(l, "context")
    /\ Keep(<<session, cookie, joined, ctx, tagged, stored, listed, jobs>>)

DropContext(l) ==
    /\ logout[l].pc = "context"
    /\ ctx' = [ctx EXCEPT ![logout[l].grant] = NoSid]
    /\ \E q \in NextGrant(logout[l], logout[l].todo) : logout' = [logout EXCEPT ![l] = q]
    /\ Keep(<<session, cookie, joined, tagged, live, stored, listed, jobs>>)

Untag(l) ==
    /\ logout[l].pc = "untag"
    /\ tagged' = [tagged EXCEPT ![logout[l].sid] = {}]
    /\ LStep(l, "clients")
    /\ Keep(<<session, cookie, joined, ctx, live, stored, listed, jobs>>)

\* Mutant: only the clients that hold an ID token.
ReadClientsNamed(l) ==
    /\ logout[l].pc = "clients"
    /\ logout' = [logout EXCEPT ![l].pc = "job",
                     ![l].clients = {flow[f].client : f \in {h \in Flows : flow[h].named = logout[l].sid}}]
    /\ Keep(<<session, cookie, stores>>)

ReadClients(l) ==
    /\ logout[l].pc = "clients"
    /\ logout' = [logout EXCEPT ![l].pc = "job", ![l].clients = joined[logout[l].sid]]
    /\ Keep(<<session, cookie, stores>>)

CreateJob(l) ==
    /\ logout[l].pc = "job"
    /\ jobs' = jobs \cup {[by |-> l, sid |-> logout[l].sid, clients |-> logout[l].clients]}
    /\ LStep(l, "reply")
    /\ Keep(<<session, cookie, joined, ctx, tagged, live, stored, listed>>)

Reply(l) ==
    /\ logout[l].pc = "reply"
    /\ cookie' = NoSid
    /\ LStep(l, "done")
    /\ Keep(<<session, stores>>)

-----------------------------------------------------------------------------
(* Faults: an await fails, or the process dies in it.                      *)

Fault == faults < MaxFaults /\ faults' = faults + 1

\* The sign-in ends where it is.
FlowFails(f) ==
    /\ flow[f].pc \notin Resting
    /\ Fault
    /\ Go(f, "done")
    /\ UNCHANGED <<session, cookie, logout, stores, opGrant>>

\* One grant fails: its context is dropped and revokeGrants goes on.
GrantFails(l) ==
    /\ logout[l].pc \in {"list", "delete", "destroy"}
    /\ Fault
    /\ logout' = [logout EXCEPT ![l].pc = "context", ![l].seen = {}, ![l].left = 0]
    /\ UNCHANGED <<session, cookie, flow, stores, opGrant>>

\* The follow-up fails: the member is logged out all the same.
FollowUpFails(l) ==
    /\ logout[l].pc \in {"grants", "context", "untag", "clients", "job"}
    /\ Fault
    /\ LStep(l, "reply")
    /\ UNCHANGED <<session, cookie, flow, stores, opGrant>>

Dies(l) ==
    /\ logout[l].pc \notin Resting
    /\ Fault
    /\ LStep(l, "done")
    /\ UNCHANGED <<session, cookie, flow, stores, opGrant>>

FlowStep(f) ==
    \/ Login(f) \/ ShowPage(f) \/ Reuse(f) \/ FindGone(f) \/ RevokeGone(f)
    \/ FindGrant(f) \/ SaveGrant(f) \/ SetContext(f) \/ TagGrant(f) \/ Join(f)
    \/ Resume(f) \/ Exchange(f) \/ SaveToken(f) \/ FlowFails(f)

LogoutStep(l) ==
    \/ Load(l) \/ Revoke(l) \/ ReadGrants(l) \/ ListTokens(l) \/ DeleteTokens(l)
    \/ DestroyGrant(l) \/ DropContext(l) \/ Untag(l) \/ ReadClients(l) \/ CreateJob(l)
    \/ Reply(l) \/ GrantFails(l) \/ FollowUpFails(l) \/ Dies(l)

Next == (\E f \in Flows : FlowStep(f)) \/ (\E l \in Logouts : LogoutStep(l))

Spec == Init /\ [][Next]_vars

-----------------------------------------------------------------------------
(* Properties.                                                             *)

\* Every variable stays in its domain.
TypeOK ==
    /\ session \in [Sids -> {"NONE", "ACTIVE", "REVOKED"}]
    /\ cookie \in Sids \cup {NoSid}
    /\ flow \in [Flows -> Flow]
    /\ logout \in [Logouts -> Logout]
    /\ joined \in [Sids -> SUBSET Clients]
    /\ ctx \in [Grants -> Sids \cup {NoSid}]
    /\ tagged \in [Sids -> SUBSET Grants]
    /\ live \subseteq Grants
    /\ stored \subseteq Artifact
    /\ listed \in [Grants -> SUBSET Artifact]
    /\ opGrant \in [Clients -> Grants \cup {NoGrant}]
    /\ jobs \subseteq [by : Logouts, sid : Sids, clients : SUBSET Clients]
    /\ faults \in Nat

\* A code or token of a session is only ever given to a client that the session
\* lists, so a logout that begins later notifies it.
JoinedBeforeServed == \A a \in stored : flow[a[1]].client \in joined[flow[a[1]].sid]

\* A code or token of an active session can be found from the session: a logout
\* that begins later revokes it, also when sign-ins share a grant and when
\* another session that used it was logged out.
FoundFromSession ==
    \A a \in stored :
      LET f == flow[a[1]]
      IN  session[f.sid] = "ACTIVE" => f.grant \in tagged[f.sid]

\* The sid an application was given in an ID token is that of a session that
\* lists the application, once nothing is in progress: the logout of that
\* session reaches it.
NamedSessionListsClient ==
    Quiet /\ faults = 0 =>
      \A f \in Flows : flow[f].named # NoSid => flow[f].client \in joined[flow[f].named]

\* The codes and tokens of session s that still work.
Working(s) == {a \in stored : flow[a[1]].sid = s /\ flow[a[1]].grant \in live}

\* A logout leaves no token of its session working.
LogoutEndsTokens ==
    Quiet => \A l \in Logouts : logout[l].pc = "done" /\ logout[l].sid # NoSid
                                  => Working(logout[l].sid) = {}

\* The same as long as no await has failed.
LogoutEndsTokensUnlessFailed == faults = 0 => LogoutEndsTokens

\* Every client that joined a session that was logged out has a delivery.
EveryClientQueued ==
    Quiet => \A l \in Logouts : logout[l].pc = "done" /\ logout[l].sid # NoSid =>
      joined[logout[l].sid] \subseteq UNION {j.clients : j \in {k \in jobs : k.sid = logout[l].sid}}

\* The same as long as no await has failed.
EveryClientQueuedUnlessFailed == faults = 0 => EveryClientQueued

=============================================================================
