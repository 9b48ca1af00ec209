------------------------ MODULE SessionLogoutProofs ------------------------
(***************************************************************************)
(* What SessionLogout keeps for any number of sign-ins, logouts, sessions, *)
(* clients and grants, overlapping and failing anywhere: whoever holds a   *)
(* code or token of a session is listed by it, and its grant can be found  *)
(* from it.  The induction is on the order finish works in: tag, join,     *)
(* only then an artifact.                                                  *)
(***************************************************************************)
EXTENDS SessionLogout, TLAPS

\* The pcs of a flow that has tagged its grant, and of one that has joined.
Tagged == {"join", "resume", "exchange", "token"}
Joined == {"resume", "exchange", "token"}

\* The flows whose artifacts exist or may still come to exist.
Serving == {f \in Flows : flow[f].pc \in Joined \/ \E k \in {"code", "token"} : <<f, k>> \in stored}
Tagging == {f \in Flows : flow[f].pc = "join"} \cup Serving

\* What a flow has by the time it needs it; a flow with an artifact is past
\* its finish.
Begun ==
    /\ \A f \in Flows : flow[f].pc # "off" => flow[f].sid \in Sids /\ session[flow[f].sid] # "NONE"
    /\ \A f \in Flows :
         flow[f].pc \notin {"off", "gone", "done"} => flow[f].client \in Clients
    /\ \A f \in Flows :
         flow[f].pc \in {"save", "context", "tag"} \cup Tagged => flow[f].grant \in Grants
    /\ \A f \in Serving : flow[f].pc \in Joined \cup {"done"}

\* A logout works on a session it has found, and on a grant of it.
LogoutBegun ==
    \A l \in Logouts :
      /\ logout[l].pc \notin {"off", "reply", "done"} => logout[l].sid \in Sids
      /\ logout[l].pc \in {"list", "delete", "destroy", "context"} => logout[l].grant \in Grants
      /\ logout[l].pc \in {"list", "delete"} => logout[l].left \in {1, 2}

\* The grants of a session are forgotten only after it was revoked.
RevokedFirst ==
    \A l \in Logouts :
      logout[l].pc \notin {"off", "revoke", "reply", "done"} => session[logout[l].sid] = "REVOKED"

Listed == \A f \in Serving : flow[f].client \in joined[flow[f].sid]
Findable ==
    \A f \in Tagging : session[flow[f].sid] = "ACTIVE" => flow[f].grant \in tagged[flow[f].sid]

Inv == TypeOK /\ Begun /\ LogoutBegun /\ RevokedFirst /\ Listed /\ Findable

-----------------------------------------------------------------------------
(* Typing.                                                                 *)

LEMMA NullTypes == NoFlow \in Flow /\ NoLogout \in Logout
BY DEF NoFlow, NoLogout, Flow, Logout

LEMMA CurrentType == ASSUME TypeOK, Current # NoSid PROVE Current \in Sids /\ session[Current] = "ACTIVE"
BY DEF TypeOK, Current

LEMMA StartedType == ASSUME TypeOK, NEW c \in Clients, NEW s \in Sids, NEW b \in BOOLEAN
                     PROVE  Started(c, s, b) \subseteq Flow
<1>1. opGrant[c] \in Grants \cup {NoGrant} BY DEF TypeOK
<1>2. [NoFlow EXCEPT !.pc = "find", !.client = c, !.sid = s, !.fresh = b, !.grant = opGrant[c]] \in Flow
  BY <1>1 DEF NoFlow, Flow
<1>3. [NoFlow EXCEPT !.pc = "handoff", !.client = c, !.sid = s, !.fresh = b] \in Flow
  BY DEF NoFlow, Flow
<1>. QED BY <1>2, <1>3 DEF Started

LEMMA StateTypes ==
    ASSUME TypeOK
    PROVE  /\ \A f \in Flows : flow[f] \in Flow
           /\ \A l \in Logouts : logout[l] \in Logout
           /\ flow \in [Flows -> Flow] /\ logout \in [Logouts -> Logout]
BY DEF TypeOK

LEMMA GoType == ASSUME TypeOK, NEW f \in Flows, NEW pc, Go(f, pc),
                       pc \in {"context", "tag", "join", "resume", "exchange", "done"}
                PROVE  flow' \in [Flows -> Flow]
<1>1. [flow[f] EXCEPT !.pc = pc] \in Flow BY DEF TypeOK, Flow
<1>. QED BY <1>1 DEF Go, TypeOK

LEMMA UpsertType ==
    ASSUME TypeOK, NEW a \in Artifact, NEW g \in Grants, Upsert(a, g)
    PROVE  stored' \subseteq Artifact /\ listed' \in [Grants -> SUBSET Artifact]
BY DEF TypeOK, Upsert

LEMMA LoginType == ASSUME TypeOK, Begun, NEW f \in Flows, Login(f) PROVE TypeOK'
<1>1. PICK c \in Clients, s \in Sids :
        /\ session' = [session EXCEPT ![s] = "ACTIVE"]
        /\ \E new \in Started(c, s, TRUE) \cup
                       {[NoFlow EXCEPT !.pc = "page", !.client = c, !.sid = s, !.fresh = TRUE]} :
             flow' = [flow EXCEPT ![f] = new]
  BY DEF Login
<1>2. [NoFlow EXCEPT !.pc = "page", !.client = c, !.sid = s, !.fresh = TRUE] \in Flow
  BY DEF NoFlow, Flow
<1>3. flow' \in [Flows -> Flow] BY <1>1, <1>2, StartedType DEF TypeOK
<1>. QED BY <1>1, <1>3 DEF Login, TypeOK, stores

LEMMA ShowPageType == ASSUME TypeOK, Begun, NEW f \in Flows, ShowPage(f) PROVE TypeOK'
<1>1. flow' \in [Flows -> Flow] BY GoType DEF ShowPage
<1>. QED BY <1>1 DEF ShowPage, TypeOK, Begun, stores

LEMMA ReuseType == ASSUME TypeOK, Begun, NEW f \in Flows, Reuse(f) PROVE TypeOK'
<1>1. PICK c \in Clients : \E new \in Started(c, Current, FALSE) : flow' = [flow EXCEPT ![f] = new]
  BY DEF Reuse
<1>2. flow' \in [Flows -> Flow] BY <1>1, StartedType, CurrentType DEF Reuse, TypeOK
<1>. QED BY <1>2 DEF Reuse, TypeOK, stores

LEMMA FindGoneType == ASSUME TypeOK, Begun, NEW f \in Flows, FindGone(f) PROVE TypeOK'
BY NullTypes, CurrentType DEF FindGone, TypeOK, Begun, Flow, stores, NoFlow

LEMMA RevokeGoneType == ASSUME TypeOK, Begun, NEW f \in Flows, RevokeGone(f) PROVE TypeOK'
BY NullTypes, CurrentType DEF RevokeGone, TypeOK, Begun, Flow, stores, Go

LEMMA FindGrantType == ASSUME TypeOK, Begun, NEW f \in Flows, FindGrant(f) PROVE TypeOK'
<1>1. PICK g \in Grants : flow' = [flow EXCEPT ![f].pc = "save", ![f].grant = g]
  BY DEF FindGrant
<1>2. [flow[f] EXCEPT !.pc = "save", !.grant = g] \in Flow BY StateTypes DEF Flow
<1>3. flow' \in [Flows -> Flow] BY <1>1, <1>2 DEF TypeOK
<1>. QED BY <1>3 DEF FindGrant, TypeOK, stores

LEMMA SaveGrantType == ASSUME TypeOK, Begun, NEW f \in Flows, SaveGrant(f) PROVE TypeOK'
<1>1. flow' \in [Flows -> Flow] BY GoType DEF SaveGrant
<1>. QED BY <1>1 DEF SaveGrant, TypeOK, Begun, Tagged, Joined

LEMMA SetContextType == ASSUME TypeOK, Begun, NEW f \in Flows, SetContext(f) PROVE TypeOK'
<1>1. flow' \in [Flows -> Flow] BY GoType DEF SetContext
<1>. QED BY <1>1 DEF SetContext, TypeOK, Begun, Tagged, Joined

LEMMA TagGrantType == ASSUME TypeOK, Begun, NEW f \in Flows, TagGrant(f) PROVE TypeOK'
<1>1. flow' \in [Flows -> Flow] BY GoType DEF TagGrant
<1>. QED BY <1>1 DEF TagGrant, TypeOK, Begun, Tagged, Joined

LEMMA JoinType == ASSUME TypeOK, Begun, NEW f \in Flows, Join(f) PROVE TypeOK'
<1>1. flow' \in [Flows -> Flow] BY GoType DEF Join
<1>. QED BY <1>1 DEF Join, TypeOK, Begun, Tagged, Joined

LEMMA ResumeType == ASSUME TypeOK, Begun, NEW f \in Flows, Resume(f) PROVE TypeOK'
<1>1. flow' \in [Flows -> Flow] BY GoType DEF Resume
<1>2. flow[f].client \in Clients /\ flow[f].grant \in Grants BY DEF Resume, Begun, Tagged, Joined
<1>3. Code(f) \in Artifact BY DEF Code, Artifact
<1>4. stored' \subseteq Artifact /\ listed' \in [Grants -> SUBSET Artifact]
  BY <1>2, <1>3, UpsertType DEF Resume, TypeOK
<1>5. opGrant' \in [Clients -> Grants \cup {NoGrant}] BY <1>2 DEF Resume, TypeOK
<1>. QED BY <1>1, <1>4, <1>5 DEF Resume, TypeOK

LEMMA ExchangeType == ASSUME TypeOK, Begun, NEW f \in Flows, Exchange(f) PROVE TypeOK'
<1>1. flow[f].grant \in Grants BY DEF Exchange, Begun, Tagged
<1>2. CASE Go(f, "done") BY <1>2, GoType DEF Exchange, TypeOK, stores
<1>3. CASE flow' = [flow EXCEPT ![f].pc = "token", ![f].named = ctx[flow[f].grant]]
  <2>1. [flow[f] EXCEPT !.pc = "token", !.named = ctx[flow[f].grant]] \in Flow
    <3>1. ctx[flow[f].grant] \in Sids \cup {NoSid} BY <1>1 DEF TypeOK
    <3>. QED BY <3>1, StateTypes DEF Flow
  <2>2. flow' \in [Flows -> Flow] BY <1>3, <2>1 DEF TypeOK
  <2>. QED BY <2>2 DEF Exchange, TypeOK, stores
<1>. QED BY <1>2, <1>3 DEF Exchange

LEMMA SaveTokenType == ASSUME TypeOK, Begun, NEW f \in Flows, SaveToken(f) PROVE TypeOK'
<1>1. flow' \in [Flows -> Flow] BY GoType DEF SaveToken
<1>2. flow[f].grant \in Grants BY DEF SaveToken, Begun, Tagged
<1>3. Token(f) \in Artifact BY DEF Token, Artifact
<1>4. stored' \subseteq Artifact /\ listed' \in [Grants -> SUBSET Artifact]
  BY <1>2, <1>3, UpsertType DEF SaveToken
<1>. QED BY <1>1, <1>4 DEF SaveToken, TypeOK

LEMMA FlowFailsType == ASSUME TypeOK, Begun, NEW f \in Flows, FlowFails(f) PROVE TypeOK'
<1>1. flow' \in [Flows -> Flow] BY GoType DEF FlowFails
<1>2. faults' \in Nat BY DEF FlowFails, Fault, TypeOK
<1>. QED BY <1>1, <1>2 DEF FlowFails, TypeOK, stores

LEMMA LStepType ==
    ASSUME TypeOK, NEW l \in Logouts, NEW pc, LStep(l, pc),
           pc \in {"grants", "context", "clients", "reply", "done"}
    PROVE  logout' \in [Logouts -> Logout]
<1>1. [logout[l] EXCEPT !.pc = pc] \in Logout BY StateTypes DEF Logout
<1>. QED BY <1>1 DEF LStep, TypeOK

LEMMA LeftType == ASSUME NEW q \in Logout, NEW n \in {0, 2} PROVE [q EXCEPT !.left = n] \in Logout
BY DEF Logout

LEMMA NextGrantType ==
    ASSUME NEW q \in Logout, NEW todo \in SUBSET Grants
    PROVE  NextGrant(q, todo) \subseteq Logout
<1>1. [q EXCEPT !.pc = "untag", !.todo = {}, !.grant = NoGrant] \in Logout BY DEF Logout
<1>2. ASSUME NEW g \in todo
      PROVE  [q EXCEPT !.pc = "list", !.todo = todo \ {g}, !.grant = g, !.left = 2] \in Logout
  <2>1. [q EXCEPT !.pc = "list"] \in Logout BY DEF Logout
  <2>2. [q EXCEPT !.pc = "list", !.todo = todo \ {g}] \in Logout BY <2>1 DEF Logout
  <2>3. [q EXCEPT !.pc = "list", !.todo = todo \ {g}, !.grant = g] \in Logout BY <2>2 DEF Logout
  <2>. QED BY <2>3, LeftType
<1>. QED BY <1>1, <1>2 DEF NextGrant

LEMMA LoadType == ASSUME TypeOK, LogoutBegun, NEW l \in Logouts, Load(l) PROVE TypeOK'
BY NullTypes, CurrentType DEF Load, TypeOK, LogoutBegun, Logout, stores, Keep, NoLogout

LEMMA RevokeType == ASSUME TypeOK, LogoutBegun, NEW l \in Logouts, Revoke(l) PROVE TypeOK'
<1>1. logout' \in [Logouts -> Logout] BY LStepType DEF Revoke
<1>. QED BY <1>1 DEF Revoke, TypeOK, LogoutBegun, Keep, stores

LEMMA DestroyGrantType == ASSUME TypeOK, LogoutBegun, NEW l \in Logouts, DestroyGrant(l) PROVE TypeOK'
<1>1. logout' \in [Logouts -> Logout] BY LStepType DEF DestroyGrant
<1>. QED BY <1>1 DEF DestroyGrant, TypeOK, LogoutBegun, Keep, stores

LEMMA UntagType == ASSUME TypeOK, LogoutBegun, NEW l \in Logouts, Untag(l) PROVE TypeOK'
<1>1. logout' \in [Logouts -> Logout] BY LStepType DEF Untag
<1>. QED BY <1>1 DEF Untag, TypeOK, LogoutBegun, Keep, stores

LEMMA CreateJobType == ASSUME TypeOK, LogoutBegun, NEW l \in Logouts, CreateJob(l) PROVE TypeOK'
<1>1. logout' \in [Logouts -> Logout] BY LStepType DEF CreateJob
<1>2. logout[l].sid \in Sids /\ logout[l].clients \in SUBSET Clients
  BY DEF CreateJob, LogoutBegun, TypeOK, Logout
<1>3. jobs' \subseteq [by : Logouts, sid : Sids, clients : SUBSET Clients]
  BY <1>2 DEF CreateJob, TypeOK
<1>. QED BY <1>1, <1>3 DEF CreateJob, TypeOK, Keep

LEMMA ReplyType == ASSUME TypeOK, LogoutBegun, NEW l \in Logouts, Reply(l) PROVE TypeOK'
<1>1. logout' \in [Logouts -> Logout] BY LStepType DEF Reply
<1>. QED BY <1>1 DEF Reply, TypeOK, LogoutBegun, Keep, stores

LEMMA ReadGrantsType == ASSUME TypeOK, LogoutBegun, NEW l \in Logouts, ReadGrants(l) PROVE TypeOK'
<1>1. logout[l] \in Logout /\ tagged[logout[l].sid] \in SUBSET Grants
  BY DEF ReadGrants, LogoutBegun, TypeOK, Logout
<1>2. logout' \in [Logouts -> Logout] BY <1>1, NextGrantType DEF ReadGrants, TypeOK
<1>. QED BY <1>2 DEF ReadGrants, TypeOK, Keep, stores

LEMMA DropContextType == ASSUME TypeOK, LogoutBegun, NEW l \in Logouts, DropContext(l) PROVE TypeOK'
<1>1. logout[l] \in Logout /\ logout[l].todo \in SUBSET Grants
  BY DEF DropContext, LogoutBegun, TypeOK, Logout
<1>2. logout' \in [Logouts -> Logout] BY <1>1, NextGrantType DEF DropContext, TypeOK
<1>. QED BY <1>2 DEF DropContext, TypeOK, Keep, stores

LEMMA ReadClientsType == ASSUME TypeOK, LogoutBegun, NEW l \in Logouts, ReadClients(l) PROVE TypeOK'
<1>1. [logout[l] EXCEPT !.pc = "job", !.clients = joined[logout[l].sid]] \in Logout
  <2>1. joined[logout[l].sid] \in SUBSET Clients BY DEF ReadClients, LogoutBegun, TypeOK
  <2>. QED BY <2>1, StateTypes DEF Logout
<1>2. logout' \in [Logouts -> Logout] BY <1>1 DEF ReadClients, TypeOK
<1>. QED BY <1>2 DEF ReadClients, TypeOK, Keep, stores

LEMMA ListTokensType == ASSUME TypeOK, LogoutBegun, NEW l \in Logouts, ListTokens(l) PROVE TypeOK'
<1>1. listed[logout[l].grant] \in SUBSET Artifact BY DEF ListTokens, LogoutBegun, TypeOK
<1>2. [logout[l] EXCEPT !.pc = "delete", !.seen = listed[logout[l].grant]] \in Logout
  BY <1>1, StateTypes DEF Logout
<1>3. logout' \in [Logouts -> Logout] BY <1>2 DEF ListTokens, TypeOK
<1>. QED BY <1>3 DEF ListTokens, TypeOK, Keep, stores

LEMMA DeleteTokensType == ASSUME TypeOK, LogoutBegun, NEW l \in Logouts, DeleteTokens(l) PROVE TypeOK'
BY NullTypes, CurrentType DEF DeleteTokens, TypeOK, LogoutBegun, Logout, stores, Keep, Artifact

LEMMA GrantFailsType == ASSUME TypeOK, LogoutBegun, NEW l \in Logouts, GrantFails(l) PROVE TypeOK'
<1>1. [logout[l] EXCEPT !.pc = "context", !.seen = {}, !.left = 0] \in Logout
  <2>1. [logout[l] EXCEPT !.pc = "context"] \in Logout BY StateTypes DEF Logout
  <2>2. [logout[l] EXCEPT !.pc = "context", !.seen = {}] \in Logout BY <2>1 DEF Logout
  <2>. QED BY <2>2, LeftType
<1>2. logout' \in [Logouts -> Logout] BY <1>1 DEF GrantFails, TypeOK
<1>3. faults' \in Nat BY DEF GrantFails, Fault, TypeOK
<1>. QED BY <1>2, <1>3 DEF GrantFails, TypeOK, stores

LEMMA FollowUpFailsType == ASSUME TypeOK, LogoutBegun, NEW l \in Logouts, FollowUpFails(l) PROVE TypeOK'
<1>1. logout' \in [Logouts -> Logout] BY LStepType DEF FollowUpFails
<1>2. faults' \in Nat BY DEF FollowUpFails, Fault, TypeOK
<1>. QED BY <1>1, <1>2 DEF FollowUpFails, TypeOK, stores

LEMMA DiesType == ASSUME TypeOK, LogoutBegun, NEW l \in Logouts, Dies(l) PROVE TypeOK'
<1>1. logout' \in [Logouts -> Logout] BY LStepType DEF Dies
<1>2. faults' \in Nat BY DEF Dies, Fault, TypeOK
<1>. QED BY <1>1, <1>2 DEF Dies, TypeOK, stores

-----------------------------------------------------------------------------
(* Every step keeps the rest of the invariant.                             *)

Core == Begun /\ LogoutBegun /\ RevokedFirst /\ Listed /\ Findable

LEMMA FlowOnly ==
    ASSUME Inv, NEW f \in Flows, NEW q, flow' = [flow EXCEPT ![f] = q],
           f \notin Serving \/ q.pc = "done",
           q.pc \in {"page", "gone", "handoff", "find", "save", "context", "tag", "done"},
           q.sid \in Sids, session[q.sid] # "NONE",
           q.pc \notin {"gone", "done"} => q.client \in Clients,
           q.pc \in {"save", "context", "tag"} => q.grant \in Grants,
           f \in Serving => /\ q.sid = flow[f].sid /\ q.client = flow[f].client
                            /\ q.grant = flow[f].grant,
           UNCHANGED <<session, logout, joined, tagged, stored>>
    PROVE  Core'
<1>. USE DEF Inv, TypeOK
<1>1. flow'[f] = q /\ \A h \in Flows \ {f} : flow'[h] = flow[h] OBVIOUS
<1>2. Serving' \subseteq Serving /\ Tagging' \subseteq Tagging BY <1>1 DEF Serving, Tagging, Joined
<1>3. f \in Serving' => q.pc = "done" BY <1>1, <1>2
<1>4. Begun' BY <1>1, <1>2, <1>3 DEF Begun, Tagged, Joined
<1>5. LogoutBegun' /\ RevokedFirst' BY DEF LogoutBegun, RevokedFirst
<1>6. Listed' BY <1>1, <1>2 DEF Listed
<1>7. Findable'
  <2>1. f \in Tagging' => f \in Serving BY <1>1 DEF Tagging, Serving, Joined
  <2>. QED BY <1>1, <1>2, <2>1 DEF Findable
<1>. QED BY <1>4, <1>5, <1>6, <1>7 DEF Core

LEMMA TaggingBegun ==
    ASSUME Inv, NEW h \in Tagging
    PROVE  /\ h \in Flows /\ flow[h].pc # "off"
           /\ flow[h].sid \in Sids /\ session[flow[h].sid] # "NONE"
<1>1. h \in Flows BY DEF Tagging, Serving
<1>2. flow[h].pc # "off" BY <1>1 DEF Inv, Begun, Tagging, Joined
<1>. QED BY <1>1, <1>2 DEF Inv, Begun

LEMMA ServingTagging == Serving \subseteq Tagging /\ Serving \subseteq Flows
BY DEF Serving, Tagging

LEMMA LogoutOnly ==
    ASSUME Inv, LogoutBegun', RevokedFirst', UNCHANGED <<session, flow, joined, tagged>>,
           stored' \subseteq stored
    PROVE  Core'
<1>1. Serving' \subseteq Serving /\ Tagging' \subseteq Tagging BY DEF Serving, Tagging
<1>2. Begun' BY <1>1 DEF Inv, Begun
<1>3. Listed' /\ Findable' BY <1>1 DEF Inv, Listed, Findable
<1>. QED BY <1>2, <1>3 DEF Core

LEMMA LoginCore == ASSUME Inv, NEW f \in Flows, Login(f) PROVE Core'
<1>. USE DEF Inv, TypeOK
<1>1. PICK c \in Clients, s \in Sids :
        /\ session[s] = "NONE"
        /\ session' = [session EXCEPT ![s] = "ACTIVE"]
        /\ \E new \in Started(c, s, TRUE) \cup
                       {[NoFlow EXCEPT !.pc = "page", !.client = c, !.sid = s, !.fresh = TRUE]} :
             flow' = [flow EXCEPT ![f] = new]
  BY DEF Login
<1>2. UNCHANGED <<logout, joined, tagged, stored>> BY DEF Login, stores
<1>3. PICK q \in Started(c, s, TRUE) \cup
                 {[NoFlow EXCEPT !.pc = "page", !.client = c, !.sid = s, !.fresh = TRUE]} :
        flow' = [flow EXCEPT ![f] = q]
  BY <1>1
<1>4. q.pc \in {"find", "handoff", "page"} /\ q.sid = s /\ q.client = c
  BY <1>3 DEF Started, NoFlow
<1>5. flow'[f] = q /\ \A h \in Flows \ {f} : flow'[h] = flow[h] BY <1>3
<1>6. f \notin Serving BY DEF Login, Begun, Joined
<1>7. Serving' \subseteq Serving /\ Tagging' \subseteq Tagging /\ f \notin Tagging'
  BY <1>2, <1>4, <1>5, <1>6 DEF Serving, Tagging, Joined
<1>8. Begun' BY <1>1, <1>4, <1>5, <1>7 DEF Begun, Tagged, Joined, Tagging
<1>9. \A r \in Sids : session'[r] = session[r] \/ (r = s /\ session[r] = "NONE") BY <1>1
<1>10. LogoutBegun' BY <1>2 DEF LogoutBegun
<1>11. RevokedFirst' BY <1>2, <1>9 DEF RevokedFirst, LogoutBegun
<1>12. \A h \in Serving' : h \in Serving /\ flow'[h] = flow[h] BY <1>5, <1>6, <1>7, ServingTagging
<1>13. \A h \in Tagging' : h \in Tagging /\ flow'[h] = flow[h] BY <1>5, <1>7, TaggingBegun
<1>14. Listed' BY <1>2, <1>12 DEF Listed
<1>15. \A h \in Tagging' : flow[h].sid \in Sids /\ flow[h].sid # s BY <1>1, <1>13, TaggingBegun
<1>16. Findable' BY <1>2, <1>9, <1>13, <1>15 DEF Findable
<1>. QED BY <1>8, <1>10, <1>11, <1>14, <1>16 DEF Core

LEMMA ReuseCore == ASSUME Inv, NEW f \in Flows, Reuse(f) PROVE Core'
<1>1. PICK c \in Clients : \E q \in Started(c, Current, FALSE) : flow' = [flow EXCEPT ![f] = q]
  BY DEF Reuse
<1>2. PICK q \in Started(c, Current, FALSE) : flow' = [flow EXCEPT ![f] = q] BY <1>1
<1>3. q.pc \in {"find", "handoff"} /\ q.sid = Current /\ q.client = c BY <1>2 DEF Started, NoFlow
<1>4. f \notin Serving BY DEF Reuse, Inv, Begun, Joined
<1>5. UNCHANGED <<session, logout, joined, tagged, stored>> BY DEF Reuse, stores
<1>. QED BY <1>2, <1>3, <1>4, <1>5, FlowOnly, CurrentType DEF Reuse, Inv

LEMMA FindGoneCore == ASSUME Inv, NEW f \in Flows, FindGone(f) PROVE Core'
<1> DEFINE q == [NoFlow EXCEPT !.pc = "gone", !.sid = Current]
<1>1. q.pc = "gone" /\ q.sid = Current BY DEF NoFlow
<1>2. flow' = [flow EXCEPT ![f] = q] BY DEF FindGone
<1>3. f \notin Serving BY DEF FindGone, Inv, Begun, Joined
<1>4. UNCHANGED <<session, logout, joined, tagged, stored>> BY DEF FindGone, stores
<1>5. Current \in Sids /\ session[Current] # "NONE" BY CurrentType DEF FindGone, Inv
<1>. HIDE DEF q
<1>. QED BY <1>1, <1>2, <1>3, <1>4, <1>5, FlowOnly

LEMMA RevokeGoneCore == ASSUME Inv, NEW f \in Flows, RevokeGone(f) PROVE Core'
<1>. USE DEF Inv, TypeOK
<1>1. flow'[f] = [flow[f] EXCEPT !.pc = "done"] /\ \A h \in Flows \ {f} : flow'[h] = flow[h]
  BY DEF RevokeGone, Go
<1>2. UNCHANGED <<logout, joined, tagged, stored>> BY DEF RevokeGone, stores
<1>3. f \notin Serving BY DEF RevokeGone, Begun, Joined
<1>4. flow'[f].sid = flow[f].sid /\ flow'[f].pc = "done" BY <1>1, StateTypes DEF Flow
<1>5. Serving' \subseteq Serving /\ Tagging' \subseteq Tagging /\ f \notin Tagging'
  BY <1>1, <1>2, <1>3, <1>4 DEF Serving, Tagging, Joined
<1>6. flow[f].sid \in Sids BY DEF RevokeGone, Begun
<1>7. \A s \in Sids : session'[s] = session[s] \/ session'[s] = "REVOKED"
  BY DEF RevokeGone
<1>8. Begun'
  <2>1. flow[f].pc # "off" BY DEF RevokeGone
  <2>2. \A h \in Flows : (flow[h].pc # "off" => flow[h].sid \in Sids /\ session[flow[h].sid] # "NONE")'
    <3>1. (flow[f].pc # "off" => flow[f].sid \in Sids /\ session[flow[f].sid] # "NONE")'
      <4>1. session[flow[f].sid] # "NONE" BY <2>1 DEF Begun
      <4>. QED BY <1>4, <1>6, <1>7, <4>1
    <3>2. ASSUME NEW h \in Flows \ {f}
          PROVE  (flow[h].pc # "off" => flow[h].sid \in Sids /\ session[flow[h].sid] # "NONE")'
      BY <1>1, <1>7 DEF Begun
    <3>. QED BY <3>1, <3>2
  <2>3. \A h \in Serving' : h \in Serving /\ flow'[h] = flow[h] BY <1>1, <1>3, <1>5, ServingTagging
  <2>4. \A h \in Flows : flow'[h] = flow[h] \/ flow'[h].pc = "done" BY <1>1, <1>4
  <2>. HIDE DEF Inv, TypeOK, RevokeGone
  <2>. QED BY <2>2, <2>3, <2>4 DEF Begun, Tagged, Joined, Inv
<1>9. LogoutBegun' BY <1>2 DEF LogoutBegun
<1>10. RevokedFirst' BY <1>2, <1>7 DEF RevokedFirst, LogoutBegun
<1>11. \A h \in Tagging' : h \in Tagging /\ flow'[h] = flow[h] BY <1>1, <1>5, TaggingBegun
<1>12. \A h \in Serving' : h \in Serving /\ flow'[h] = flow[h]
  BY <1>1, <1>3, <1>5, ServingTagging
<1>13. Listed' BY <1>2, <1>12 DEF Listed
<1>14. \A h \in Tagging' : flow[h].sid \in Sids BY <1>11, TaggingBegun
<1>15. Findable' BY <1>2, <1>7, <1>11, <1>14 DEF Findable
<1>. QED BY <1>8, <1>9, <1>10, <1>13, <1>15 DEF Core

LEMMA FindGrantCore == ASSUME Inv, NEW f \in Flows, FindGrant(f) PROVE Core'
<1>1. PICK g \in Grants : flow' = [flow EXCEPT ![f].pc = "save", ![f].grant = g] BY DEF FindGrant
<1> DEFINE q == [flow[f] EXCEPT !.pc = "save", !.grant = g]
<1>2. q.pc = "save" /\ q.sid = flow[f].sid /\ q.client = flow[f].client /\ q.grant = g
  BY StateTypes DEF Flow, Inv
<1>3. flow' = [flow EXCEPT ![f] = q] BY <1>1
<1>4. f \notin Serving BY DEF FindGrant, Inv, Begun, Joined
<1>5. UNCHANGED <<session, logout, joined, tagged, stored>> BY DEF FindGrant, stores
<1>6. flow[f].sid \in Sids /\ session[flow[f].sid] # "NONE" /\ flow[f].client \in Clients
  BY DEF FindGrant, Inv, Begun
<1>. HIDE DEF q
<1>. QED BY <1>2, <1>3, <1>4, <1>5, <1>6, FlowOnly

\* A flow that only goes on to pc.
LEMMA GoCore ==
    ASSUME Inv, NEW f \in Flows, NEW pc, Go(f, pc), flow[f].pc # "off",
           pc = "done" \/ (flow[f].pc = "save" /\ pc = "context")
                       \/ (flow[f].pc = "context" /\ pc = "tag"),
           UNCHANGED <<session, logout, joined, tagged, stored>>
    PROVE  Core'
<1> DEFINE q == [flow[f] EXCEPT !.pc = pc]
<1>1. /\ q.pc = pc /\ q.sid = flow[f].sid /\ q.grant = flow[f].grant
      /\ q.client = flow[f].client
  BY StateTypes DEF Flow, Inv
<1>2. flow' = [flow EXCEPT ![f] = q] BY DEF Go
<1>3. flow[f].sid \in Sids /\ session[flow[f].sid] # "NONE" BY DEF Inv, Begun
<1>4. f \notin Serving \/ pc = "done" BY DEF Inv, Begun, Joined
<1>5. pc # "done" => flow[f].grant \in Grants /\ flow[f].client \in Clients BY DEF Inv, Begun
<1>. HIDE DEF q
<1>. QED BY <1>1, <1>2, <1>3, <1>4, <1>5, FlowOnly

\* A flow on its way through finish or the provider, from p to q.
LEMMA ServeCore ==
    ASSUME Inv, NEW f \in Flows, NEW q \in Flow, flow' = [flow EXCEPT ![f] = q],
           flow[f].pc \in {"tag", "join", "handoff", "resume", "exchange", "token"},
           q.pc \in Tagged \cup {"done"},
           flow[f].pc \in {"tag", "join"} => q.pc \in {"join", "resume"},
           flow[f].pc = "handoff" => q.pc = "done",
           flow[f].pc \in Joined => q.pc \in Joined \cup {"done"},
           q.sid = flow[f].sid, q.client = flow[f].client, q.grant = flow[f].grant,
           UNCHANGED <<session, logout>>,
           \A h \in Flows \ {f} : (\E k \in {"code", "token"} : <<h, k>> \in stored')
                                    => \E k \in {"code", "token"} : <<h, k>> \in stored,
           \A s \in Sids : joined[s] \subseteq joined'[s] /\ tagged[s] \subseteq tagged'[s],
           flow[f].pc \in {"tag", "join", "handoff"} => stored' = stored,
           q.pc \in Joined \/ flow[f].pc \in Joined => q.client \in joined'[q.sid],
           q.grant \in tagged'[q.sid] \/ session[q.sid] # "ACTIVE" \/ flow[f].pc = "handoff"
    PROVE  Core'
<1>. USE DEF Inv, TypeOK
<1>1. flow'[f] = q /\ \A h \in Flows \ {f} : flow'[h] = flow[h] OBVIOUS
<1>2. Serving' \subseteq Serving \cup {f} /\ Tagging' \subseteq Tagging \cup {f}
  BY <1>1 DEF Serving, Tagging, Joined
<1>3. flow[f].sid \in Sids /\ session[flow[f].sid] # "NONE" BY DEF Begun, Joined
<1>4. flow[f].pc # "handoff" => flow[f].grant \in Grants BY DEF Begun, Tagged
<1>5. f \in Serving' => flow[f].pc \in Joined \/ q.pc \in Joined
  <2>1. flow[f].pc \in {"tag", "join", "handoff"} => f \notin Serving BY DEF Begun, Joined
  <2>2. CASE flow[f].pc \in {"tag", "join", "handoff"} BY <1>1, <2>1, <2>2 DEF Serving
  <2>. QED BY <2>2 DEF Joined
<1>6. f \in Serving' => q.pc \in Joined \cup {"done"} BY <1>5 DEF Tagged, Joined
<1>7. Begun'
  <2>1. \A h \in Flows : (flow[h].pc # "off" => flow[h].sid \in Sids /\ session[flow[h].sid] # "NONE")'
    BY <1>1, <1>3 DEF Begun
  <2>2. q.client \in Clients BY DEF Begun, Joined
  <2>3. q.pc \in Tagged => q.grant \in Grants BY <1>4 DEF Tagged
  <2>4. \A h \in Serving' : flow'[h].pc \in Joined \cup {"done"}
    BY <1>1, <1>2, <1>6, ServingTagging DEF Begun
  <2>. HIDE DEF Inv, TypeOK
  <2>. QED BY <1>1, <2>1, <2>2, <2>3, <2>4 DEF Begun, Tagged, Joined, Inv
<1>8. LogoutBegun' /\ RevokedFirst' BY DEF LogoutBegun, RevokedFirst
<1>9. Listed'
  <2>1. ASSUME NEW h \in Serving', h # f PROVE (flow[h].client \in joined[flow[h].sid])'
    <3>1. h \in Serving /\ flow'[h] = flow[h] BY <1>1, <1>2, <2>1 DEF Serving
    <3>2. flow[h].sid \in Sids BY <3>1 DEF Begun, Serving, Joined
    <3>. QED BY <3>1, <3>2 DEF Listed
  <2>2. f \in Serving' => (flow[f].client \in joined[flow[f].sid])' BY <1>1, <1>5
  <2>. QED BY <2>1, <2>2 DEF Listed
<1>10. Findable'
  <2>1. ASSUME NEW h \in Tagging', h # f
        PROVE  (session[flow[h].sid] = "ACTIVE" => flow[h].grant \in tagged[flow[h].sid])'
    <3>1. h \in Tagging /\ flow'[h] = flow[h] BY <1>1, <1>2, <2>1 DEF Tagging, Serving
    <3>2. flow[h].sid \in Sids BY <3>1 DEF Begun, Tagging, Serving, Joined
    <3>. QED BY <3>1, <3>2 DEF Findable
  <2>2. f \in Tagging' => flow[f].pc # "handoff"
    BY <1>1, <1>5 DEF Tagging, Joined
  <2>3. f \in Tagging' =>
          (session[flow[f].sid] = "ACTIVE" => flow[f].grant \in tagged[flow[f].sid])'
    BY <1>1, <2>2
  <2>. QED BY <2>1, <2>3 DEF Findable
<1>. QED BY <1>7, <1>8, <1>9, <1>10 DEF Core

LEMMA TagGrantCore == ASSUME Inv, NEW f \in Flows, TagGrant(f) PROVE Core'
<1> DEFINE q == [flow[f] EXCEPT !.pc = "join"]
<1>1. /\ q \in Flow /\ q.pc = "join" /\ q.sid = flow[f].sid /\ q.client = flow[f].client
      /\ q.grant = flow[f].grant
  BY StateTypes DEF Flow, Inv
<1>2. flow' = [flow EXCEPT ![f] = q] BY DEF TagGrant, Go
<1>3. flow[f].pc = "tag" /\ UNCHANGED <<session, logout, joined, stored>> BY DEF TagGrant
<1>4. q.grant \in tagged'[q.sid] /\ \A s \in Sids : tagged[s] \subseteq tagged'[s]
  BY <1>1 DEF TagGrant, Inv, TypeOK, Begun
<1>. HIDE DEF q
<1>. QED BY <1>1, <1>2, <1>3, <1>4, ServeCore DEF Tagged, Joined

LEMMA JoinCore == ASSUME Inv, NEW f \in Flows, Join(f) PROVE Core'
<1> DEFINE q == [flow[f] EXCEPT !.pc = IF flow[f].pc = "join" THEN "resume" ELSE "done"]
<1>1. /\ q.pc = IF flow[f].pc = "join" THEN "resume" ELSE "done"
      /\ q \in Flow /\ q.sid = flow[f].sid /\ q.client = flow[f].client
      /\ q.grant = flow[f].grant
  BY StateTypes DEF Flow, Inv
<1>2. flow' = [flow EXCEPT ![f] = q] BY DEF Join, Go
<1>3. flow[f].pc \in {"join", "handoff"} /\ UNCHANGED <<session, logout, tagged, stored>>
  BY DEF Join
<1>4. q.client \in joined'[q.sid] /\ \A s \in Sids : joined[s] \subseteq joined'[s]
  BY <1>1, <1>3 DEF Join, Inv, TypeOK, Begun
<1>5. flow[f].pc = "join" => f \in Tagging BY DEF Tagging
<1>6. q.grant \in tagged'[q.sid] \/ session[q.sid] # "ACTIVE" \/ flow[f].pc = "handoff"
  BY <1>1, <1>3, <1>5 DEF Inv, Findable
<1>. HIDE DEF q
<1>. QED BY <1>1, <1>2, <1>3, <1>4, <1>6, ServeCore DEF Tagged, Joined

\* A step of a flow that serves its client, to pc, with artifact a at most.
LEMMA ServingCore ==
    ASSUME Inv, NEW f \in Flows, NEW q \in Flow, flow' = [flow EXCEPT ![f] = q],
           flow[f].pc \in Joined, q.pc \in Joined \cup {"done"},
           q.sid = flow[f].sid, q.client = flow[f].client, q.grant = flow[f].grant,
           UNCHANGED <<session, logout, joined, tagged>>,
           stored' \in {stored, stored \cup {Code(f)}, stored \cup {Token(f)}}
    PROVE  Core'
<1>1. f \in Serving /\ f \in Tagging BY DEF Serving, Tagging
<1>2. q.client \in joined'[q.sid] BY <1>1 DEF Inv, Listed
<1>3. q.grant \in tagged'[q.sid] \/ session[q.sid] # "ACTIVE" BY <1>1 DEF Inv, Findable
<1>4. \A h \in Flows \ {f} : (\E k \in {"code", "token"} : <<h, k>> \in stored')
                               => \E k \in {"code", "token"} : <<h, k>> \in stored
  BY DEF Code, Token
<1>. QED BY <1>2, <1>3, <1>4, ServeCore DEF Tagged, Joined

LEMMA ResumeCore == ASSUME Inv, NEW f \in Flows, Resume(f) PROVE Core'
<1>1. CASE Go(f, "done") /\ UNCHANGED <<opGrant, stored, listed>>
  BY <1>1, GoCore DEF Resume
<1>2. CASE Go(f, "exchange") /\ Upsert(Code(f), flow[f].grant)
  <2> DEFINE q == [flow[f] EXCEPT !.pc = "exchange"]
  <2>1. /\ q \in Flow /\ q.pc = "exchange" /\ q.sid = flow[f].sid
        /\ q.client = flow[f].client /\ q.grant = flow[f].grant
    BY StateTypes DEF Flow, Inv
  <2>2. flow' = [flow EXCEPT ![f] = q] BY <1>2 DEF Go
  <2>3. stored' = stored \cup {Code(f)} BY <1>2 DEF Upsert
  <2>4. flow[f].pc \in Joined /\ UNCHANGED <<session, logout, joined, tagged>>
    BY DEF Resume, Joined
  <2>. HIDE DEF q
  <2>. QED BY <2>1, <2>2, <2>3, <2>4, ServingCore DEF Joined
<1>. QED BY <1>1, <1>2 DEF Resume

LEMMA ExchangeCore == ASSUME Inv, NEW f \in Flows, Exchange(f) PROVE Core'
<1>1. CASE Go(f, "done") BY <1>1, GoCore DEF Exchange, stores
<1>2. CASE flow' = [flow EXCEPT ![f].pc = "token", ![f].named = ctx[flow[f].grant]]
  <2> DEFINE q == [flow[f] EXCEPT !.pc = "token", !.named = ctx[flow[f].grant]]
  <2>1. ctx[flow[f].grant] \in Sids \cup {NoSid} BY DEF Exchange, Inv, Begun, TypeOK, Tagged
  <2>2. /\ q \in Flow /\ q.pc = "token" /\ q.sid = flow[f].sid
        /\ q.client = flow[f].client /\ q.grant = flow[f].grant
    BY <2>1, StateTypes DEF Flow, Inv
  <2>3. flow' = [flow EXCEPT ![f] = q] BY <1>2
  <2>4. flow[f].pc \in Joined /\ UNCHANGED <<session, logout, joined, tagged, stored>>
    BY DEF Exchange, Joined, stores
  <2>. HIDE DEF q
  <2>. QED BY <2>2, <2>3, <2>4, ServingCore DEF Joined
<1>. QED BY <1>1, <1>2 DEF Exchange

LEMMA SaveTokenCore == ASSUME Inv, NEW f \in Flows, SaveToken(f) PROVE Core'
<1> DEFINE q == [flow[f] EXCEPT !.pc = "done"]
<1>1. /\ q \in Flow /\ q.pc = "done" /\ q.sid = flow[f].sid
      /\ q.client = flow[f].client /\ q.grant = flow[f].grant
  BY StateTypes DEF Flow, Inv
<1>2. flow' = [flow EXCEPT ![f] = q] BY DEF SaveToken, Go
<1>3. stored' = stored \cup {Token(f)} BY DEF SaveToken, Upsert
<1>4. flow[f].pc \in Joined /\ UNCHANGED <<session, logout, joined, tagged>>
  BY DEF SaveToken, Joined
<1>. HIDE DEF q
<1>. QED BY <1>1, <1>2, <1>3, <1>4, ServingCore DEF Joined

LEMMA FlowCore == ASSUME Inv, NEW f \in Flows, FlowStep(f) PROVE Core'
<1>1. CASE Login(f) BY <1>1, LoginCore
<1>2. CASE Reuse(f) BY <1>2, ReuseCore
<1>3. CASE FindGone(f) BY <1>3, FindGoneCore
<1>4. CASE RevokeGone(f) BY <1>4, RevokeGoneCore
<1>5. CASE FindGrant(f) BY <1>5, FindGrantCore
<1>6. CASE SaveGrant(f) BY <1>6, GoCore DEF SaveGrant
<1>7. CASE SetContext(f) BY <1>7, GoCore DEF SetContext
<1>8. CASE TagGrant(f) BY <1>8, TagGrantCore
<1>9. CASE Join(f) BY <1>9, JoinCore
<1>10. CASE Resume(f) BY <1>10, ResumeCore
<1>11. CASE Exchange(f) BY <1>11, ExchangeCore
<1>12. CASE SaveToken(f) BY <1>12, SaveTokenCore
<1>13. CASE FlowFails(f) BY <1>13, GoCore DEF FlowFails, Resting, stores
<1>14. CASE ShowPage(f) BY <1>14, GoCore DEF ShowPage, stores
<1>. QED
  BY <1>1, <1>2, <1>3, <1>4, <1>5, <1>6, <1>7, <1>8, <1>9, <1>10, <1>11, <1>12, <1>13, <1>14
  DEF FlowStep

\* A step of logout l that leaves the sign-ins and the session alone.
LEMMA LogoutCore ==
    ASSUME Inv, NEW l \in Logouts, NEW q, logout' = [logout EXCEPT ![l] = q],
           q.pc \notin {"off", "reply", "done"} => q.sid \in Sids,
           q.pc \in {"list", "delete", "destroy", "context"} => q.grant \in Grants,
           q.pc \in {"list", "delete"} => q.left \in {1, 2},
           q.pc \notin {"off", "revoke", "reply", "done"} => session[q.sid] = "REVOKED",
           UNCHANGED <<session, flow, joined, tagged>>, stored' \subseteq stored
    PROVE  Core'
<1>1. logout'[l] = q /\ \A k \in Logouts \ {l} : logout'[k] = logout[k] BY StateTypes DEF Inv
<1>2. LogoutBegun' BY <1>1 DEF Inv, LogoutBegun
<1>3. RevokedFirst' BY <1>1 DEF Inv, RevokedFirst
<1>. QED BY <1>2, <1>3, LogoutOnly

LEMMA NextGrantPart ==
    ASSUME NEW q \in Logout, NEW todo \in SUBSET Grants, NEW r \in NextGrant(q, todo)
    PROVE  /\ r.pc \in {"untag", "list"} /\ r.sid = q.sid
           /\ r.pc = "list" => r.grant \in Grants /\ r.left = 2
<1>1. CASE todo = {} BY <1>1 DEF NextGrant, Logout
<1>2. CASE todo # {}
  <2>1. PICK g \in todo : r = [q EXCEPT !.pc = "list", !.todo = todo \ {g}, !.grant = g, !.left = 2]
    BY <1>2 DEF NextGrant
  <2>. QED BY <2>1 DEF Logout
<1>. QED BY <1>1, <1>2

LEMMA LoadCore == ASSUME Inv, NEW l \in Logouts, Load(l) PROVE Core'
<1>1. UNCHANGED <<session, flow, joined, tagged, stored>> BY DEF Load, Keep, stores
<1>2. CASE Current = NoSid
  <2> DEFINE q == [NoLogout EXCEPT !.pc = "reply"]
  <2>1. q.pc = "reply" BY DEF NoLogout
  <2>2. logout' = [logout EXCEPT ![l] = q] BY <1>2 DEF Load
  <2>. HIDE DEF q
  <2>. QED BY <1>1, <2>1, <2>2, LogoutCore
<1>3. CASE Current # NoSid
  <2> DEFINE q == [NoLogout EXCEPT !.pc = "revoke", !.sid = Current]
  <2>1. q.pc = "revoke" /\ q.sid = Current BY DEF NoLogout
  <2>2. logout' = [logout EXCEPT ![l] = q] BY <1>3 DEF Load
  <2>3. Current \in Sids BY <1>3, CurrentType DEF Inv
  <2>. HIDE DEF q
  <2>. QED BY <1>1, <2>1, <2>2, <2>3, LogoutCore
<1>. QED BY <1>2, <1>3

LEMMA RevokeCore == ASSUME Inv, NEW l \in Logouts, Revoke(l) PROVE Core'
<1>1. UNCHANGED <<flow, joined, tagged, stored>> BY DEF Revoke, Keep, stores
<1>2. logout[l].sid \in Sids BY DEF Revoke, Inv, LogoutBegun
<1>3. session' = [session EXCEPT ![logout[l].sid] = "REVOKED"] BY DEF Revoke
<1>4. \A s \in Sids : session'[s] = session[s] \/ session'[s] = "REVOKED"
  BY <1>3 DEF Inv, TypeOK
<1>5. logout'[l].pc = "grants" /\ logout'[l].sid = logout[l].sid
  BY StateTypes DEF Revoke, LStep, Inv, Logout
<1>6. \A k \in Logouts \ {l} : logout'[k] = logout[k] BY StateTypes DEF Revoke, LStep, Inv
<1>7. session'[logout[l].sid] = "REVOKED" BY <1>2, <1>3 DEF Inv, TypeOK
<1>8. Serving' = Serving /\ Tagging' = Tagging BY <1>1 DEF Serving, Tagging
<1>9. Begun'
  <2>1. \A f \in Flows : flow[f].pc # "off" => flow[f].sid \in Sids /\ session'[flow[f].sid] # "NONE"
    BY <1>4 DEF Inv, Begun
  <2>. QED BY <1>1, <1>8, <2>1 DEF Inv, Begun
<1>10. LogoutBegun' BY <1>2, <1>5, <1>6 DEF Inv, LogoutBegun
<1>11. RevokedFirst'
  <2>1. ASSUME NEW k \in Logouts \ {l}
        PROVE  logout[k].pc \notin {"off", "revoke", "reply", "done"}
                 => session'[logout[k].sid] = "REVOKED"
    BY <1>4 DEF Inv, RevokedFirst, LogoutBegun
  <2>. QED BY <1>5, <1>6, <1>7, <2>1 DEF RevokedFirst
<1>12. Listed' BY <1>1, <1>8 DEF Inv, Listed
<1>13. Findable'
  <2>1. \A f \in Tagging : flow[f].sid \in Sids BY TaggingBegun
  <2>. QED BY <1>1, <1>4, <1>8, <2>1 DEF Inv, Findable
<1>. QED BY <1>9, <1>10, <1>11, <1>12, <1>13 DEF Core

LEMMA ReadGrantsCore == ASSUME Inv, NEW l \in Logouts, ReadGrants(l) PROVE Core'
<1>1. PICK q \in NextGrant(logout[l], tagged[logout[l].sid]) : logout' = [logout EXCEPT ![l] = q]
  BY DEF ReadGrants
<1>2. logout[l].sid \in Sids /\ session[logout[l].sid] = "REVOKED"
  BY DEF ReadGrants, Inv, LogoutBegun, RevokedFirst
<1>3. logout[l] \in Logout /\ tagged[logout[l].sid] \in SUBSET Grants
  BY <1>2, StateTypes DEF Inv, TypeOK
<1>4. UNCHANGED <<session, flow, joined, tagged, stored>> BY DEF ReadGrants, Keep, stores
<1>. QED BY <1>1, <1>2, <1>3, <1>4, NextGrantPart, LogoutCore

LEMMA DropContextCore == ASSUME Inv, NEW l \in Logouts, DropContext(l) PROVE Core'
<1>1. PICK q \in NextGrant(logout[l], logout[l].todo) : logout' = [logout EXCEPT ![l] = q]
  BY DEF DropContext
<1>2. logout[l].sid \in Sids /\ session[logout[l].sid] = "REVOKED"
  BY DEF DropContext, Inv, LogoutBegun, RevokedFirst
<1>3. logout[l] \in Logout /\ logout[l].todo \in SUBSET Grants BY StateTypes DEF Inv, Logout
<1>4. UNCHANGED <<session, flow, joined, tagged, stored>> BY DEF DropContext, Keep, stores
<1>. QED BY <1>1, <1>2, <1>3, <1>4, NextGrantPart, LogoutCore

LEMMA ListTokensCore == ASSUME Inv, NEW l \in Logouts, ListTokens(l) PROVE Core'
<1> DEFINE q == [logout[l] EXCEPT !.pc = "delete", !.seen = listed[logout[l].grant]]
<1>1. /\ q.pc = "delete" /\ q.sid = logout[l].sid /\ q.grant = logout[l].grant
      /\ q.left = logout[l].left
  BY StateTypes DEF Logout, Inv
<1>2. logout' = [logout EXCEPT ![l] = q] BY DEF ListTokens
<1>3. /\ logout[l].sid \in Sids /\ session[logout[l].sid] = "REVOKED"
      /\ logout[l].grant \in Grants /\ logout[l].left \in {1, 2}
  BY DEF ListTokens, Inv, LogoutBegun, RevokedFirst
<1>4. UNCHANGED <<session, flow, joined, tagged, stored>> BY DEF ListTokens, Keep, stores
<1>. HIDE DEF q
<1>. QED BY <1>1, <1>2, <1>3, <1>4, LogoutCore

LEMMA DeleteTokensCore == ASSUME Inv, NEW l \in Logouts, DeleteTokens(l) PROVE Core'
<1> DEFINE q == [logout[l] EXCEPT !.pc = IF logout[l].left = 2 THEN "list" ELSE "destroy",
                                  !.seen = {}, !.left = logout[l].left - 1]
<1>1. /\ q.pc = IF logout[l].left = 2 THEN "list" ELSE "destroy"
      /\ q.sid = logout[l].sid /\ q.grant = logout[l].grant /\ q.left = logout[l].left - 1
  BY StateTypes DEF Logout, Inv
<1>2. logout' = [logout EXCEPT ![l] = q] BY DEF DeleteTokens
<1>3. /\ logout[l].sid \in Sids /\ session[logout[l].sid] = "REVOKED"
      /\ logout[l].grant \in Grants /\ logout[l].left \in {1, 2}
  BY DEF DeleteTokens, Inv, LogoutBegun, RevokedFirst
<1>4. UNCHANGED <<session, flow, joined, tagged>> /\ stored' \subseteq stored
  BY DEF DeleteTokens, Keep
<1>. HIDE DEF q
<1>5. q.pc \in {"list", "delete"} => q.left \in {1, 2} BY <1>1, <1>3
<1>. QED BY <1>1, <1>2, <1>3, <1>4, <1>5, LogoutCore

LEMMA ReadClientsCore == ASSUME Inv, NEW l \in Logouts, ReadClients(l) PROVE Core'
<1> DEFINE q == [logout[l] EXCEPT !.pc = "job", !.clients = joined[logout[l].sid]]
<1>1. q.pc = "job" /\ q.sid = logout[l].sid BY StateTypes DEF Logout, Inv
<1>2. logout' = [logout EXCEPT ![l] = q] BY DEF ReadClients
<1>3. logout[l].sid \in Sids /\ session[logout[l].sid] = "REVOKED"
  BY DEF ReadClients, Inv, LogoutBegun, RevokedFirst
<1>4. UNCHANGED <<session, flow, joined, tagged, stored>> BY DEF ReadClients, Keep, stores
<1>. HIDE DEF q
<1>. QED BY <1>1, <1>2, <1>3, <1>4, LogoutCore

LEMMA GrantFailsCore == ASSUME Inv, NEW l \in Logouts, GrantFails(l) PROVE Core'
<1> DEFINE q == [logout[l] EXCEPT !.pc = "context", !.seen = {}, !.left = 0]
<1>1. q.pc = "context" /\ q.sid = logout[l].sid /\ q.grant = logout[l].grant
  BY StateTypes DEF Logout, Inv
<1>2. logout' = [logout EXCEPT ![l] = q] BY DEF GrantFails
<1>3. /\ logout[l].sid \in Sids /\ session[logout[l].sid] = "REVOKED"
      /\ logout[l].grant \in Grants
  BY DEF GrantFails, Inv, LogoutBegun, RevokedFirst
<1>4. UNCHANGED <<session, flow, joined, tagged, stored>> BY DEF GrantFails, stores
<1>. HIDE DEF q
<1>. QED BY <1>1, <1>2, <1>3, <1>4, LogoutCore

\* A logout that only goes on to pc.
LEMMA LStepCore ==
    ASSUME Inv, NEW l \in Logouts, NEW pc, LStep(l, pc),
           pc \in {"reply", "done"} \/ (logout[l].pc = "destroy" /\ pc = "context"),
           UNCHANGED <<session, flow, joined, tagged, stored>>
    PROVE  Core'
<1> DEFINE q == [logout[l] EXCEPT !.pc = pc]
<1>1. q.pc = pc /\ q.sid = logout[l].sid /\ q.grant = logout[l].grant
  BY StateTypes DEF Logout, Inv
<1>2. logout' = [logout EXCEPT ![l] = q] BY DEF LStep
<1>3. pc = "context" => /\ logout[l].sid \in Sids /\ session[logout[l].sid] = "REVOKED"
                        /\ logout[l].grant \in Grants
  BY DEF Inv, LogoutBegun, RevokedFirst
<1>. HIDE DEF q
<1>. QED BY <1>1, <1>2, <1>3, LogoutCore

\* Untag is the only step that forgets grants: those of a revoked session.
LEMMA UntagCore == ASSUME Inv, NEW l \in Logouts, Untag(l) PROVE Core'
<1>1. UNCHANGED <<session, flow, joined, stored>> BY DEF Untag, Keep
<1>2. logout[l].sid \in Sids /\ session[logout[l].sid] = "REVOKED"
  BY DEF Untag, Inv, LogoutBegun, RevokedFirst
<1>3. \A s \in Sids \ {logout[l].sid} : tagged'[s] = tagged[s] BY DEF Untag, Inv, TypeOK
<1>4. logout'[l].pc = "clients" /\ logout'[l].sid = logout[l].sid
  BY StateTypes DEF Untag, LStep, Inv, Logout
<1>5. \A k \in Logouts \ {l} : logout'[k] = logout[k] BY StateTypes DEF Untag, LStep, Inv
<1>6. Serving' = Serving /\ Tagging' = Tagging BY <1>1 DEF Serving, Tagging
<1>7. Begun' BY <1>1, <1>6 DEF Inv, Begun
<1>8. LogoutBegun' BY <1>2, <1>4, <1>5 DEF Inv, LogoutBegun
<1>9. RevokedFirst' BY <1>1, <1>2, <1>4, <1>5 DEF Inv, RevokedFirst
<1>10. Listed' BY <1>1, <1>6 DEF Inv, Listed
<1>11. Findable'
  <2>1. \A f \in Tagging : flow[f].sid \in Sids BY TaggingBegun
  <2>. QED BY <1>1, <1>2, <1>3, <1>6, <2>1 DEF Inv, Findable
<1>. QED BY <1>7, <1>8, <1>9, <1>10, <1>11 DEF Core

LEMMA LogoutStepCore == ASSUME Inv, NEW l \in Logouts, LogoutStep(l) PROVE Core'
<1>1. CASE Load(l) BY <1>1, LoadCore
<1>2. CASE Revoke(l) BY <1>2, RevokeCore
<1>3. CASE ReadGrants(l) BY <1>3, ReadGrantsCore
<1>4. CASE ListTokens(l) BY <1>4, ListTokensCore
<1>5. CASE DeleteTokens(l) BY <1>5, DeleteTokensCore
<1>6. CASE DestroyGrant(l) BY <1>6, LStepCore DEF DestroyGrant, Keep
<1>7. CASE DropContext(l) BY <1>7, DropContextCore
<1>8. CASE Untag(l) BY <1>8, UntagCore
<1>9. CASE ReadClients(l) BY <1>9, ReadClientsCore
<1>10. CASE CreateJob(l) BY <1>10, LStepCore DEF CreateJob, Keep
<1>11. CASE Reply(l) BY <1>11, LStepCore DEF Reply, Keep, stores
<1>12. CASE GrantFails(l) BY <1>12, GrantFailsCore
<1>13. CASE FollowUpFails(l) BY <1>13, LStepCore DEF FollowUpFails, stores
<1>14. CASE Dies(l) BY <1>14, LStepCore DEF Dies, stores
<1>. QED
  BY <1>1, <1>2, <1>3, <1>4, <1>5, <1>6, <1>7, <1>8, <1>9, <1>10, <1>11, <1>12, <1>13, <1>14
  DEF LogoutStep

-----------------------------------------------------------------------------
(* The invariant, and the properties.                                      *)

LEMMA FlowTypes == ASSUME Inv, NEW f \in Flows, FlowStep(f) PROVE TypeOK'
BY LoginType, ShowPageType, ReuseType, FindGoneType, RevokeGoneType, FindGrantType, SaveGrantType,
   SetContextType, TagGrantType, JoinType, ResumeType, ExchangeType, SaveTokenType,
   FlowFailsType DEF FlowStep, Inv

LEMMA LogoutTypes == ASSUME Inv, NEW l \in Logouts, LogoutStep(l) PROVE TypeOK'
BY LoadType, RevokeType, ReadGrantsType, ListTokensType, DeleteTokensType, DestroyGrantType,
   DropContextType, UntagType, ReadClientsType, CreateJobType, ReplyType, GrantFailsType,
   FollowUpFailsType, DiesType DEF LogoutStep, Inv

LEMMA InitInv == Init => Inv
<1>. SUFFICES ASSUME Init PROVE Inv OBVIOUS
<1>1. TypeOK BY NullTypes DEF Init, TypeOK
<1>2. \A f \in Flows : flow[f].pc = "off" BY DEF Init, NoFlow
<1>3. \A l \in Logouts : logout[l].pc = "off" BY DEF Init, NoLogout
<1>4. Serving = {} /\ Tagging = {} BY <1>2 DEF Init, Serving, Tagging, Joined
<1>. QED BY <1>1, <1>2, <1>3, <1>4
     DEF Inv, Begun, LogoutBegun, RevokedFirst, Listed, Findable, Tagged, Joined

LEMMA StutterInv == Inv /\ UNCHANGED vars => Inv'
BY DEF Inv, vars, stores, TypeOK, Begun, LogoutBegun, RevokedFirst, Listed, Findable,
       Serving, Tagging

LEMMA AlwaysInv == Spec => []Inv
<1>1. ASSUME Inv, [Next]_vars PROVE Inv'
  <2>1. CASE UNCHANGED vars BY <1>1, <2>1, StutterInv
  <2>2. CASE \E f \in Flows : FlowStep(f)
    <3>1. PICK f \in Flows : FlowStep(f) BY <2>2
    <3>. QED BY <1>1, <3>1, FlowTypes, FlowCore DEF Core, Inv
  <2>3. CASE \E l \in Logouts : LogoutStep(l)
    <3>1. PICK l \in Logouts : LogoutStep(l) BY <2>3
    <3>. QED BY <1>1, <3>1, LogoutTypes, LogoutStepCore DEF Core, Inv
  <2>. QED BY <1>1, <2>1, <2>2, <2>3 DEF Next
<1>. QED BY <1>1, InitInv, PTL DEF Spec

\* Every variable stays in its domain, whatever overlaps and whatever fails
\* (finish, LogoutService, OidcRedisAdapter).
THEOREM TypeCorrect == Spec => []TypeOK
<1>1. Inv => TypeOK BY DEF Inv
<1>. QED BY <1>1, AlwaysInv, PTL

\* Whoever has a code or token of a session joined it before (finish writes the
\* participant at interaction.service.ts:215, before the provider goes on).
THEOREM ClientsJoinBeforeTheyAreServed == Spec => []JoinedBeforeServed
<1>1. Inv => JoinedBeforeServed
  <2>. SUFFICES ASSUME Inv, NEW a \in stored PROVE flow[a[1]].client \in joined[flow[a[1]].sid]
    BY DEF JoinedBeforeServed
  <2>1. a[1] \in Serving BY DEF Serving, Inv, TypeOK, Artifact
  <2>. QED BY <2>1 DEF Inv, Listed
<1>. QED BY <1>1, AlwaysInv, PTL

\* The grant of every code and token of an active session is in sidgrants, so
\* revokeGrants finds it (interaction.service.ts:213, before the join).
THEOREM TokensAreFound == Spec => []FoundFromSession
<1>1. Inv => FoundFromSession
  <2>. SUFFICES ASSUME Inv, NEW a \in stored, session[flow[a[1]].sid] = "ACTIVE"
                PROVE  flow[a[1]].grant \in tagged[flow[a[1]].sid]
    BY DEF FoundFromSession
  <2>1. a[1] \in Serving BY DEF Serving, Inv, TypeOK, Artifact
  <2>. QED BY <2>1, ServingTagging DEF Inv, Findable, Tagging
<1>. QED BY <1>1, AlwaysInv, PTL

-----------------------------------------------------------------------------
(* The session an ID token names lists its client, whatever overlaps.  The *)
(* token names what the grant's context says when the code is exchanged,   *)
(* so the induction is on contexts: one with s was set by a flow of the    *)
(* grant's only client, and until an await fails that flow goes on to its  *)
(* join of s.                                                              *)

\* The pcs of a flow that has set the context of its grant, or that ended.
Past == {"tag", "join", "resume", "exchange", "token", "done"}

\* The flows of one grant are of one client, whose grant it is at the provider.
OneClient ==
    \A f, h \in Flows :
      flow[f].grant = flow[h].grant /\ flow[f].grant # NoGrant => flow[f].client = flow[h].client
OfClient ==
    \A c \in Clients : opGrant[c] # NoGrant =>
      \E h \in Flows : flow[h].grant = opGrant[c] /\ flow[h].client = c /\ flow[h].pc \in Past

\* A grant with a context is some flow's: no other finds it unused.
OfFlow == \A g \in Grants : ctx[g] # NoSid => \E h \in Flows : flow[h].grant = g /\ flow[h].pc \in Past

\* Session s lists client c, or a flow that has set a context is about to see to it.
Told(c, s) ==
    \/ c \in joined[s]
    \/ \E h \in Flows : flow[h].pc \in {"tag", "join"} /\ flow[h].client = c /\ flow[h].sid = s
Names(f, s) == flow[f].named = s \/ (flow[f].grant \in Grants /\ ctx[flow[f].grant] = s)
WillList == faults = 0 => \A f \in Flows, s \in Sids : Names(f, s) => Told(flow[f].client, s)

Naming == OneClient /\ OfClient /\ OfFlow /\ WillList

\* A step of a flow starts it as q, finds its grant, or goes on with it.
Starts(f, q) ==
    /\ flow[f].pc = "off" /\ q.pc \notin Past /\ q.named = NoSid
    /\ q.grant = NoGrant \/ (q.client \in Clients /\ q.grant = opGrant[q.client])
    /\ UNCHANGED <<joined, ctx, opGrant, faults>>
Finds(f, q) ==
    /\ flow[f].pc = "find" /\ q.pc = "save"
    /\ q.client = flow[f].client /\ q.named = flow[f].named /\ q.grant \in Grants
    /\ q.grant = flow[f].grant \/ \A h \in Flows : flow[h].grant # q.grant
    /\ UNCHANGED <<joined, ctx, opGrant, faults>>
Continues(f, q) ==
    /\ flow[f].pc # "off"
    /\ q.client = flow[f].client /\ q.sid = flow[f].sid /\ q.grant = flow[f].grant
    /\ flow[f].pc \in Past => q.pc \in Past
    /\ \A s \in Sids : joined[s] \subseteq joined'[s]
    /\ flow[f].pc \in {"tag", "join"} =>
         q.pc \in {"tag", "join"} \/ q.client \in joined'[q.sid] \/ faults' # 0
    /\ q.named = flow[f].named \/ (q.grant \in Grants /\ q.named = ctx[q.grant])
    /\ \/ ctx' = ctx
       \/ q.pc = "tag" /\ q.grant \in Grants /\ ctx' = [ctx EXCEPT ![q.grant] = q.sid]
    /\ \/ opGrant' = opGrant
       \/ q.pc \in Past /\ q.client \in Clients /\ opGrant' = [opGrant EXCEPT ![q.client] = q.grant]
    /\ faults' = 0 => faults = 0
Moves(f, q) ==
    flow' = [flow EXCEPT ![f] = q] /\ (Starts(f, q) \/ Finds(f, q) \/ Continues(f, q))

LEMMA StartedMoves ==
    ASSUME NEW f \in Flows, NEW c \in Clients, NEW s, NEW b, NEW q \in Started(c, s, b),
           flow[f].pc = "off", UNCHANGED <<joined, ctx, opGrant, faults>>
    PROVE  Starts(f, q)
<1>1. q.pc \in {"find", "handoff"} /\ q.named = NoSid /\ q.client = c /\ q.grant \in {NoGrant, opGrant[c]}
  BY DEF Started, NoFlow
<1>. QED BY <1>1 DEF Starts, Past

\* A flow that only goes on to pc.
LEMMA GoMoves ==
    ASSUME Inv, NEW f \in Flows, NEW pc, Go(f, pc), flow[f].pc # "off",
           flow[f].pc \in Past => pc \in Past,
           flow[f].pc \in {"tag", "join"} =>
             pc \in {"tag", "join"} \/ flow[f].client \in joined'[flow[f].sid] \/ faults' # 0,
           \A s \in Sids : joined[s] \subseteq joined'[s],
           \/ ctx' = ctx
           \/ pc = "tag" /\ flow[f].grant \in Grants /\ ctx' = [ctx EXCEPT ![flow[f].grant] = flow[f].sid],
           \/ opGrant' = opGrant
           \/ /\ pc \in Past /\ flow[f].client \in Clients
              /\ opGrant' = [opGrant EXCEPT ![flow[f].client] = flow[f].grant],
           faults' = 0 => faults = 0
    PROVE  \E q : Moves(f, q)
<1> DEFINE q == [flow[f] EXCEPT !.pc = pc]
<1>1. /\ q.pc = pc /\ q.sid = flow[f].sid /\ q.grant = flow[f].grant
      /\ q.client = flow[f].client /\ q.named = flow[f].named
  BY StateTypes DEF Flow, Inv
<1>2. flow' = [flow EXCEPT ![f] = q] BY DEF Go
<1>. HIDE DEF q
<1>3. Continues(f, q) BY <1>1 DEF Continues
<1>. QED BY <1>2, <1>3 DEF Moves

LEMMA LoginMoves == ASSUME Inv, NEW f \in Flows, Login(f) PROVE \E q : Moves(f, q)
<1>1. UNCHANGED <<joined, ctx, opGrant, faults>> /\ flow[f].pc = "off" BY DEF Login, stores
<1>2. PICK c \in Clients, s \in Sids :
        \E new \in Started(c, s, TRUE) \cup
                     {[NoFlow EXCEPT !.pc = "page", !.client = c, !.sid = s, !.fresh = TRUE]} :
          flow' = [flow EXCEPT ![f] = new]
  BY DEF Login
<1> DEFINE p == [NoFlow EXCEPT !.pc = "page", !.client = c, !.sid = s, !.fresh = TRUE]
<1>3. p.pc = "page" /\ p.named = NoSid /\ p.grant = NoGrant BY DEF NoFlow
<1>4. Starts(f, p) BY <1>1, <1>3 DEF Starts, Past
<1>5. \A q \in Started(c, s, TRUE) : Starts(f, q) BY <1>1, StartedMoves
<1>. QED BY <1>2, <1>4, <1>5 DEF Moves

LEMMA ReuseMoves == ASSUME Inv, NEW f \in Flows, Reuse(f) PROVE \E q : Moves(f, q)
<1>1. UNCHANGED <<joined, ctx, opGrant, faults>> /\ flow[f].pc = "off" BY DEF Reuse, stores
<1>2. PICK c \in Clients : \E new \in Started(c, Current, FALSE) : flow' = [flow EXCEPT ![f] = new]
  BY DEF Reuse
<1>3. \A q \in Started(c, Current, FALSE) : Starts(f, q) BY <1>1, StartedMoves
<1>. QED BY <1>2, <1>3 DEF Moves

LEMMA FindGoneMoves == ASSUME Inv, NEW f \in Flows, FindGone(f) PROVE \E q : Moves(f, q)
<1> DEFINE q == [NoFlow EXCEPT !.pc = "gone", !.sid = Current]
<1>1. q.pc = "gone" /\ q.named = NoSid /\ q.grant = NoGrant BY DEF NoFlow
<1>2. flow' = [flow EXCEPT ![f] = q] BY DEF FindGone
<1>. HIDE DEF q
<1>3. Starts(f, q) BY <1>1 DEF FindGone, stores, Starts, Past
<1>. QED BY <1>2, <1>3 DEF Moves

LEMMA FindGrantMoves == ASSUME Inv, NEW f \in Flows, FindGrant(f) PROVE \E q : Moves(f, q)
<1>1. PICK g \in Grants :
        /\ g = flow[f].grant \/ \A h \in Flows : flow[h].grant # g
        /\ flow' = [flow EXCEPT ![f].pc = "save", ![f].grant = g]
  BY DEF FindGrant
<1> DEFINE q == [flow[f] EXCEPT !.pc = "save", !.grant = g]
<1>2. q.pc = "save" /\ q.client = flow[f].client /\ q.grant = g /\ q.named = flow[f].named
  BY StateTypes DEF Flow, Inv
<1>3. flow' = [flow EXCEPT ![f] = q] BY <1>1
<1>. HIDE DEF q
<1>4. Finds(f, q) BY <1>1, <1>2 DEF FindGrant, stores, Finds
<1>. QED BY <1>3, <1>4 DEF Moves

LEMMA ExchangeMoves == ASSUME Inv, NEW f \in Flows, Exchange(f) PROVE \E q : Moves(f, q)
<1>1. UNCHANGED <<joined, ctx, opGrant, faults>> /\ flow[f].pc = "exchange" BY DEF Exchange, stores
<1>2. CASE Go(f, "done") BY <1>1, <1>2, GoMoves DEF Past
<1>3. CASE flow' = [flow EXCEPT ![f].pc = "token", ![f].named = ctx[flow[f].grant]]
  <2> DEFINE q == [flow[f] EXCEPT !.pc = "token", !.named = ctx[flow[f].grant]]
  <2>1. /\ q.pc = "token" /\ q.sid = flow[f].sid /\ q.client = flow[f].client
        /\ q.grant = flow[f].grant /\ q.named = ctx[flow[f].grant]
    BY StateTypes DEF Flow, Inv
  <2>2. flow' = [flow EXCEPT ![f] = q] BY <1>3
  <2>3. flow[f].grant \in Grants BY <1>1 DEF Inv, Begun, Tagged
  <2>. HIDE DEF q
  <2>4. Continues(f, q) BY <1>1, <2>1, <2>3 DEF Continues, Past
  <2>. QED BY <2>2, <2>4 DEF Moves
<1>. QED BY <1>2, <1>3 DEF Exchange

LEMMA GoingMoves ==
    ASSUME Inv, NEW f \in Flows,
           \/ ShowPage(f) \/ RevokeGone(f) \/ SaveGrant(f) \/ SetContext(f) \/ TagGrant(f)
           \/ Join(f) \/ Resume(f) \/ SaveToken(f) \/ FlowFails(f)
    PROVE  \E q : Moves(f, q)
<1>1. CASE ShowPage(f) BY <1>1, GoMoves DEF ShowPage, stores, Past
<1>2. CASE RevokeGone(f) BY <1>2, GoMoves DEF RevokeGone, stores, Past
<1>3. CASE SaveGrant(f) BY <1>3, GoMoves DEF SaveGrant, Past
<1>4. CASE SetContext(f)
  <2>1. flow[f].grant \in Grants BY <1>4 DEF SetContext, Inv, Begun, Tagged
  <2>. QED BY <1>4, <2>1, GoMoves DEF SetContext, Past
<1>5. CASE TagGrant(f) BY <1>5, GoMoves DEF TagGrant, Past
<1>6. CASE Join(f)
  <2>1. flow[f].sid \in Sids BY <1>6 DEF Join, Inv, Begun
  <2>2. flow[f].client \in joined'[flow[f].sid] /\ \A s \in Sids : joined[s] \subseteq joined'[s]
    BY <1>6, <2>1 DEF Join, Inv, TypeOK
  <2>. QED BY <1>6, <2>2, GoMoves DEF Join, Past
<1>7. CASE Resume(f)
  <2>1. flow[f].client \in Clients BY <1>7 DEF Resume, Inv, Begun
  <2>2. PICK pc \in {"exchange", "done"} :
          Go(f, pc) /\ (opGrant' = opGrant \/ opGrant' = [opGrant EXCEPT ![flow[f].client] = flow[f].grant])
    BY <1>7 DEF Resume
  <2>3. flow[f].pc = "resume" /\ UNCHANGED <<joined, ctx, faults>> BY <1>7 DEF Resume
  <2>. QED BY <2>1, <2>2, <2>3, GoMoves DEF Past
<1>8. CASE SaveToken(f) BY <1>8, GoMoves DEF SaveToken, Past
<1>9. CASE FlowFails(f)
  <2>1. faults' # 0 BY <1>9 DEF FlowFails, Fault, Inv, TypeOK
  <2>. QED BY <1>9, <2>1, GoMoves DEF FlowFails, Resting, stores, Past
<1>. QED BY <1>1, <1>2, <1>3, <1>4, <1>5, <1>6, <1>7, <1>8, <1>9

LEMMA FlowMoves == ASSUME Inv, NEW f \in Flows, FlowStep(f) PROVE \E q : Moves(f, q)
BY LoginMoves, ReuseMoves, FindGoneMoves, FindGrantMoves, ExchangeMoves, GoingMoves DEF FlowStep

\* What a move leaves of the flows that have their grants.
LEMMA MovesFlow ==
    ASSUME Inv, NEW f \in Flows, NEW q, Moves(f, q)
    PROVE  /\ flow'[f] = q /\ \A h \in Flows \ {f} : flow'[h] = flow[h]
           /\ \A h \in Flows : flow[h].pc \in Past =>
                /\ flow'[h].pc \in Past /\ flow'[h].grant = flow[h].grant
                /\ flow'[h].client = flow[h].client
<1>1. flow'[f] = q /\ \A h \in Flows \ {f} : flow'[h] = flow[h] BY DEF Moves, Inv, TypeOK
<1>. QED BY <1>1 DEF Moves, Starts, Finds, Continues, Past

LEMMA MovesOneClient ==
    ASSUME Inv, Naming, NEW f \in Flows, NEW q, Moves(f, q) PROVE OneClient'
<1>1. flow'[f] = q /\ \A h \in Flows \ {f} : flow'[h] = flow[h] BY MovesFlow
<1>2. \A h \in Flows \ {f} : flow[h].grant = q.grant /\ q.grant # NoGrant => flow[h].client = q.client
  <2>1. CASE Starts(f, q) BY <2>1 DEF Starts, Naming, OneClient, OfClient
  <2>2. CASE Finds(f, q) BY <2>2 DEF Finds, Naming, OneClient
  <2>3. CASE Continues(f, q) BY <2>3 DEF Continues, Naming, OneClient
  <2>. QED BY <2>1, <2>2, <2>3 DEF Moves
<1>. QED BY <1>1, <1>2 DEF Naming, OneClient

LEMMA MovesOwned ==
    ASSUME Inv, Naming, NEW f \in Flows, NEW q, Moves(f, q) PROVE OfClient' /\ OfFlow'
<1>1. flow'[f] = q /\ \A h \in Flows : flow[h].pc \in Past =>
        flow'[h].pc \in Past /\ flow'[h].grant = flow[h].grant /\ flow'[h].client = flow[h].client
  BY MovesFlow
<1>2. OfClient'
  <2>. SUFFICES ASSUME NEW c \in Clients, opGrant'[c] # NoGrant
                PROVE  \E h \in Flows : flow'[h].grant = opGrant'[c] /\ flow'[h].client = c /\ flow'[h].pc \in Past
    BY DEF OfClient
  <2>1. CASE opGrant'[c] = opGrant[c] BY <1>1, <2>1 DEF Naming, OfClient
  <2>2. CASE opGrant'[c] # opGrant[c]
    <3>1. opGrant'[c] = q.grant /\ q.client = c /\ q.pc \in Past
      BY <2>2 DEF Moves, Starts, Finds, Continues, Inv, TypeOK
    <3>. QED BY <1>1, <3>1
  <2>. QED BY <2>1, <2>2
<1>3. OfFlow'
  <2>. SUFFICES ASSUME NEW g \in Grants, ctx'[g] # NoSid
                PROVE  \E h \in Flows : flow'[h].grant = g /\ flow'[h].pc \in Past
    BY DEF OfFlow
  <2>1. CASE ctx'[g] = ctx[g] BY <1>1, <2>1 DEF Naming, OfFlow
  <2>2. CASE ctx'[g] # ctx[g]
    <3>1. g = q.grant /\ q.pc \in Past BY <2>2 DEF Moves, Starts, Finds, Continues, Inv, TypeOK, Past
    <3>. QED BY <1>1, <3>1
  <2>. QED BY <2>1, <2>2
<1>. QED BY <1>2, <1>3

\* Until an await fails, whoever was to join joins.
LEMMA MovesTold ==
    ASSUME Inv, NEW f \in Flows, NEW q, Moves(f, q), faults' = 0, NEW c, NEW s \in Sids, Told(c, s)
    PROVE  Told(c, s)'
<1>1. flow'[f] = q /\ \A h \in Flows \ {f} : flow'[h] = flow[h] BY MovesFlow
<1>2. joined[s] \subseteq joined'[s] BY DEF Moves, Starts, Finds, Continues
<1>3. CASE c \in joined[s] BY <1>2, <1>3 DEF Told
<1>4. CASE \E h \in Flows : flow[h].pc \in {"tag", "join"} /\ flow[h].client = c /\ flow[h].sid = s
  <2>1. PICK h \in Flows : flow[h].pc \in {"tag", "join"} /\ flow[h].client = c /\ flow[h].sid = s
    BY <1>4
  <2>2. CASE h = f
    <3>1. Continues(f, q) BY <2>1, <2>2 DEF Moves, Starts, Finds
    <3>2. q.client = c /\ q.sid = s /\ (q.pc \in {"tag", "join"} \/ c \in joined'[s])
      BY <2>1, <2>2, <3>1 DEF Continues
    <3>. QED BY <1>1, <3>2 DEF Told
  <2>3. CASE h # f BY <1>1, <2>1, <2>3 DEF Told
  <2>. QED BY <2>2, <2>3
<1>. QED BY <1>3, <1>4 DEF Told

LEMMA MovesWillList ==
    ASSUME Inv, Naming, NEW f \in Flows, NEW q, Moves(f, q) PROVE WillList'
<1>1. flow'[f] = q /\ \A h \in Flows \ {f} : flow'[h] = flow[h] BY MovesFlow
<1>. SUFFICES ASSUME faults' = 0, NEW h \in Flows, NEW s \in Sids, Names(h, s)'
              PROVE  Told(flow[h].client, s)'
  BY DEF WillList
<1>2. faults = 0 BY DEF Moves, Starts, Finds, Continues
<1>3. ASSUME NEW k \in Flows, Names(k, s), flow[k].client = flow'[h].client PROVE Told(flow[h].client, s)'
  <2>1. Told(flow[k].client, s) BY <1>2, <1>3 DEF Naming, WillList
  <2>2. Told(flow'[h].client, s) BY <1>3, <2>1
  <2>3. \A c : Told(c, s) => Told(c, s)' BY MovesTold
  <2>. QED BY <2>2, <2>3 DEF Told
<1>4. CASE ctx' # ctx /\ flow'[h].grant = q.grant /\ flow'[h].named # s
  <2>1. q.pc = "tag" /\ q.grant \in Grants /\ ctx'[q.grant] = q.sid
    BY <1>4 DEF Moves, Starts, Finds, Continues, Inv, TypeOK
  <2>2. s = q.sid BY <1>4, <2>1 DEF Names
  <2>3. flow'[h].client = q.client
    BY <1>1, <1>4, <2>1, MovesOneClient, NoneAssumption DEF OneClient
  <2>. QED BY <1>1, <2>1, <2>2, <2>3 DEF Told
<1>5. CASE ctx' = ctx \/ flow'[h].grant # q.grant \/ flow'[h].named = s
  <2>1. flow'[h].named = s \/ (flow'[h].grant \in Grants /\ ctx[flow'[h].grant] = s)
    BY <1>5 DEF Names, Moves, Starts, Finds, Continues, Inv, TypeOK
  <2>2. CASE h # f BY <1>1, <1>3, <2>1, <2>2 DEF Names
  <2>3. CASE h = f /\ Continues(f, q) BY <1>1, <1>3, <2>1, <2>3 DEF Names, Continues
  <2>4. CASE h = f /\ Finds(f, q)
    <3>1. CASE q.grant = flow[f].grant \/ q.named = s BY <1>1, <1>3, <2>1, <2>4, <3>1 DEF Names, Finds
    <3>2. CASE q.grant # flow[f].grant /\ q.named # s
      BY <1>1, <2>1, <2>4, <3>2, NoneAssumption DEF Finds, Naming, OfFlow
    <3>. QED BY <3>1, <3>2
  <2>5. CASE h = f /\ Starts(f, q)
    <3>1. q.grant \in Grants /\ ctx[q.grant] = s /\ q.client \in Clients /\ q.grant = opGrant[q.client]
      BY <1>1, <2>1, <2>5, NoneAssumption DEF Starts
    <3>2. PICK k \in Flows : flow[k].grant = q.grant /\ flow[k].client = q.client
      BY <3>1, NoneAssumption DEF Naming, OfClient
    <3>. QED BY <1>1, <1>3, <2>5, <3>1, <3>2 DEF Names
  <2>. QED BY <2>2, <2>3, <2>4, <2>5 DEF Moves
<1>. QED BY <1>4, <1>5

LEMMA LogoutNaming == ASSUME Inv, Naming, NEW l \in Logouts, LogoutStep(l) PROVE Naming'
<1>1. UNCHANGED <<flow, joined, opGrant>> /\ (faults' = 0 => faults = 0)
  BY DEF LogoutStep, Load, Revoke, ReadGrants, ListTokens, DeleteTokens, DestroyGrant, DropContext,
         Untag, ReadClients, CreateJob, Reply, GrantFails, FollowUpFails, Dies, Keep, stores,
         Fault, Inv, TypeOK
<1>2. \A g \in Grants : ctx'[g] \in {ctx[g], NoSid}
  BY DEF LogoutStep, Load, Revoke, ReadGrants, ListTokens, DeleteTokens, DestroyGrant, DropContext,
         Untag, ReadClients, CreateJob, Reply, GrantFails, FollowUpFails, Dies, Keep, stores,
         Inv, TypeOK
<1>3. OneClient' /\ OfClient' BY <1>1 DEF Naming, OneClient, OfClient
<1>4. OfFlow' BY <1>1, <1>2 DEF Naming, OfFlow
<1>5. WillList'
  <2>. SUFFICES ASSUME faults' = 0, NEW f \in Flows, NEW s \in Sids, Names(f, s)'
                PROVE  Told(flow[f].client, s)'
    BY DEF WillList
  <2>1. Names(f, s) BY <1>1, <1>2, NoneAssumption DEF Names
  <2>2. Told(flow[f].client, s) BY <1>1, <2>1 DEF Naming, WillList
  <2>. QED BY <1>1, <2>2 DEF Told
<1>. QED BY <1>3, <1>4, <1>5 DEF Naming

LEMMA InitNaming == Init => Naming
<1>. SUFFICES ASSUME Init PROVE Naming OBVIOUS
<1>1. \A f \in Flows : flow[f].grant = NoGrant /\ flow[f].named = NoSid BY DEF Init, NoFlow
<1>. QED BY <1>1, NoneAssumption
     DEF Init, Naming, OneClient, OfClient, OfFlow, WillList, Names

\* Each session an ID token names lists the token's client or will, and each
\* grant is one client's: the inductive part of NamedClientsAreListed.
THEOREM NamingInvariance == Spec => []Naming
<1>1. ASSUME Inv, Naming, [Next]_vars PROVE Naming'
  <2>1. CASE UNCHANGED vars
    BY <1>1, <2>1 DEF vars, stores, Naming, OneClient, OfClient, OfFlow, WillList, Names, Told
  <2>2. CASE \E f \in Flows : FlowStep(f)
    <3>1. PICK f \in Flows : FlowStep(f) BY <2>2
    <3>2. PICK q : Moves(f, q) BY <1>1, <3>1, FlowMoves
    <3>. QED BY <1>1, <3>2, MovesOneClient, MovesOwned, MovesWillList DEF Naming
  <2>3. CASE \E l \in Logouts : LogoutStep(l)
    <3>1. PICK l \in Logouts : LogoutStep(l) BY <2>3
    <3>. QED BY <1>1, <3>1, LogoutNaming
  <2>. QED BY <1>1, <2>1, <2>2, <2>3 DEF Next
<1>. QED BY <1>1, InitNaming, AlwaysInv, PTL DEF Spec

\* When nothing is in progress and no await has failed, the session an ID token
\* names lists the client that got the token (claims() reads the grant's context,
\* which another sign-in of the client may have set since).
THEOREM NamedClientsAreListed == Spec => []NamedSessionListsClient
<1>1. Inv /\ Naming => NamedSessionListsClient
  <2>. SUFFICES ASSUME Inv, Naming, Quiet, faults = 0, NEW f \in Flows, flow[f].named # NoSid
                PROVE  flow[f].client \in joined[flow[f].named]
    BY DEF NamedSessionListsClient
  <2>1. flow[f].named \in Sids BY StateTypes DEF Inv, Flow
  <2>2. Told(flow[f].client, flow[f].named) BY <2>1 DEF Naming, WillList, Names
  <2>. QED BY <2>2 DEF Told, Quiet, Resting
<1>. QED BY <1>1, AlwaysInv, NamingInvariance, PTL

-----------------------------------------------------------------------------
(* What a logout ends, when nothing overlaps it.  The induction follows    *)
(* revokeGrants: the grants that the session's working codes and tokens    *)
(* hang on are among those it has still to revoke.  A session that was     *)
(* logged out gets no more of them, as every flow works on an active one,  *)
(* and none of them comes back to life, as a flow saves a grant that is    *)
(* live or no other's.                                                     *)

\* One request works at a time.
FlowAlone(f) ==
    /\ \A h \in Flows \ {f} : flow[h].pc \in Resting
    /\ \A l \in Logouts : logout[l].pc \in Resting
LogoutAlone(l) ==
    /\ \A f \in Flows : flow[f].pc \in Resting
    /\ \A k \in Logouts \ {l} : logout[k].pc \in Resting
Alone ==
    /\ \A f \in Flows : flow[f].pc \notin Resting => FlowAlone(f)
    /\ \A l \in Logouts : logout[l].pc \notin Resting => LogoutAlone(l)

\* So the session of a flow stays active under it, and a grant it found live
\* stays live until it is saved again.
Works == \A f \in Flows : flow[f].pc \notin Resting => session[flow[f].sid] = "ACTIVE"
Unused == \A f \in Flows : flow[f].pc = "save" =>
            flow[f].grant \in live \/ \A h \in Flows \ {f} : flow[h].grant # flow[f].grant

\* The grants that the working codes and tokens of session s hang on.
Held(s) == {flow[a[1]].grant : a \in Working(s)}

\* Those of the session of logout l are among the grants it has still to revoke.
Chased(l) ==
    LET q == logout[l]
    IN  /\ q.pc \in {"revoke", "grants"} => Held(q.sid) \subseteq tagged[q.sid]
        /\ q.pc \in {"list", "delete", "destroy"} => Held(q.sid) \subseteq q.todo \cup {q.grant}
        /\ q.pc = "context" => Held(q.sid) \subseteq q.todo
        /\ q.pc \in {"untag", "clients", "job", "reply", "done"} /\ q.sid # NoSid =>
             Held(q.sid) = {}

\* The clients of its session have a delivery once it has a job.
Queued(s) == UNION {j.clients : j \in {k \in jobs : k.sid = s}}
Counted(l) ==
    LET q == logout[l]
    IN  /\ q.pc = "job" => joined[q.sid] \subseteq q.clients
        /\ q.pc \in {"reply", "done"} /\ q.sid # NoSid =>
             q.sid \in Sids /\ session[q.sid] = "REVOKED" /\ joined[q.sid] \subseteq Queued(q.sid)

Ending == faults = 0 => \A l \in Logouts : Chased(l) /\ Counted(l)

Serial == Alone /\ Works /\ Unused /\ Ending

LEMMA FlowIsAlone ==
    ASSUME Overlap = FALSE, Alone, NEW f \in Flows, FlowStep(f)
    PROVE  FlowAlone(f) /\ (flow[f].pc = "off" \/ flow[f].pc \notin Resting)
<1>1. CASE flow[f].pc \notin Resting BY <1>1 DEF Alone
<1>2. CASE flow[f].pc \in Resting
  <2>1. Login(f) \/ Reuse(f) \/ FindGone(f)
    BY <1>2 DEF FlowStep, ShowPage, RevokeGone, FindGrant, SaveGrant, SetContext, TagGrant, Join,
                Resume, Exchange, SaveToken, FlowFails, Resting
  <2>2. flow[f].pc = "off" /\ Quiet BY <2>1 DEF Login, Reuse, FindGone, MayBegin
  <2>. QED BY <2>2 DEF Quiet, FlowAlone
<1>. QED BY <1>1, <1>2

LEMMA LogoutIsAlone ==
    ASSUME Overlap = FALSE, Alone, NEW l \in Logouts, LogoutStep(l)
    PROVE  LogoutAlone(l) /\ (logout[l].pc = "off" \/ logout[l].pc \notin Resting)
<1>1. CASE logout[l].pc \notin Resting BY <1>1 DEF Alone
<1>2. CASE logout[l].pc \in Resting
  <2>1. Load(l)
    BY <1>2 DEF LogoutStep, Revoke, ReadGrants, ListTokens, DeleteTokens, DestroyGrant, DropContext,
                Untag, ReadClients, CreateJob, Reply, GrantFails, FollowUpFails, Dies, Resting
  <2>2. logout[l].pc = "off" /\ Quiet BY <2>1 DEF Load, MayBegin
  <2>. QED BY <2>2 DEF Quiet, LogoutAlone
<1>. QED BY <1>1, <1>2

-----------------------------------------------------------------------------
(* A step of a sign-in or handoff.                                         *)

\* What the step of flow f, that has q then, does to the rest.
Touches(f, q) ==
    /\ flow' = [flow EXCEPT ![f] = q] /\ logout' = logout /\ jobs' = jobs
    /\ flow[f].pc = "off" => q.pc # "done"
    /\ flow[f].pc # "off" => q.sid = flow[f].sid
    /\ q.pc \notin Resting => session'[q.sid] = "ACTIVE"
    /\ \A s \in Sids : session[s] = "REVOKED" => session'[s] = "REVOKED"
    /\ stored' \subseteq stored \cup {Code(f), Token(f)}
    /\ live' = live \/ (flow[f].pc = "save" /\ live' = live \cup {flow[f].grant})
    /\ \/ joined' = joined
       \/ /\ flow[f].pc \notin Resting
          /\ \A s \in Sids \ {flow[f].sid} : joined'[s] = joined[s]
    /\ q.pc = "save" => /\ live' = live
                        /\ q.grant \in live \/ \A h \in Flows : flow[h].grant # q.grant
    /\ faults' = 0 => faults = 0

LEMMA GoTouches ==
    ASSUME Inv, Works, NEW f \in Flows, NEW pc, Go(f, pc), flow[f].pc \notin Resting, pc # "save",
           UNCHANGED <<logout, jobs>>,
           pc \notin Resting => session' = session,
           \A s \in Sids : session[s] = "REVOKED" => session'[s] = "REVOKED",
           stored' \subseteq stored \cup {Code(f), Token(f)},
           live' = live \/ (flow[f].pc = "save" /\ live' = live \cup {flow[f].grant}),
           joined' = joined \/ \A s \in Sids \ {flow[f].sid} : joined'[s] = joined[s],
           faults' = 0 => faults = 0
    PROVE  \E q : Touches(f, q)
<1> DEFINE q == [flow[f] EXCEPT !.pc = pc]
<1>1. q.pc = pc /\ q.sid = flow[f].sid BY StateTypes DEF Flow, Inv
<1>2. flow' = [flow EXCEPT ![f] = q] BY DEF Go
<1>3. pc \notin Resting => session'[flow[f].sid] = "ACTIVE" BY DEF Works
<1>. HIDE DEF q
<1>4. Touches(f, q) BY <1>1, <1>2, <1>3 DEF Touches, Resting
<1>. QED BY <1>4

LEMMA StartTouches ==
    ASSUME Inv, Works, NEW f \in Flows, Login(f) \/ Reuse(f) \/ FindGone(f)
    PROVE  \E q : Touches(f, q)
<1>1. /\ flow[f].pc = "off" /\ UNCHANGED <<logout, jobs, stored, live, joined, faults>>
  BY DEF Login, Reuse, FindGone, stores
<1>2. ASSUME NEW q, flow' = [flow EXCEPT ![f] = q], q.pc \in {"find", "handoff", "page", "gone"},
             session'[q.sid] = "ACTIVE",
             \A s \in Sids : session[s] = "REVOKED" => session'[s] = "REVOKED"
      PROVE  \E r : Touches(f, r)
  <2>1. Touches(f, q) BY <1>1, <1>2 DEF Touches
  <2>. QED BY <2>1
<1>3. CASE Login(f)
  <2>1. PICK c \in Clients, s \in Sids :
          /\ session[s] = "NONE"
          /\ session' = [session EXCEPT ![s] = "ACTIVE"]
          /\ \E new \in Started(c, s, TRUE) \cup
                         {[NoFlow EXCEPT !.pc = "page", !.client = c, !.sid = s, !.fresh = TRUE]} :
               flow' = [flow EXCEPT ![f] = new]
    BY <1>3 DEF Login
  <2>2. PICK q \in Started(c, s, TRUE) \cup
                   {[NoFlow EXCEPT !.pc = "page", !.client = c, !.sid = s, !.fresh = TRUE]} :
          flow' = [flow EXCEPT ![f] = q]
    BY <2>1
  <2>3. q.pc \in {"find", "handoff", "page"} /\ q.sid = s BY <2>2 DEF Started, NoFlow
  <2>4. session'[s] = "ACTIVE" /\ \A r \in Sids : session[r] = "REVOKED" => session'[r] = "REVOKED"
    BY <2>1 DEF Inv, TypeOK
  <2>. QED BY <1>2, <2>2, <2>3, <2>4
<1>4. CASE Reuse(f)
  <2>1. PICK c \in Clients : \E q \in Started(c, Current, FALSE) : flow' = [flow EXCEPT ![f] = q]
    BY <1>4 DEF Reuse
  <2>2. PICK q \in Started(c, Current, FALSE) : flow' = [flow EXCEPT ![f] = q] BY <2>1
  <2>3. q.pc \in {"find", "handoff"} /\ q.sid = Current BY <2>2 DEF Started, NoFlow
  <2>4. session' = session /\ session[Current] = "ACTIVE" BY <1>4, CurrentType DEF Reuse, Inv
  <2>. QED BY <1>2, <2>2, <2>3, <2>4
<1>5. CASE FindGone(f)
  <2> DEFINE q == [NoFlow EXCEPT !.pc = "gone", !.sid = Current]
  <2>1. q.pc = "gone" /\ q.sid = Current BY DEF NoFlow
  <2>2. flow' = [flow EXCEPT ![f] = q] BY <1>5 DEF FindGone
  <2>3. session' = session /\ session[Current] = "ACTIVE" BY <1>5, CurrentType DEF FindGone, Inv
  <2>. HIDE DEF q
  <2>. QED BY <1>2, <2>1, <2>2, <2>3
<1>. QED BY <1>3, <1>4, <1>5

LEMMA FindGrantTouches ==
    ASSUME Inv, Works, NEW f \in Flows, FindGrant(f) PROVE \E q : Touches(f, q)
<1>1. PICK g \in Grants :
        /\ g \in live \/ \A h \in Flows : flow[h].grant # g
        /\ flow' = [flow EXCEPT ![f].pc = "save", ![f].grant = g]
  BY DEF FindGrant
<1> DEFINE q == [flow[f] EXCEPT !.pc = "save", !.grant = g]
<1>2. q.pc = "save" /\ q.sid = flow[f].sid /\ q.grant = g BY StateTypes DEF Flow, Inv
<1>3. flow' = [flow EXCEPT ![f] = q] BY <1>1
<1>4. session[flow[f].sid] = "ACTIVE" BY DEF FindGrant, Works, Resting
<1>. HIDE DEF q
<1>5. Touches(f, q) BY <1>1, <1>2, <1>3, <1>4 DEF FindGrant, stores, Touches
<1>. QED BY <1>5

LEMMA ExchangeTouches ==
    ASSUME Inv, Works, NEW f \in Flows, Exchange(f) PROVE \E q : Touches(f, q)
<1>1. /\ flow[f].pc = "exchange"
      /\ UNCHANGED <<session, logout, jobs, stored, live, joined, faults>>
  BY DEF Exchange, stores
<1>2. CASE Go(f, "done") BY <1>1, <1>2, GoTouches DEF Resting
<1>3. CASE flow' = [flow EXCEPT ![f].pc = "token", ![f].named = ctx[flow[f].grant]]
  <2> DEFINE q == [flow[f] EXCEPT !.pc = "token", !.named = ctx[flow[f].grant]]
  <2>1. q.pc = "token" /\ q.sid = flow[f].sid BY StateTypes DEF Flow, Inv
  <2>2. flow' = [flow EXCEPT ![f] = q] BY <1>3
  <2>3. session[flow[f].sid] = "ACTIVE" BY <1>1 DEF Works, Resting
  <2>. HIDE DEF q
  <2>4. Touches(f, q) BY <1>1, <2>1, <2>2, <2>3 DEF Touches
  <2>. QED BY <2>4
<1>. QED BY <1>2, <1>3 DEF Exchange

LEMMA GoingTouches ==
    ASSUME Inv, Works, NEW f \in Flows,
           \/ ShowPage(f) \/ RevokeGone(f) \/ SaveGrant(f) \/ SetContext(f) \/ TagGrant(f)
           \/ Join(f) \/ Resume(f) \/ SaveToken(f) \/ FlowFails(f)
    PROVE  \E q : Touches(f, q)
<1>1. CASE ShowPage(f) BY <1>1, GoTouches DEF ShowPage, stores, Resting
<1>2. CASE RevokeGone(f)
  <2>1. \A s \in Sids : session[s] = "REVOKED" => session'[s] = "REVOKED"
    BY <1>2 DEF RevokeGone, Inv, TypeOK
  <2>2. /\ Go(f, "done") /\ flow[f].pc = "gone"
        /\ UNCHANGED <<logout, jobs, stored, live, joined, faults>>
    BY <1>2 DEF RevokeGone, stores
  <2>. QED BY <2>1, <2>2, GoTouches DEF Resting
<1>3. CASE SaveGrant(f) BY <1>3, GoTouches DEF SaveGrant, Resting
<1>4. CASE SetContext(f) BY <1>4, GoTouches DEF SetContext, Resting
<1>5. CASE TagGrant(f) BY <1>5, GoTouches DEF TagGrant, Resting
<1>6. CASE Join(f)
  <2>1. \A s \in Sids \ {flow[f].sid} : joined'[s] = joined[s] BY <1>6 DEF Join, Inv, TypeOK
  <2>2. PICK pc \in {"resume", "done"} : Go(f, pc) BY <1>6 DEF Join
  <2>3. /\ flow[f].pc \in {"join", "handoff"}
        /\ UNCHANGED <<session, logout, jobs, stored, live, faults>>
    BY <1>6 DEF Join
  <2>. QED BY <2>1, <2>2, <2>3, GoTouches DEF Resting
<1>7. CASE Resume(f)
  <2>1. PICK pc \in {"exchange", "done"} : Go(f, pc) BY <1>7 DEF Resume
  <2>2. stored' \subseteq stored \cup {Code(f), Token(f)} BY <1>7 DEF Resume, Upsert
  <2>3. flow[f].pc = "resume" /\ UNCHANGED <<session, logout, jobs, live, joined, faults>>
    BY <1>7 DEF Resume
  <2>. QED BY <2>1, <2>2, <2>3, GoTouches DEF Resting
<1>8. CASE SaveToken(f)
  <2>1. stored' \subseteq stored \cup {Code(f), Token(f)} BY <1>8 DEF SaveToken, Upsert
  <2>2. /\ Go(f, "done") /\ flow[f].pc = "token"
        /\ UNCHANGED <<session, logout, jobs, live, joined, faults>>
    BY <1>8 DEF SaveToken
  <2>. QED BY <2>1, <2>2, GoTouches DEF Resting
<1>9. CASE FlowFails(f)
  <2>1. faults' # 0 BY <1>9 DEF FlowFails, Fault, Inv, TypeOK
  <2>. QED BY <1>9, <2>1, GoTouches DEF FlowFails, Resting, stores
<1>. QED BY <1>1, <1>2, <1>3, <1>4, <1>5, <1>6, <1>7, <1>8, <1>9

LEMMA FlowTouches == ASSUME Inv, Works, NEW f \in Flows, FlowStep(f) PROVE \E q : Touches(f, q)
BY StartTouches, FindGrantTouches, ExchangeTouches, GoingTouches DEF FlowStep

LEMMA FlowSerial ==
    ASSUME Overlap = FALSE, Inv, Inv', Serial, NEW f \in Flows, FlowStep(f) PROVE Serial'
<1>1. PICK q : Touches(f, q) BY FlowTouches DEF Serial
<1>2. FlowAlone(f) /\ (flow[f].pc = "off" \/ flow[f].pc \notin Resting) BY FlowIsAlone DEF Serial
<1>3. flow'[f] = q /\ logout' = logout /\ \A h \in Flows \ {f} : flow'[h] = flow[h]
  BY <1>1 DEF Touches, Inv, TypeOK
<1>4. Alone' BY <1>2, <1>3 DEF FlowAlone, LogoutAlone, Alone
<1>5. Works' BY <1>1, <1>2, <1>3 DEF FlowAlone, Works, Touches
<1>6. Unused'
  <2>1. \A h \in Flows \ {f} : flow'[h].pc # "save" BY <1>2, <1>3 DEF FlowAlone, Resting
  <2>. QED BY <1>1, <1>3, <2>1 DEF Unused, Touches
<1>7. Ending'
  <2>. SUFFICES ASSUME faults' = 0, NEW l \in Logouts PROVE Chased(l)' /\ Counted(l)'
    BY DEF Ending
  <2>1. Chased(l) /\ Counted(l) BY <1>1 DEF Serial, Ending, Touches
  <2>2. CASE logout[l].pc = "off" \/ logout[l].sid = NoSid
    BY <1>2, <1>3, <2>2 DEF FlowAlone, Resting, Chased, Counted
  <2>3. CASE logout[l].pc = "done" /\ logout[l].sid # NoSid
    <3> DEFINE s == logout[l].sid
    <3>1. s \in Sids /\ session[s] = "REVOKED" /\ joined[s] \subseteq Queued(s) /\ Held(s) = {}
      BY <2>1, <2>3 DEF Chased, Counted
    <3>2. flow[f].pc # "off" => flow[f].sid # s BY <1>2, <3>1 DEF Serial, Works
    <3>3. session'[s] = "REVOKED" /\ joined'[s] = joined[s] /\ jobs' = jobs
      BY <1>1, <3>1, <3>2 DEF Touches, Resting
    <3>4. ASSUME NEW a \in stored', flow'[a[1]].sid = s PROVE flow'[a[1]].grant \notin live'
      <4>1. a[1] \in Flows /\ a[1] \in Serving' BY DEF Inv, TypeOK, Artifact, Serving
      <4>2. a[1] # f
        <5>. SUFFICES ASSUME a[1] = f PROVE FALSE OBVIOUS
        <5>1. q.sid = s /\ q.pc \in {"resume", "exchange", "token", "done"}
          BY <1>3, <3>4, <4>1 DEF Inv, Begun, Joined
        <5>2. CASE q.pc = "done" BY <1>1, <3>2, <5>1, <5>2 DEF Touches
        <5>3. CASE q.pc # "done" BY <1>1, <3>3, <5>1, <5>3 DEF Touches, Resting
        <5>. QED BY <5>2, <5>3
      <4>3. a \in stored /\ flow'[a[1]] = flow[a[1]]
        BY <1>1, <1>3, <4>1, <4>2 DEF Touches, Code, Token
      <4>4. flow[a[1]].grant \notin live BY <3>1, <3>4, <4>3 DEF Held, Working
      <4>. QED BY <1>1, <4>1, <4>2, <4>3, <4>4 DEF Touches, Serial, Unused
    <3>5. Held(logout[l].sid)' = {} BY <1>3, <3>4 DEF Held, Working
    <3>6. joined'[s] \subseteq Queued(logout[l].sid)' BY <1>3, <3>1, <3>3 DEF Queued
    <3>. QED BY <1>3, <2>3, <3>1, <3>3, <3>5, <3>6 DEF Chased, Counted
  <2>. QED BY <1>2, <2>2, <2>3 DEF FlowAlone, Resting
<1>. QED BY <1>4, <1>5, <1>6, <1>7 DEF Serial

-----------------------------------------------------------------------------
(* A step of a logout.                                                     *)

LEMMA LogoutLeaves ==
    ASSUME Inv, NEW l \in Logouts, LogoutStep(l)
    PROVE  /\ UNCHANGED <<flow, joined>> /\ stored' \subseteq stored /\ live' \subseteq live
           /\ jobs \subseteq jobs' /\ (faults' = 0 => faults = 0)
           /\ \A s \in Sids : session[s] = "REVOKED" => session'[s] = "REVOKED"
           /\ \A k \in Logouts \ {l} : logout'[k] = logout[k]
<1>1. /\ UNCHANGED <<flow, joined>> /\ stored' \subseteq stored /\ live' \subseteq live
      /\ jobs \subseteq jobs' /\ (faults' = 0 => faults = 0)
  BY DEF LogoutStep, Load, Revoke, ReadGrants, ListTokens, DeleteTokens, DestroyGrant, DropContext,
         Untag, ReadClients, CreateJob, Reply, GrantFails, FollowUpFails, Dies, Keep, stores,
         Fault, Inv, TypeOK
<1>2. \A s \in Sids : session[s] = "REVOKED" => session'[s] = "REVOKED"
  BY DEF LogoutStep, Load, Revoke, ReadGrants, ListTokens, DeleteTokens, DestroyGrant, DropContext,
         Untag, ReadClients, CreateJob, Reply, GrantFails, FollowUpFails, Dies, Keep, Inv, TypeOK
<1>3. \E q : logout' = [logout EXCEPT ![l] = q]
  BY DEF LogoutStep, Load, Revoke, ReadGrants, ListTokens, DeleteTokens, DestroyGrant, DropContext,
         Untag, ReadClients, CreateJob, Reply, GrantFails, FollowUpFails, Dies, LStep
<1>. QED BY <1>1, <1>2, <1>3 DEF Inv, TypeOK

\* What is held of a session only shrinks under logouts.
LEMMA HeldShrinks ==
    ASSUME NEW l, flow' = flow, stored' \subseteq stored, live' \subseteq live,
           logout'[l].sid = logout[l].sid
    PROVE  Held(logout[l].sid)' \subseteq Held(logout[l].sid) \cap live'
BY DEF Held, Working

\* A logout that has ended stays so under the others.
LEMMA OthersEnd ==
    ASSUME Inv, NEW l \in Logouts, LogoutStep(l), NEW k \in Logouts \ {l},
           logout[k].pc \in Resting, Chased(k), Counted(k)
    PROVE  Chased(k)' /\ Counted(k)'
<1>1. /\ UNCHANGED <<flow, joined>> /\ stored' \subseteq stored /\ live' \subseteq live
      /\ jobs \subseteq jobs' /\ logout'[k] = logout[k]
      /\ \A s \in Sids : session[s] = "REVOKED" => session'[s] = "REVOKED"
  BY LogoutLeaves
<1>2. Held(logout[k].sid)' \subseteq Held(logout[k].sid) BY <1>1, HeldShrinks
<1>3. Queued(logout[k].sid) \subseteq Queued(logout[k].sid)' BY <1>1 DEF Queued
<1>. QED BY <1>1, <1>2, <1>3 DEF Chased, Counted, Resting

LEMMA LoadEnds ==
    ASSUME Inv, NEW l \in Logouts, Load(l) PROVE Chased(l)' /\ Counted(l)'
<1>1. UNCHANGED <<flow, stored, live, tagged>> BY DEF Load, Keep, stores
<1>2. CASE Current = NoSid
  <2>1. logout'[l].pc = "reply" /\ logout'[l].sid = NoSid BY <1>2 DEF Load, NoLogout, Inv, TypeOK
  <2>. QED BY <2>1 DEF Chased, Counted
<1>3. CASE Current # NoSid
  <2>1. logout'[l].pc = "revoke" /\ logout'[l].sid = Current BY <1>3 DEF Load, NoLogout, Inv, TypeOK
  <2>2. session[Current] = "ACTIVE" BY <1>3, CurrentType DEF Inv
  <2>3. ASSUME NEW a \in stored, flow[a[1]].sid = Current PROVE flow[a[1]].grant \in tagged[Current]
    <3>1. a[1] \in Serving BY DEF Serving, Inv, TypeOK, Artifact
    <3>2. a[1] \in Tagging BY <3>1, ServingTagging
    <3>. QED BY <2>2, <2>3, <3>2 DEF Inv, Findable
  <2>4. Held(logout[l].sid)' \subseteq tagged'[logout'[l].sid]
    BY <1>1, <2>1, <2>3 DEF Held, Working
  <2>. QED BY <2>1, <2>4 DEF Chased, Counted
<1>. QED BY <1>2, <1>3

LEMMA NextGrantTodo ==
    ASSUME NEW q \in Logout, NEW todo \in SUBSET Grants, NEW r \in NextGrant(q, todo)
    PROVE  /\ r.sid = q.sid
           /\ \/ r.pc = "untag" /\ todo = {}
              \/ r.pc = "list" /\ todo \subseteq r.todo \cup {r.grant}
<1>1. CASE todo = {} BY <1>1 DEF NextGrant, Logout
<1>2. CASE todo # {}
  <2>1. PICK g \in todo : r = [q EXCEPT !.pc = "list", !.todo = todo \ {g}, !.grant = g, !.left = 2]
    BY <1>2 DEF NextGrant
  <2>. QED BY <2>1 DEF Logout
<1>. QED BY <1>1, <1>2

\* The loop over the grants: what is held is in the set it starts from.
LEMMA LoopEnds ==
    ASSUME Inv, NEW l \in Logouts, NEW todo \in SUBSET Grants,
           \E q \in NextGrant(logout[l], todo) : logout' = [logout EXCEPT ![l] = q],
           Held(logout[l].sid) \subseteq todo, UNCHANGED <<flow, stored, live>>
    PROVE  Chased(l)' /\ Counted(l)'
<1>1. PICK q \in NextGrant(logout[l], todo) : logout' = [logout EXCEPT ![l] = q] OBVIOUS
<1>2. logout'[l] = q /\ logout[l] \in Logout BY <1>1 DEF Inv, TypeOK
<1>3. /\ q.sid = logout[l].sid
      /\ \/ q.pc = "untag" /\ todo = {}
         \/ q.pc = "list" /\ todo \subseteq q.todo \cup {q.grant}
  BY <1>1, <1>2, NextGrantTodo
<1>4. Held(logout[l].sid)' \subseteq todo BY <1>2, <1>3, HeldShrinks
<1>. QED BY <1>2, <1>3, <1>4 DEF Chased, Counted

LEMMA StepEnds ==
    ASSUME Inv, NEW l \in Logouts, Chased(l), Counted(l),
           \/ Revoke(l) \/ ListTokens(l) \/ DeleteTokens(l) \/ DestroyGrant(l)
           \/ Untag(l) \/ ReadClients(l) \/ CreateJob(l) \/ Reply(l)
    PROVE  Chased(l)' /\ Counted(l)'
<1>1. /\ UNCHANGED <<flow, joined>> /\ stored' \subseteq stored /\ live' \subseteq live
      /\ jobs \subseteq jobs'
      /\ \A s \in Sids : session[s] = "REVOKED" => session'[s] = "REVOKED"
  BY LogoutLeaves DEF LogoutStep
<1>2. logout[l] \in Logout BY DEF Inv, TypeOK
<1>3. /\ logout[l].pc \notin {"off", "reply", "done"} => logout[l].sid \in Sids
      /\ logout[l].pc \notin {"off", "revoke", "reply", "done"} => session[logout[l].sid] = "REVOKED"
  BY DEF Inv, LogoutBegun, RevokedFirst
<1>4. ASSUME logout'[l].sid = logout[l].sid
      PROVE  Held(logout[l].sid)' \subseteq Held(logout[l].sid) \cap live'
  BY <1>1, <1>4, HeldShrinks
<1>5. CASE Revoke(l)
  <2>1. logout'[l].pc = "grants" /\ logout'[l].sid = logout[l].sid /\ tagged' = tagged
    BY <1>2, <1>5 DEF Revoke, LStep, Keep, stores, Logout, Inv, TypeOK
  <2>. QED BY <1>4, <1>5, <2>1 DEF Revoke, Chased, Counted
<1>6. CASE ListTokens(l)
  <2>1. /\ logout'[l].pc = "delete" /\ logout'[l].sid = logout[l].sid
        /\ logout'[l].todo = logout[l].todo /\ logout'[l].grant = logout[l].grant
    BY <1>2, <1>6 DEF ListTokens, Logout, Inv, TypeOK
  <2>. QED BY <1>4, <1>6, <2>1 DEF ListTokens, Chased, Counted
<1>7. CASE DeleteTokens(l)
  <2>1. /\ logout'[l].pc \in {"list", "destroy"} /\ logout'[l].sid = logout[l].sid
        /\ logout'[l].todo = logout[l].todo /\ logout'[l].grant = logout[l].grant
    BY <1>2, <1>7 DEF DeleteTokens, Logout, Inv, TypeOK
  <2>. QED BY <1>4, <1>7, <2>1 DEF DeleteTokens, Chased, Counted
<1>8. CASE DestroyGrant(l)
  <2>1. /\ logout'[l].pc = "context" /\ logout'[l].sid = logout[l].sid
        /\ logout'[l].todo = logout[l].todo /\ live' = live \ {logout[l].grant}
    BY <1>2, <1>8 DEF DestroyGrant, LStep, Logout, Inv, TypeOK
  <2>. QED BY <1>4, <1>8, <2>1 DEF DestroyGrant, Chased, Counted
<1>9. CASE Untag(l)
  <2>1. logout'[l].pc = "clients" /\ logout'[l].sid = logout[l].sid
    BY <1>2, <1>9 DEF Untag, LStep, Logout, Inv, TypeOK
  <2>. QED BY <1>3, <1>4, <1>9, <2>1, NoneAssumption DEF Untag, Chased, Counted
<1>10. CASE ReadClients(l)
  <2>1. /\ logout'[l].pc = "job" /\ logout'[l].sid = logout[l].sid
        /\ logout'[l].clients = joined[logout[l].sid]
    BY <1>2, <1>10 DEF ReadClients, Logout, Inv, TypeOK
  <2>. QED BY <1>1, <1>3, <1>4, <1>10, <2>1, NoneAssumption DEF ReadClients, Chased, Counted
<1>11. CASE CreateJob(l)
  <2>1. logout'[l].pc = "reply" /\ logout'[l].sid = logout[l].sid /\ session' = session
    BY <1>2, <1>11 DEF CreateJob, LStep, Keep, Logout, Inv, TypeOK
  <2>2. logout[l].clients \subseteq Queued(logout[l].sid)'
    BY <1>11, <2>1 DEF CreateJob, Queued
  <2>. QED BY <1>1, <1>3, <1>4, <1>11, <2>1, <2>2, NoneAssumption DEF CreateJob, Chased, Counted
<1>12. CASE Reply(l)
  <2>1. logout'[l].pc = "done" /\ logout'[l].sid = logout[l].sid
    BY <1>2, <1>12 DEF Reply, LStep, Logout, Inv, TypeOK
  <2>2. Queued(logout[l].sid) \subseteq Queued(logout[l].sid)' BY <1>1, <2>1 DEF Queued
  <2>. QED BY <1>1, <1>4, <1>12, <2>1, <2>2 DEF Reply, Chased, Counted
<1>. QED BY <1>5, <1>6, <1>7, <1>8, <1>9, <1>10, <1>11, <1>12

LEMMA LogoutEnds ==
    ASSUME Inv, NEW l \in Logouts, LogoutStep(l), Chased(l), Counted(l), faults' = 0
    PROVE  Chased(l)' /\ Counted(l)'
<1>1. CASE Load(l) BY <1>1, LoadEnds
<1>2. CASE ReadGrants(l)
  <2>1. tagged[logout[l].sid] \in SUBSET Grants /\ Held(logout[l].sid) \subseteq tagged[logout[l].sid]
    BY <1>2 DEF ReadGrants, Inv, TypeOK, LogoutBegun, Chased
  <2>. QED BY <1>2, <2>1, LoopEnds DEF ReadGrants, Keep, stores
<1>3. CASE DropContext(l)
  <2>1. logout[l].todo \in SUBSET Grants /\ Held(logout[l].sid) \subseteq logout[l].todo
    BY <1>3, StateTypes DEF DropContext, Inv, Logout, Chased
  <2>. QED BY <1>3, <2>1, LoopEnds DEF DropContext, Keep
<1>4. CASE GrantFails(l) \/ FollowUpFails(l) \/ Dies(l)
  BY <1>4 DEF GrantFails, FollowUpFails, Dies, Fault, Inv, TypeOK
<1>. QED BY <1>1, <1>2, <1>3, <1>4, StepEnds DEF LogoutStep

LEMMA LogoutSerial ==
    ASSUME Overlap = FALSE, Inv, Serial, NEW l \in Logouts, LogoutStep(l) PROVE Serial'
<1>1. LogoutAlone(l) BY LogoutIsAlone DEF Serial
<1>2. /\ flow' = flow /\ (faults' = 0 => faults = 0)
      /\ \A k \in Logouts \ {l} : logout'[k] = logout[k]
  BY LogoutLeaves
<1>3. Alone' BY <1>1, <1>2 DEF FlowAlone, LogoutAlone, Alone
<1>4. Works' /\ Unused' BY <1>1, <1>2 DEF LogoutAlone, Works, Unused, Resting
<1>5. Ending'
  <2>. SUFFICES ASSUME faults' = 0, NEW k \in Logouts PROVE Chased(k)' /\ Counted(k)'
    BY DEF Ending
  <2>1. Chased(k) /\ Counted(k) BY <1>2 DEF Serial, Ending
  <2>2. CASE k = l BY <2>1, <2>2, LogoutEnds
  <2>3. CASE k # l BY <1>1, <2>1, <2>3, OthersEnd DEF LogoutAlone
  <2>. QED BY <2>2, <2>3
<1>. QED BY <1>3, <1>4, <1>5 DEF Serial

LEMMA InitSerial == Init => Serial
<1>. SUFFICES ASSUME Init PROVE Serial OBVIOUS
<1>1. \A f \in Flows : flow[f].pc = "off" BY DEF Init, NoFlow
<1>2. \A l \in Logouts : logout[l].pc = "off" BY DEF Init, NoLogout
<1>. QED BY <1>1, <1>2 DEF Serial, Alone, Works, Unused, Ending, Chased, Counted, Resting

LEMMA StutterSerial == Serial /\ UNCHANGED vars => Serial'
BY DEF Serial, Alone, FlowAlone, LogoutAlone, Works, Unused, Ending, Chased, Counted, Held, Working,
       Queued, vars, stores

\* Without overlap, what a logout has still to end it has still to revoke, and
\* what it has ended does not come back: the inductive part of the two below.
THEOREM SerialInvariance == ASSUME Overlap = FALSE PROVE Spec => []Serial
<1>1. ASSUME Inv, Inv', Serial, [Next]_vars PROVE Serial'
  <2>1. CASE UNCHANGED vars BY <1>1, <2>1, StutterSerial
  <2>2. CASE \E f \in Flows : FlowStep(f) BY <1>1, <2>2, FlowSerial
  <2>3. CASE \E l \in Logouts : LogoutStep(l) BY <1>1, <2>3, LogoutSerial
  <2>. QED BY <1>1, <2>1, <2>2, <2>3 DEF Next
<1>. QED BY <1>1, InitSerial, AlwaysInv, PTL DEF Spec

\* Without overlap and failed awaits, no code or token of a session works once a
\* logout of it is done (revokeGrants, logout.service.ts:152), also when the
\* session shares a grant with another.
THEOREM LogoutsEndTokens == ASSUME Overlap = FALSE PROVE Spec => []LogoutEndsTokensUnlessFailed
<1>1. Serial => LogoutEndsTokensUnlessFailed
  <2>. SUFFICES ASSUME Serial, faults = 0, NEW l \in Logouts, logout[l].pc = "done", logout[l].sid # NoSid
                PROVE  Working(logout[l].sid) = {}
    BY DEF LogoutEndsTokensUnlessFailed, LogoutEndsTokens
  <2>1. Held(logout[l].sid) = {} BY DEF Serial, Ending, Chased
  <2>. QED BY <2>1 DEF Held
<1>. QED BY <1>1, SerialInvariance, PTL

\* Without overlap and failed awaits, every client that joined a session has a
\* delivery once a logout of it is done, also those that joined by a handoff.
THEOREM LogoutsQueueEveryClient == ASSUME Overlap = FALSE PROVE Spec => []EveryClientQueuedUnlessFailed
<1>1. Serial => EveryClientQueuedUnlessFailed
  BY DEF Serial, Ending, Counted, Queued, EveryClientQueuedUnlessFailed, EveryClientQueued
<1>. QED BY <1>1, SerialInvariance, PTL
=============================================================================
