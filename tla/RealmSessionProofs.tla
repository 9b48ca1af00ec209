------------------------- MODULE RealmSessionProofs -------------------------
(***************************************************************************)
(* Proofs about RealmSession, for any number of requests, sessions and     *)
(* secrets, with crashes and sweeps at any moment.                         *)
(***************************************************************************)
EXTENDS RealmSession, FiniteSetTheorems, TLAPS

(* The inductive invariant.  A secret that was drawn but is not in its row *)
(* yet is private to its request (Private); every other secret in use was  *)
(* drawn (Known); what a request or the hot store says of a session agrees *)
(* with the row of that session (Copy).                                    *)

Holders == {"insert", "createHot", "warm", "loaded", "touchRow",
            "upgradeDel", "upgradeHot", "revokeRow"}
Publishers == Holders \ {"insert"}
WithCookie == {"row", "warm", "loaded", "touchRow", "upgradeDel", "upgradeHot", "revokeRow"}
Upgrading == {"get", "row", "warm", "loaded", "upgradeDel", "upgradeHot"}

Drawn(r) ==
    \/ req[r].pc = "insert"
    \/ req[r].call = "upgrade" /\ req[r].pc \in {"get", "row", "warm", "loaded"}

\* The copy s of a session, kept or about to be kept under secret k, agrees
\* with the row of the session.
Copy(s, k) ==
    /\ s.sid \in Sids
    /\ s.sid = minted[k]
    /\ rows[s.sid].status # "NONE"
    /\ s.abs = rows[s.sid].abs
    /\ IdleTtl <= AbsTtl => s.idle <= s.abs
    /\ s.aal = 2 => rows[s.sid].aal = 2
    /\ rows[s.sid].hash = k => s.aal = rows[s.sid].aal

HotCopies == \A k \in Secrets : hot[k].sid # NoSid => Copy(hot[k], k)

HotIdle == IdleTtl <= AbsTtl => \A k \in Secrets : hot[k].idle <= hot[k].abs

RowsOk ==
    \A s \in Sids :
      /\ IdleTtl <= AbsTtl => rows[s].idle <= rows[s].abs
      /\ rows[s].status # "NONE" => rows[s].hash \in Secrets /\ minted[rows[s].hash] = s

Known ==
    /\ cookie # NoSecret => minted[cookie] # NoSid
    /\ \A r \in Requests : req[r].cookie # NoSecret => minted[req[r].cookie] # NoSid
    /\ \A r \in Requests : req[r].sec # NoSecret => minted[req[r].sec] # NoSid
    /\ \A r \in Requests : req[r].out = "set" => req[r].sec # NoSecret

Private ==
    \A r \in Requests : Drawn(r) =>
      /\ req[r].sec \in Secrets
      /\ hot[req[r].sec].sid = NoSid
      /\ cookie # req[r].sec
      /\ \A q \in Requests : req[q].cookie # req[r].sec
      /\ \A q \in Requests : q # r => req[q].sec # req[r].sec
      /\ \A s \in Sids : rows[s].status # "NONE" => rows[s].hash # req[r].sec

Inserting ==
    /\ \A r \in Requests : req[r].pc = "insert" =>
         /\ req[r].ses.sid \in Sids
         /\ req[r].ses.sid = minted[req[r].sec]
         /\ req[r].ses.aal = 1
         /\ IdleTtl <= AbsTtl => req[r].ses.idle <= req[r].ses.abs
         /\ rows[req[r].ses.sid].status = "NONE"
    /\ \A r, q \in Requests :
         req[r].pc = "insert" /\ req[q].pc = "insert" /\ r # q
           => req[r].ses.sid # req[q].ses.sid

Requesting ==
    \A r \in Requests :
      /\ req[r].pc \notin Holders => req[r].ses.sid = NoSid
      /\ req[r].pc \in WithCookie => req[r].cookie \in Secrets
      /\ req[r].pc = "createHot" => req[r].sec \in Secrets
      /\ req[r].pc \in Publishers => Copy(req[r].ses, HeldUnder(r))

Stepping ==
    \A r \in Requests :
      /\ req[r].call = "upgrade" /\ req[r].pc \in Upgrading =>
           /\ req[r].want \in Sids
           /\ req[r].sec \in Secrets /\ minted[req[r].sec] = req[r].want
           /\ req[r].cookie \in Secrets /\ minted[req[r].cookie] = req[r].want
           /\ rows[req[r].want].status # "NONE"
      /\ req[r].pc \in {"upgradeDel", "upgradeHot"} =>
           req[r].call = "upgrade" /\ req[r].ses.aal = 2

Inv == /\ TypeOK
       /\ HotCopies /\ HotIdle /\ RowsOk /\ Known
       /\ Private /\ Inserting /\ Requesting /\ Stepping
-----------------------------------------------------------------------------
(* Typing facts the steps share.                                           *)

LEMMA NullTypes == NoSession \in Session /\ NoRequest \in Request
BY DEF NoSession, NoRequest, Session, Request, Pcs, Calls

LEMMA StateTypes ==
    ASSUME Inv, NEW r \in Requests
    PROVE  /\ req \in [Requests -> Request] /\ req[r] \in Request
           /\ rows \in [Sids -> Row] /\ hot \in [Secrets -> Session]
           /\ now \in Nat /\ req[r].ses \in Session
BY DEF Inv, TypeOK, Request

LEMMA RowEdits ==
    ASSUME NEW w \in Row, NEW n \in Nat
    PROVE  [w EXCEPT !.status = "REVOKED"] \in Row /\ [w EXCEPT !.idle = n] \in Row
BY DEF Row

LEMMA WrittenType ==
    ASSUME hot \in [Secrets -> Session], NEW k, NEW s \in Session
    PROVE  Written(k, s) \in [Secrets -> Session]
BY DEF Written

\* A request that lets go of its session: what is left of it in a reply, or in
\* the touch that ends its handler.
LetGo(q, p) ==
    /\ q \in Request
    /\ q.pc \in {"off", "get", "reply"} /\ q.call # "upgrade"
    /\ q.ses.sid = NoSid
    /\ q.sec \in {p.sec, NoSecret} /\ q.cookie \in {p.cookie, NoSecret}
    /\ q.out = "set" => q.sec # NoSecret

LEMMA ReplyLetsGo ==
    ASSUME NEW p \in Request, NEW o \in {"keep", "set", "clear"},
           o = "set" => p.sec # NoSecret
    PROVE  LetGo(ReplyOf(p, o), p)
BY DEF LetGo, ReplyOf, NoRequest, NoSession, Request, Session, Pcs, Calls

LEMMA TouchOrReplyLetsGo ==
    ASSUME NEW p \in Request, NEW o \in {"keep", "set", "clear"},
           o = "set" => p.sec # NoSecret,
           NEW q \in TouchOrReply(p, o)
    PROVE  LetGo(q, p)
<1>1. CASE q = ReplyOf(p, o)
  BY <1>1, ReplyLetsGo
<1>2. CASE q = [p EXCEPT !.pc = "get", !.call = "touch", !.want = NoSid,
                         !.ses = NoSession, !.out = o]
  BY <1>2 DEF LetGo, NoSession, Request, Session, Pcs, Calls
<1>. QED BY <1>1, <1>2 DEF TouchOrReply

-----------------------------------------------------------------------------
(* Every step keeps the invariant: one lemma per action.                   *)

LEMMA LetGoInv == ASSUME Inv, NEW r \in Requests, NEW q, LetGo(q, req[r]),
              req' = [req EXCEPT ![r] = q],
              UNCHANGED <<now, rows, hot, minted, cookie, sweep>> PROVE Inv'
<1>1. TypeOK' BY StateTypes DEF LetGo, Inv, TypeOK
<1>. USE SentinelAssumption, TtlAssumption DEF Inv, TypeOK, Request, Session,
    Row, Pcs, Calls, Copy, HeldUnder, Publishers, Holders, WithCookie,
    Upgrading, Drawn, LetGo
<1>2. HotCopies' BY SMTT(30) DEF HotCopies
<1>3. HotIdle' BY SMTT(30) DEF HotIdle
<1>4. RowsOk' BY SMTT(30) DEF RowsOk
<1>5. Known' BY SMTT(30) DEF Known
<1>6. Private' BY SMTT(30) DEF Private
<1>7. Inserting' BY SMTT(30) DEF Inserting
<1>8. Requesting' BY SMTT(30) DEF Requesting, Private
<1>9. Stepping' BY SMTT(30) DEF Stepping
<1>. QED BY <1>1, <1>2, <1>3, <1>4, <1>5, <1>6, <1>7, <1>8, <1>9 DEF Inv

LEMMA NothingInv == ASSUME Inv, NEW r \in Requests, Nothing(r),
              UNCHANGED <<now, rows, hot, minted, cookie, sweep>> PROVE Inv'
<1>1. PICK o \in {"keep", "set", "clear"} :
         /\ o = "set" => req[r].out = "set"
         /\ req' = [req EXCEPT ![r] = ReplyOf(req[r], o)]
  BY StateTypes DEF Nothing, Request
<1>2. LetGo(ReplyOf(req[r], o), req[r]) BY <1>1, ReplyLetsGo, StateTypes DEF Inv, Known
<1>. QED BY <1>1, <1>2, LetGoInv

LEMMA BeginInv == ASSUME Inv, NEW r \in Requests, Begin(r) PROVE Inv'
<1>1. TypeOK'
  <2>1. PICK c \in {"read", "revoke"} :
           req' = [req EXCEPT ![r] = [NoRequest EXCEPT !.pc = "get", !.call = c, !.cookie = cookie]]
    BY DEF Begin
  <2>2. [NoRequest EXCEPT !.pc = "get", !.call = c, !.cookie = cookie] \in Request
    BY NullTypes DEF Inv, TypeOK, Request, Pcs, Calls
  <2>. QED BY <2>1, <2>2, StateTypes DEF Begin, Inv, TypeOK
<1>. USE SentinelAssumption, TtlAssumption DEF Inv, TypeOK, Request, Session,
    Row, Pcs, Calls, Copy, HeldUnder, Publishers, Holders, WithCookie,
    Upgrading, Drawn, Begin, NoRequest, NoSession
<1>2. HotCopies' BY SMTT(30) DEF HotCopies
<1>3. HotIdle' BY SMTT(30) DEF HotIdle
<1>4. RowsOk' BY SMTT(30) DEF RowsOk
<1>5. Known' BY SMTT(30) DEF Known
<1>6. Private' BY SMTT(30) DEF Private
<1>7. Inserting' BY SMTT(30) DEF Inserting
<1>8. Requesting' BY SMTT(30) DEF Requesting
<1>9. Stepping' BY SMTT(30) DEF Stepping
<1>. QED BY <1>1, <1>2, <1>3, <1>4, <1>5, <1>6, <1>7, <1>8, <1>9 DEF Inv

LEMMA CreateDrawInv == ASSUME Inv, NEW r \in Requests, CreateDraw(r) PROVE Inv'
<1>1. TypeOK'
  <2>1. PICK s \in Sids, k \in Secrets :
           /\ minted' = [minted EXCEPT ![k] = s]
           /\ req' = [req EXCEPT ![r] =
                        [NoRequest EXCEPT
                           !.pc = "insert", !.call = "create", !.cookie = cookie, !.sec = k,
                           !.ses = [sid |-> s, aal |-> 1,
                                    idle |-> now + IdleTtl, abs |-> now + AbsTtl]]]
    BY DEF CreateDraw
  <2>2. [sid |-> s, aal |-> 1, idle |-> now + IdleTtl, abs |-> now + AbsTtl] \in Session
    BY StateTypes, TtlAssumption DEF Session
  <2>3. req'[r] \in Request
    BY <2>1, <2>2, NullTypes, StateTypes DEF Inv, TypeOK, Request, Pcs, Calls
  <2>4. req' \in [Requests -> Request] BY <2>1, <2>3, StateTypes
  <2>. QED BY <2>1, <2>4 DEF CreateDraw, Inv, TypeOK
<1>. USE SentinelAssumption, TtlAssumption DEF Inv, TypeOK, Request, Session,
    Row, Pcs, Calls, Copy, HeldUnder, Publishers, Holders, WithCookie,
    Upgrading, Drawn, CreateDraw, NoRequest, NoSession, FreshSid, FreshSecret
<1>2. HotCopies' BY SMTT(30) DEF HotCopies
<1>3. HotIdle' BY SMTT(30) DEF HotIdle
<1>4. RowsOk' BY SMTT(30) DEF RowsOk
<1>5. Known' BY SMTT(30) DEF Known
<1>6. Private' BY SMTT(30) DEF Private, HotCopies, RowsOk, Known
<1>7. Inserting' BY SMTT(30) DEF Inserting, RowsOk, Private
<1>8. Requesting' BY SMTT(30) DEF Requesting
<1>9. Stepping' BY SMTT(30) DEF Stepping
<1>. QED BY <1>1, <1>2, <1>3, <1>4, <1>5, <1>6, <1>7, <1>8, <1>9 DEF Inv

LEMMA CreateInsertInv == ASSUME Inv, NEW r \in Requests, CreateInsert(r) PROVE Inv'
<1>1. TypeOK'
  <2>1. [req[r] EXCEPT !.pc = "createHot"] \in Request BY StateTypes DEF Request, Pcs
  <2>2. req' \in [Requests -> Request] BY <2>1, StateTypes DEF CreateInsert
  <2>3. rows' \in [Sids -> Row] BY StateTypes DEF CreateInsert, Row, Request, Session
  <2>. QED BY <2>2, <2>3 DEF CreateInsert, Inv, TypeOK
<1>. USE SentinelAssumption, TtlAssumption DEF Inv, TypeOK, Request, Session,
    Row, Pcs, Calls, Copy, HeldUnder, Publishers, Holders, WithCookie,
    Upgrading, Drawn, CreateInsert
<1>2. HotCopies' BY SMTT(30) DEF HotCopies, Inserting
<1>3. HotIdle' BY SMTT(30) DEF HotIdle
<1>4. RowsOk' BY SMTT(30) DEF RowsOk, Private, Inserting
<1>5. Known' BY SMTT(30) DEF Known
<1>6. Private' BY SMTT(30) DEF Private
<1>7. Inserting' BY SMTT(30) DEF Inserting
<1>8. Requesting' BY SMTT(30) DEF Requesting, Private, Inserting
<1>9. Stepping' BY SMTT(30) DEF Stepping
<1>. QED BY <1>1, <1>2, <1>3, <1>4, <1>5, <1>6, <1>7, <1>8, <1>9 DEF Inv

LEMMA CreateHotInv == ASSUME Inv, NEW r \in Requests, CreateHot(r) PROVE Inv'
<1>1. PICK q \in TouchOrReply(req[r], "set") : req' = [req EXCEPT ![r] = q]
  BY DEF CreateHot
<1>2. LetGo(q, req[r])
  BY SentinelAssumption, TouchOrReplyLetsGo, StateTypes DEF CreateHot, Inv, Requesting, Stepping, Upgrading
<1>3. TypeOK'
  BY <1>1, <1>2, WrittenType, StateTypes DEF CreateHot, LetGo, Inv, TypeOK
<1>. USE SentinelAssumption, TtlAssumption DEF Inv, TypeOK, Request, Session,
    Row, Pcs, Calls, Copy, HeldUnder, Publishers, Holders, WithCookie,
    Upgrading, Drawn, LetGo, CreateHot, Written
<1>4. HotCopies' BY <1>1, <1>2, SMTT(30) DEF HotCopies, RowsOk, Requesting,
        Stepping
<1>5. HotIdle' BY <1>1, <1>2, SMTT(30) DEF HotIdle, Requesting
<1>6. RowsOk' BY <1>1, <1>2, SMTT(30) DEF RowsOk
<1>7. Known' BY <1>1, <1>2, SMTT(30) DEF Known
<1>8. Private' BY <1>1, <1>2, SMTT(30) DEF Private
<1>9. Inserting' BY <1>1, <1>2, SMTT(30) DEF Inserting
<1>10. Requesting' BY <1>1, <1>2, SMTT(30) DEF Requesting, HotCopies, RowsOk,
        Known
<1>11. Stepping' BY <1>1, <1>2, SMTT(30) DEF Stepping
<1>. QED BY <1>3, <1>4, <1>5, <1>6, <1>7, <1>8, <1>9, <1>10, <1>11 DEF Inv

LEMMA UpgradeHotInv == ASSUME Inv, NEW r \in Requests, UpgradeHot(r) PROVE Inv'
<1>1. PICK q \in TouchOrReply(req[r], "set") : req' = [req EXCEPT ![r] = q]
  BY DEF UpgradeHot
<1>2. LetGo(q, req[r])
  BY SentinelAssumption, TouchOrReplyLetsGo, StateTypes DEF UpgradeHot, Inv, Requesting, Stepping, Upgrading
<1>3. TypeOK'
  BY <1>1, <1>2, WrittenType, StateTypes DEF UpgradeHot, LetGo, Inv, TypeOK
<1>. USE SentinelAssumption, TtlAssumption DEF Inv, TypeOK, Request, Session,
    Row, Pcs, Calls, Copy, HeldUnder, Publishers, Holders, WithCookie,
    Upgrading, Drawn, LetGo, UpgradeHot, Written
<1>4. HotCopies' BY <1>1, <1>2, SMTT(30) DEF HotCopies, Requesting, Stepping
<1>5. HotIdle' BY <1>1, <1>2, SMTT(30) DEF HotIdle, Requesting
<1>6. RowsOk' BY <1>1, <1>2, SMTT(30) DEF RowsOk
<1>7. Known' BY <1>1, <1>2, SMTT(30) DEF Known
<1>8. Private' BY <1>1, <1>2, SMTT(30) DEF Private
<1>9. Inserting' BY <1>1, <1>2, SMTT(30) DEF Inserting
<1>10. Requesting' BY <1>1, <1>2, SMTT(30) DEF Requesting, HotCopies, RowsOk,
        Known
<1>11. Stepping' BY <1>1, <1>2, SMTT(30) DEF Stepping
<1>. QED BY <1>3, <1>4, <1>5, <1>6, <1>7, <1>8, <1>9, <1>10, <1>11 DEF Inv

LEMMA MissInv == ASSUME Inv, NEW r \in Requests, req[r].pc = "get", req[r].cookie # NoSecret,
              req' = [req EXCEPT ![r].pc = "row"],
              UNCHANGED <<now, rows, hot, minted, cookie, sweep>> PROVE Inv'
<1>1. TypeOK'
  <2>1. [req[r] EXCEPT !.pc = "row"] \in Request BY StateTypes DEF Request, Pcs
  <2>2. req' \in [Requests -> Request] BY <2>1, StateTypes
  <2>. QED BY <2>2 DEF Inv, TypeOK
<1>. USE SentinelAssumption, TtlAssumption DEF Inv, TypeOK, Request, Session,
    Row, Pcs, Calls, Copy, HeldUnder, Publishers, Holders, WithCookie,
    Upgrading, Drawn, Alive
<1>2. HotCopies' BY SMTT(30) DEF HotCopies
<1>3. HotIdle' BY SMTT(30) DEF HotIdle
<1>4. RowsOk' BY SMTT(30) DEF RowsOk
<1>5. Known' BY SMTT(30) DEF Known
<1>6. Private' BY SMTT(30) DEF Private
<1>7. Inserting' BY SMTT(30) DEF Inserting
<1>8. Requesting' BY SMTT(30) DEF Requesting, RowsOk, Private, Stepping
<1>9. Stepping' BY SMTT(30) DEF Stepping
<1>. QED BY <1>1, <1>2, <1>3, <1>4, <1>5, <1>6, <1>7, <1>8, <1>9 DEF Inv

LEMMA HitInv == ASSUME Inv, NEW r \in Requests, req[r].pc = "get", req[r].cookie # NoSecret,
              hot[req[r].cookie].sid # NoSid,
              req' = [req EXCEPT ![r].pc = "loaded", ![r].ses = hot[req[r].cookie]],
              UNCHANGED <<now, rows, hot, minted, cookie, sweep>> PROVE Inv'
<1>1. TypeOK'
  <2>1. [req[r] EXCEPT !.pc = "loaded", !.ses = hot[req[r].cookie]] \in Request BY StateTypes DEF Request, Pcs
  <2>2. req' \in [Requests -> Request] BY <2>1, StateTypes
  <2>. QED BY <2>2 DEF Inv, TypeOK
<1>8. Requesting'
  <2>1. /\ req'[r].pc = "loaded" /\ req'[r].ses = hot[req[r].cookie]
        /\ req'[r].cookie = req[r].cookie
    BY StateTypes DEF Request
  <2>2. \A q \in Requests \ {r} : req'[q] = req[q] BY StateTypes
  <2>3. req[r].cookie \in Secrets BY StateTypes DEF Request
  <2>4. Copy(hot[req[r].cookie], req[r].cookie) BY <2>3 DEF Inv, HotCopies
  <2>5. HeldUnder(r)' = req[r].cookie BY <2>1 DEF HeldUnder
  <2>6. Copy(req[r].ses, HeldUnder(r))' BY <2>1, <2>4, <2>5 DEF Copy
  <2>7. ASSUME NEW q \in Requests \ {r}, req[q].pc \in Publishers
        PROVE  Copy(req[q].ses, HeldUnder(q))'
    <3>1. Copy(req[q].ses, HeldUnder(q)) BY <2>7 DEF Inv, Requesting
    <3>. QED BY <2>2, <3>1 DEF Copy, HeldUnder
  <2>. QED BY <2>1, <2>2, <2>3, <2>6, <2>7 DEF Inv, Requesting, Publishers, Holders
<1>. USE SentinelAssumption, TtlAssumption DEF Inv, TypeOK, Request, Session,
    Row, Pcs, Calls, Copy, HeldUnder, Publishers, Holders, WithCookie,
    Upgrading, Drawn, Alive
<1>2. HotCopies' BY SMTT(30) DEF HotCopies
<1>3. HotIdle' BY SMTT(30) DEF HotIdle
<1>4. RowsOk' BY SMTT(30) DEF RowsOk
<1>5. Known' BY SMTT(30) DEF Known
<1>6. Private' BY SMTT(30) DEF Private
<1>7. Inserting' BY SMTT(30) DEF Inserting
<1>9. Stepping' BY SMTT(30) DEF Stepping
<1>. QED BY <1>1, <1>2, <1>3, <1>4, <1>5, <1>6, <1>7, <1>8, <1>9 DEF Inv

LEMMA LoadHotInv == ASSUME Inv, NEW r \in Requests, LoadHot(r) PROVE Inv'
<1>1. CASE Nothing(r) BY <1>1, NothingInv DEF LoadHot
<1>2. CASE req' = [req EXCEPT ![r].pc = "row"] /\ req[r].cookie # NoSecret
  BY <1>2, MissInv DEF LoadHot
<1>3. CASE /\ req[r].cookie # NoSecret /\ hot[req[r].cookie].sid # NoSid
           /\ req' = [req EXCEPT ![r].pc = "loaded", ![r].ses = hot[req[r].cookie]]
  BY <1>3, HitInv DEF LoadHot
<1>. QED BY <1>1, <1>2, <1>3 DEF LoadHot

LEMMA FoundInv == ASSUME Inv, NEW r \in Requests, req[r].pc = "row", NEW s \in Found(req[r].cookie),
              req' = [req EXCEPT ![r].pc = "warm", ![r].ses = RowSession(s)],
              UNCHANGED <<now, rows, hot, minted, cookie, sweep>> PROVE Inv'
<1>1. TypeOK'
  <2>1. [req[r] EXCEPT !.pc = "warm", !.ses = RowSession(s)] \in Request BY StateTypes DEF RowSession, Found, Request, Session, Row, Pcs
  <2>2. req' \in [Requests -> Request] BY <2>1, StateTypes
  <2>. QED BY <2>2 DEF Inv, TypeOK
<1>. USE SentinelAssumption, TtlAssumption DEF Inv, TypeOK, Request, Session,
    Row, Pcs, Calls, Copy, HeldUnder, Publishers, Holders, WithCookie,
    Upgrading, Drawn, Found, RowSession
<1>2. HotCopies' BY SMTT(30) DEF HotCopies
<1>3. HotIdle' BY SMTT(30) DEF HotIdle
<1>4. RowsOk' BY SMTT(30) DEF RowsOk
<1>5. Known' BY SMTT(30) DEF Known
<1>6. Private' BY SMTT(30) DEF Private
<1>7. Inserting' BY SMTT(30) DEF Inserting
<1>8. Requesting' BY SMTT(30) DEF Requesting, HotCopies, Known, Private,
        Stepping
<1>9. Stepping' BY SMTT(30) DEF Stepping
<1>. QED BY <1>1, <1>2, <1>3, <1>4, <1>5, <1>6, <1>7, <1>8, <1>9 DEF Inv

LEMMA LoadRowInv == ASSUME Inv, NEW r \in Requests, LoadRow(r) PROVE Inv'
<1>1. CASE Nothing(r) BY <1>1, NothingInv DEF LoadRow
<1>2. CASE \E s \in Found(req[r].cookie) :
             req' = [req EXCEPT ![r].pc = "warm", ![r].ses = RowSession(s)]
  BY <1>2, FoundInv DEF LoadRow
<1>. QED BY <1>1, <1>2 DEF LoadRow

LEMMA LoadWarmInv == ASSUME Inv, NEW r \in Requests, LoadWarm(r) PROVE Inv'
<1>1. TypeOK'
  <2>1. [req[r] EXCEPT !.pc = "loaded"] \in Request BY StateTypes DEF Request, Pcs
  <2>2. req' \in [Requests -> Request] BY <2>1, StateTypes DEF LoadWarm
  <2>3. hot' \in [Secrets -> Session] BY StateTypes, WrittenType DEF LoadWarm
  <2>. QED BY <2>2, <2>3 DEF LoadWarm, Inv, TypeOK
<1>. USE SentinelAssumption, TtlAssumption DEF Inv, TypeOK, Request, Session,
    Row, Pcs, Calls, Copy, HeldUnder, Publishers, Holders, WithCookie,
    Upgrading, Drawn, LoadWarm, Written
<1>2. HotCopies' BY SMTT(30) DEF HotCopies, Requesting
<1>3. HotIdle' BY SMTT(30) DEF HotIdle, Requesting
<1>4. RowsOk' BY SMTT(30) DEF RowsOk
<1>5. Known' BY SMTT(30) DEF Known
<1>6. Private' BY SMTT(30) DEF Private
<1>7. Inserting' BY SMTT(30) DEF Inserting
<1>8. Requesting' BY SMTT(30) DEF Requesting
<1>9. Stepping' BY SMTT(30) DEF Stepping
<1>. QED BY <1>1, <1>2, <1>3, <1>4, <1>5, <1>6, <1>7, <1>8, <1>9 DEF Inv

LEMMA ReadRevokeInv == ASSUME Inv, NEW r \in Requests, req[r].pc = "loaded", req[r].call = "read",
              req' = [req EXCEPT ![r].pc = "get", ![r].call = "revoke", ![r].ses = NoSession],
              UNCHANGED <<now, rows, hot, minted, cookie, sweep>> PROVE Inv'
<1>1. TypeOK'
  <2>1. [req[r] EXCEPT !.pc = "get", !.call = "revoke", !.ses = NoSession] \in Request BY StateTypes DEF Request, Session, Pcs, Calls, NoSession
  <2>2. req' \in [Requests -> Request] BY <2>1, StateTypes
  <2>. QED BY <2>2 DEF Inv, TypeOK
<1>. USE SentinelAssumption, TtlAssumption DEF Inv, TypeOK, Request, Session,
    Row, Pcs, Calls, Copy, HeldUnder, Publishers, Holders, WithCookie,
    Upgrading, Drawn, NoSession
<1>2. HotCopies' BY SMTT(30) DEF HotCopies
<1>3. HotIdle' BY SMTT(30) DEF HotIdle
<1>4. RowsOk' BY SMTT(30) DEF RowsOk
<1>5. Known' BY SMTT(30) DEF Known
<1>6. Private' BY SMTT(30) DEF Private
<1>7. Inserting' BY SMTT(30) DEF Inserting
<1>8. Requesting' BY SMTT(30) DEF Requesting, Known
<1>9. Stepping' BY SMTT(30) DEF Stepping
<1>. QED BY <1>1, <1>2, <1>3, <1>4, <1>5, <1>6, <1>7, <1>8, <1>9 DEF Inv

LEMMA ReadDoneInv == ASSUME Inv, NEW r \in Requests, ReadDone(r) PROVE Inv'
<1>1. CASE \E q \in TouchOrReply(req[r], "keep") : req' = [req EXCEPT ![r] = q]
  <2>1. PICK q \in TouchOrReply(req[r], "keep") : req' = [req EXCEPT ![r] = q] BY <1>1
  <2>2. LetGo(q, req[r]) BY TouchOrReplyLetsGo, StateTypes
  <2>. QED BY <2>1, <2>2, LetGoInv DEF ReadDone
<1>2. CASE req' = [req EXCEPT ![r].pc = "get", ![r].call = "revoke", ![r].ses = NoSession]
  BY <1>2, ReadRevokeInv DEF ReadDone
<1>. QED BY <1>1, <1>2 DEF ReadDone

LEMMA ReadUpgradeInv == ASSUME Inv, NEW r \in Requests, ReadUpgrade(r) PROVE Inv'
<1>1. TypeOK'
  <2>1. req[r].ses.sid \in Sids BY DEF ReadUpgrade, Inv, Requesting, Copy, Publishers, Holders
  <2>2. PICK k \in Secrets :
           /\ minted' = [minted EXCEPT ![k] = req[r].ses.sid]
           /\ req' = [req EXCEPT ![r].pc = "get", ![r].call = "upgrade", ![r].ses = NoSession,
                                 ![r].want = req[r].ses.sid, ![r].sec = k]
    BY DEF ReadUpgrade
  <2>3. req'[r] \in Request BY <2>1, <2>2, StateTypes, NullTypes DEF Request, Pcs, Calls
  <2>4. req' \in [Requests -> Request] BY <2>2, <2>3, StateTypes
  <2>. QED BY <2>1, <2>2, <2>4 DEF ReadUpgrade, Inv, TypeOK
<1>7. Inserting'
  <2>1. PICK k \in Secrets :
          /\ FreshSecret(k)
          /\ minted' = [minted EXCEPT ![k] = req[r].ses.sid]
          /\ req' = [req EXCEPT ![r].pc = "get", ![r].call = "upgrade", ![r].ses = NoSession,
                                ![r].want = req[r].ses.sid, ![r].sec = k]
    BY DEF ReadUpgrade
  <2>2. req'[r].pc = "get" BY <2>1, StateTypes DEF Request
  <2>3. \A q \in Requests \ {r} : req'[q] = req[q] BY <2>1, StateTypes
  <2>4. \A q \in Requests : req[q].pc = "insert" =>
          req[q].sec \in Secrets /\ minted[req[q].sec] # NoSid
    BY SentinelAssumption DEF Inv, Private, Drawn, Known
  <2>5. \A q \in Requests : req[q].pc = "insert" => minted'[req[q].sec] = minted[req[q].sec]
    BY <2>1, <2>4 DEF FreshSecret, Inv, TypeOK
  <2>6. rows' = rows BY DEF ReadUpgrade
  <2>. QED BY <2>2, <2>3, <2>5, <2>6 DEF Inv, Inserting
<1>. USE SentinelAssumption, TtlAssumption DEF Inv, TypeOK, Request, Session,
    Row, Pcs, Calls, Copy, HeldUnder, Publishers, Holders, WithCookie,
    Upgrading, Drawn, ReadUpgrade, FreshSecret, NoSession
<1>2. HotCopies' BY SMTT(30) DEF HotCopies
<1>3. HotIdle' BY SMTT(30) DEF HotIdle
<1>4. RowsOk' BY SMTT(30) DEF RowsOk
<1>5. Known' BY SMTT(30) DEF Known
<1>6. Private' BY SMTT(30) DEF Private
<1>8. Requesting'
  <2>1. PICK k \in Secrets :
         /\ FreshSecret(k)
         /\ minted' = [minted EXCEPT ![k] = req[r].ses.sid]
         /\ req' = [req EXCEPT ![r].pc = "get", ![r].call = "upgrade", ![r].ses = NoSession,
                               ![r].want = req[r].ses.sid, ![r].sec = k]
    OBVIOUS
  <2>2. req'[r].pc = "get" /\ req'[r].ses.sid = NoSid BY <2>1
  <2>3. req'[r].cookie = req[r].cookie /\ req'[r].pc \notin WithCookie BY <2>1
  <2>4. ASSUME NEW q \in Requests, q # r
        PROVE  /\ req'[q] = req[q] /\ HeldUnder(q)' = HeldUnder(q)
               /\ req[q].pc \in Publishers =>
                    HeldUnder(q) \in Secrets /\ minted'[HeldUnder(q)] = minted[HeldUnder(q)]
    <3>1. req'[q] = req[q] BY <2>1, <2>4
    <3>2. HeldUnder(q)' = HeldUnder(q) BY <3>1
    <3>3. req[q].pc \in Publishers => HeldUnder(q) \in Secrets
      BY DEF Requesting, Stepping
    <3>4. req[q].pc \in Publishers => HeldUnder(q) # k
      BY <2>1 DEF Requesting, FreshSecret
    <3>. QED BY <2>1, <3>1, <3>2, <3>3, <3>4
  <2>5. ASSUME NEW q \in Requests, q # r, req[q].pc \in Publishers
        PROVE  Copy(req[q].ses, HeldUnder(q))'
    <3>1. Copy(req[q].ses, HeldUnder(q)) BY <2>5 DEF Requesting
    <3>2. rows' = rows OBVIOUS
    <3>. HIDE DEF HeldUnder, ReadUpgrade, Inv, TypeOK
    <3>. QED BY <2>4, <2>5, <3>1, <3>2
  <2>6. ASSUME NEW q \in Requests
        PROVE  /\ (req[q].pc \notin Holders => req[q].ses.sid = NoSid)'
               /\ (req[q].pc \in WithCookie => req[q].cookie \in Secrets)'
               /\ (req[q].pc = "createHot" => req[q].sec \in Secrets)'
    BY <2>2, <2>3, <2>4 DEF Requesting
  <2>7. req'[r].pc \notin Publishers BY <2>2
  <2>8. ASSUME NEW q \in Requests
        PROVE  (req[q].pc \in Publishers => Copy(req[q].ses, HeldUnder(q)))'
    <3>1. CASE q = r BY <2>7, <3>1
    <3>2. CASE q # r
      <4>1. req'[q].pc = req[q].pc BY <2>4, <3>2
      <4>. HIDE DEF HeldUnder, ReadUpgrade, Inv, TypeOK, Request, Session, Copy
      <4>. QED BY <2>5, <3>2, <4>1
    <3>. QED BY <3>1, <3>2
  <2>. HIDE DEF HeldUnder, ReadUpgrade, Inv, TypeOK, Request, Session, Copy
  <2>. QED BY <2>6, <2>8 DEF Requesting
<1>9. Stepping' BY SMTT(30) DEF Stepping
<1>. QED BY <1>1, <1>2, <1>3, <1>4, <1>5, <1>6, <1>7, <1>8, <1>9 DEF Inv

LEMMA TouchHotInv == ASSUME Inv, NEW r \in Requests, TouchHot(r) PROVE Inv'
<1>1. TypeOK'
  <2> DEFINE s == [req[r].ses EXCEPT !.idle = Earlier(now + IdleTtl, req[r].ses.abs)]
  <2>1. s \in Session BY StateTypes, TtlAssumption DEF Session, Earlier
  <2>2. [req[r] EXCEPT !.pc = "touchRow", !.ses = s] \in Request BY <2>1, StateTypes DEF Request, Pcs
  <2>3. req' \in [Requests -> Request] BY <2>2, StateTypes DEF TouchHot
  <2>4. hot' \in [Secrets -> Session] BY <2>1, StateTypes, WrittenType DEF TouchHot
  <2>. QED BY <2>3, <2>4 DEF TouchHot, Inv, TypeOK
<1>. USE SentinelAssumption, TtlAssumption DEF Inv, TypeOK, Request, Session,
    Row, Pcs, Calls, Copy, HeldUnder, Publishers, Holders, WithCookie,
    Upgrading, Drawn, TouchHot, Written, Earlier
<1>2. HotCopies' BY SMTT(30) DEF HotCopies, Known, Requesting
<1>3. HotIdle' BY SMTT(30) DEF HotIdle
<1>4. RowsOk' BY SMTT(30) DEF RowsOk
<1>5. Known' BY SMTT(30) DEF Known
<1>6. Private' BY SMTT(30) DEF Private
<1>7. Inserting' BY SMTT(30) DEF Inserting
<1>8. Requesting' BY SMTT(30) DEF Requesting, Known
<1>9. Stepping' BY SMTT(30) DEF Stepping
<1>. QED BY <1>1, <1>2, <1>3, <1>4, <1>5, <1>6, <1>7, <1>8, <1>9 DEF Inv

LEMMA TouchRowInv == ASSUME Inv, NEW r \in Requests, TouchRow(r) PROVE Inv'
<1>1. TypeOK'
  <2>1. LetGo(ReplyOf(req[r], req[r].out), req[r]) BY ReplyLetsGo, StateTypes DEF Inv, Known, Request
  <2>2. req' \in [Requests -> Request] BY <2>1, StateTypes DEF TouchRow, LetGo
  <2>3. rows' \in [Sids -> Row] BY StateTypes, RowEdits DEF TouchRow, Session
  <2>. QED BY <2>2, <2>3 DEF TouchRow, Inv, TypeOK
<1>. USE SentinelAssumption, TtlAssumption DEF Inv, TypeOK, Request, Session,
    Row, Pcs, Calls, Copy, HeldUnder, Publishers, Holders, WithCookie,
    Upgrading, Drawn, TouchRow, ReplyOf, NoRequest, NoSession
<1>2. HotCopies' BY SMTT(30) DEF HotCopies
<1>3. HotIdle' BY SMTT(30) DEF HotIdle
<1>4. RowsOk' BY SMTT(30) DEF RowsOk, Requesting
<1>5. Known' BY SMTT(30) DEF Known
<1>6. Private' BY SMTT(30) DEF Private
<1>7. Inserting' BY SMTT(30) DEF Inserting
<1>8. Requesting' BY SMTT(30) DEF Requesting, Private
<1>9. Stepping' BY SMTT(30) DEF Stepping
<1>. QED BY <1>1, <1>2, <1>3, <1>4, <1>5, <1>6, <1>7, <1>8, <1>9 DEF Inv

LEMMA UpgradeRowInv == ASSUME Inv, NEW r \in Requests, UpgradeRow(r) PROVE Inv'
<1>1. TypeOK'
  <2>1. [req[r].ses EXCEPT !.aal = 2] \in Session BY StateTypes DEF Session
  <2>2. [req[r] EXCEPT !.pc = "upgradeDel", !.ses = [req[r].ses EXCEPT !.aal = 2]] \in Request
    BY <2>1, StateTypes DEF Request, Pcs
  <2>3. req' \in [Requests -> Request] BY <2>2, StateTypes DEF UpgradeRow
  <2>4. req[r].want \in Sids /\ req[r].sec \in Secrets BY DEF UpgradeRow, Inv, Stepping, Upgrading
  <2>5. [rows[req[r].want] EXCEPT !.aal = 2, !.hash = req[r].sec] \in Row
    BY <2>4, StateTypes DEF Row
  <2>6. rows' \in [Sids -> Row] BY <2>5, StateTypes DEF UpgradeRow
  <2>. QED BY <2>3, <2>6 DEF UpgradeRow, Inv, TypeOK
<1> DEFINE s == req[r].want
<1>10. s \in Sids /\ req[r].sec \in Secrets /\ rows[s].status # "NONE" /\ minted[req[r].sec] = s
  BY DEF UpgradeRow, Inv, Stepping, Upgrading
<1>11. /\ rows'[s].status = rows[s].status /\ rows'[s].abs = rows[s].abs
       /\ rows'[s].aal = 2 /\ rows'[s].hash = req[r].sec
  BY <1>10, StateTypes DEF UpgradeRow, Row
<1>12. \A t \in Sids \ {s} : rows'[t] = rows[t] BY <1>10, StateTypes DEF UpgradeRow
<1>13. hot' = hot /\ minted' = minted BY DEF UpgradeRow
<1>14. ASSUME NEW c \in Session, NEW k, Copy(c, k), k # req[r].sec PROVE Copy(c, k)'
  <2>. HIDE DEF s
  <2>1. CASE c.sid = s BY <1>11, <1>13, <1>14, <2>1 DEF Copy
  <2>2. CASE c.sid # s BY <1>12, <1>13, <1>14, <2>2 DEF Copy
  <2>. QED BY <2>1, <2>2
<1>2. HotCopies'
  <2>1. hot[req[r].sec].sid = NoSid BY DEF UpgradeRow, Inv, Private, Drawn
  <2>. SUFFICES ASSUME NEW k \in Secrets, hot[k].sid # NoSid PROVE Copy(hot[k], k)'
    BY <1>13 DEF HotCopies
  <2>2. hot[k] \in Session /\ Copy(hot[k], k) /\ k # req[r].sec
    BY <2>1, StateTypes DEF Inv, HotCopies
  <2>. QED BY <1>13, <1>14, <2>2
<1>8. Requesting'
  <2>1. /\ req'[r].pc = "upgradeDel" /\ req'[r].ses = [req[r].ses EXCEPT !.aal = 2]
        /\ req'[r].cookie = req[r].cookie /\ req'[r].sec = req[r].sec
    BY StateTypes DEF UpgradeRow, Request
  <2>2. \A q \in Requests \ {r} : req'[q] = req[q] BY StateTypes DEF UpgradeRow
  <2>3. Copy(req[r].ses, req[r].cookie) /\ req[r].cookie \in Secrets /\ req[r].ses.sid = s
    BY DEF UpgradeRow, Inv, Requesting, Publishers, Holders, HeldUnder, Stepping, Upgrading
  <2>4. Copy(req[r].ses, HeldUnder(r))'
    <3>1. HeldUnder(r)' = req[r].sec BY <2>1 DEF HeldUnder
    <3>2. /\ req'[r].ses.sid = s /\ req'[r].ses.aal = 2
          /\ req'[r].ses.abs = req[r].ses.abs /\ req'[r].ses.idle = req[r].ses.idle
      BY <2>1, <2>3, StateTypes DEF Session
    <3>. HIDE DEF s
    <3>. QED BY <1>10, <1>11, <1>13, <2>3, <3>1, <3>2 DEF Copy
  <2>5. ASSUME NEW q \in Requests \ {r}, req[q].pc \in Publishers
        PROVE  Copy(req[q].ses, HeldUnder(q))'
    <3>1. Copy(req[q].ses, HeldUnder(q)) /\ req[q].ses \in Session
      BY <2>5, StateTypes DEF Inv, Requesting
    <3>2. HeldUnder(q) # req[r].sec
      BY DEF UpgradeRow, Inv, Private, Drawn, HeldUnder
    <3>3. (req[q].ses)' = req[q].ses /\ HeldUnder(q)' = HeldUnder(q) BY <2>2 DEF HeldUnder
    <3>. QED BY <1>14, <3>1, <3>2, <3>3
  <2>. QED BY <2>1, <2>2, <2>3, <2>4, <2>5 DEF Inv, Requesting, Publishers, Holders
<1>. HIDE DEF s
<1>. USE SentinelAssumption, TtlAssumption DEF Inv, TypeOK, Request, Session,
    Row, Pcs, Calls, Copy, HeldUnder, Publishers, Holders, WithCookie,
    Upgrading, Drawn, UpgradeRow
<1>3. HotIdle' BY SMTT(30) DEF HotIdle
<1>4. RowsOk' BY SMTT(30) DEF RowsOk
<1>5. Known' BY SMTT(30) DEF Known
<1>6. Private' BY SMTT(30) DEF Private
<1>7. Inserting' BY SMTT(30) DEF Inserting
<1>9. Stepping' BY SMTT(30) DEF Stepping
<1>. QED BY <1>1, <1>2, <1>3, <1>4, <1>5, <1>6, <1>7, <1>8, <1>9 DEF Inv

LEMMA UpgradeDelInv == ASSUME Inv, NEW r \in Requests, UpgradeDel(r) PROVE Inv'
<1>1. TypeOK'
  <2>1. [req[r] EXCEPT !.pc = "upgradeHot"] \in Request BY StateTypes DEF Request, Pcs
  <2>2. req' \in [Requests -> Request] BY <2>1, StateTypes DEF UpgradeDel
  <2>3. hot' \in [Secrets -> Session] BY StateTypes, NullTypes DEF UpgradeDel
  <2>. QED BY <2>2, <2>3 DEF UpgradeDel, Inv, TypeOK
<1>. USE SentinelAssumption, TtlAssumption DEF Inv, TypeOK, Request, Session,
    Row, Pcs, Calls, Copy, HeldUnder, Publishers, Holders, WithCookie,
    Upgrading, Drawn, UpgradeDel, NoSession
<1>2. HotCopies' BY SMTT(30) DEF HotCopies
<1>3. HotIdle' BY SMTT(30) DEF HotIdle
<1>4. RowsOk' BY SMTT(30) DEF RowsOk
<1>5. Known' BY SMTT(30) DEF Known
<1>6. Private' BY SMTT(30) DEF Private
<1>7. Inserting' BY SMTT(30) DEF Inserting
<1>8. Requesting' BY SMTT(30) DEF Requesting
<1>9. Stepping' BY SMTT(30) DEF Stepping
<1>. QED BY <1>1, <1>2, <1>3, <1>4, <1>5, <1>6, <1>7, <1>8, <1>9 DEF Inv

LEMMA RevokeDelInv == ASSUME Inv, NEW r \in Requests, RevokeDel(r) PROVE Inv'
<1>1. TypeOK'
  <2>1. [req[r] EXCEPT !.pc = "revokeRow"] \in Request BY StateTypes DEF Request, Pcs
  <2>2. req' \in [Requests -> Request] BY <2>1, StateTypes DEF RevokeDel
  <2>3. hot' \in [Secrets -> Session] BY StateTypes, NullTypes DEF RevokeDel
  <2>. QED BY <2>2, <2>3 DEF RevokeDel, Inv, TypeOK
<1>. USE SentinelAssumption, TtlAssumption DEF Inv, TypeOK, Request, Session,
    Row, Pcs, Calls, Copy, HeldUnder, Publishers, Holders, WithCookie,
    Upgrading, Drawn, RevokeDel, NoSession
<1>2. HotCopies' BY SMTT(30) DEF HotCopies
<1>3. HotIdle' BY SMTT(30) DEF HotIdle
<1>4. RowsOk' BY SMTT(30) DEF RowsOk
<1>5. Known' BY SMTT(30) DEF Known
<1>6. Private' BY SMTT(30) DEF Private
<1>7. Inserting' BY SMTT(30) DEF Inserting
<1>8. Requesting' BY SMTT(30) DEF Requesting
<1>9. Stepping' BY SMTT(30) DEF Stepping
<1>. QED BY <1>1, <1>2, <1>3, <1>4, <1>5, <1>6, <1>7, <1>8, <1>9 DEF Inv

LEMMA RevokeRowInv == ASSUME Inv, NEW r \in Requests, RevokeRow(r) PROVE Inv'
<1>1. TypeOK'
  <2>1. LetGo(ReplyOf(req[r], "clear"), req[r]) BY ReplyLetsGo, StateTypes DEF Inv, Known, Request
  <2>2. req' \in [Requests -> Request] BY <2>1, StateTypes DEF RevokeRow, LetGo
  <2>3. rows' \in [Sids -> Row] BY StateTypes, RowEdits DEF RevokeRow, Session
  <2>. QED BY <2>2, <2>3 DEF RevokeRow, Inv, TypeOK
<1>. USE SentinelAssumption, TtlAssumption DEF Inv, TypeOK, Request, Session,
    Row, Pcs, Calls, Copy, HeldUnder, Publishers, Holders, WithCookie,
    Upgrading, Drawn, RevokeRow, ReplyOf, NoRequest, NoSession
<1>2. HotCopies' BY SMTT(30) DEF HotCopies
<1>3. HotIdle' BY SMTT(30) DEF HotIdle
<1>4. RowsOk' BY SMTT(30) DEF RowsOk
<1>5. Known' BY SMTT(30) DEF Known
<1>6. Private' BY SMTT(30) DEF Private
<1>7. Inserting' BY SMTT(30) DEF Inserting
<1>8. Requesting' BY SMTT(30) DEF Requesting
<1>9. Stepping' BY SMTT(30) DEF Stepping
<1>. QED BY <1>1, <1>2, <1>3, <1>4, <1>5, <1>6, <1>7, <1>8, <1>9 DEF Inv

LEMMA ReplyInv == ASSUME Inv, NEW r \in Requests, Reply(r) PROVE Inv'
<1>1. TypeOK' BY StateTypes, NullTypes DEF Reply, Inv, TypeOK, Request
<1>. USE SentinelAssumption, TtlAssumption DEF Inv, TypeOK, Request, Session,
    Row, Pcs, Calls, Copy, HeldUnder, Publishers, Holders, WithCookie,
    Upgrading, Drawn, Reply, NoRequest, NoSession
<1>2. HotCopies' BY SMTT(30) DEF HotCopies
<1>3. HotIdle' BY SMTT(30) DEF HotIdle
<1>4. RowsOk' BY SMTT(30) DEF RowsOk
<1>5. Known' BY SMTT(30) DEF Known
<1>6. Private' BY SMTT(30) DEF Private
<1>7. Inserting' BY SMTT(30) DEF Inserting
<1>8. Requesting' BY SMTT(30) DEF Requesting
<1>9. Stepping' BY SMTT(30) DEF Stepping
<1>. QED BY <1>1, <1>2, <1>3, <1>4, <1>5, <1>6, <1>7, <1>8, <1>9 DEF Inv

LEMMA CrashInv == ASSUME Inv, NEW r \in Requests, Crash(r) PROVE Inv'
<1>1. LetGo(NoRequest, req[r]) BY NullTypes DEF LetGo, NoRequest, NoSession
<1>. QED BY <1>1, LetGoInv DEF Crash

LEMMA SweepRowsInv == ASSUME Inv, SweepRows PROVE Inv'
<1>1. TypeOK'
  <2>1. rows' \in [Sids -> Row] BY SMTT(30) DEF SweepRows, Inv, TypeOK, Row
  <2>2. sweep' \in Sweep
    <3>1. {k \in Secrets : hot[k].sid # NoSid} \in SUBSET Secrets OBVIOUS
    <3>. QED BY <3>1 DEF SweepRows, Inv, TypeOK, Sweep
  <2>. QED BY <2>1, <2>2 DEF SweepRows, Inv, TypeOK
<1>. USE SentinelAssumption, TtlAssumption DEF Inv, TypeOK, Request, Session,
    Row, Pcs, Calls, Copy, HeldUnder, Publishers, Holders, WithCookie,
    Upgrading, Drawn, SweepRows
<1>2. HotCopies' BY SMTT(30) DEF HotCopies
<1>3. HotIdle' BY SMTT(30) DEF HotIdle
<1>4. RowsOk' BY SMTT(30) DEF RowsOk
<1>5. Known' BY SMTT(30) DEF Known
<1>6. Private' BY SMTT(30) DEF Private
<1>7. Inserting' BY SMTT(30) DEF Inserting
<1>8. Requesting' BY SMTT(30) DEF Requesting
<1>9. Stepping' BY SMTT(30) DEF Stepping
<1>. QED BY <1>1, <1>2, <1>3, <1>4, <1>5, <1>6, <1>7, <1>8, <1>9 DEF Inv

LEMMA SweepDelInv == ASSUME Inv, SweepDel PROVE Inv'
<1>1. TypeOK' BY NullTypes, SMTT(30) DEF SweepDel, Inv, TypeOK, Sweep
<1>. USE SentinelAssumption, TtlAssumption DEF Inv, TypeOK, Request, Session,
    Row, Pcs, Calls, Copy, HeldUnder, Publishers, Holders, WithCookie,
    Upgrading, Drawn, SweepDel, NoSession
<1>2. HotCopies' BY SMTT(30) DEF HotCopies
<1>3. HotIdle' BY SMTT(30) DEF HotIdle
<1>4. RowsOk' BY SMTT(30) DEF RowsOk
<1>5. Known' BY SMTT(30) DEF Known
<1>6. Private' BY SMTT(30) DEF Private
<1>7. Inserting' BY SMTT(30) DEF Inserting
<1>8. Requesting' BY SMTT(30) DEF Requesting
<1>9. Stepping' BY SMTT(30) DEF Stepping
<1>. QED BY <1>1, <1>2, <1>3, <1>4, <1>5, <1>6, <1>7, <1>8, <1>9 DEF Inv

LEMMA SweepDiesInv == ASSUME Inv, SweepDies PROVE Inv'
<1>1. TypeOK' BY SMTT(30) DEF SweepDies, Inv, TypeOK, Sweep, Session
<1>. USE SentinelAssumption, TtlAssumption DEF Inv, TypeOK, Request, Session,
    Row, Pcs, Calls, Copy, HeldUnder, Publishers, Holders, WithCookie,
    Upgrading, Drawn, SweepDies
<1>2. HotCopies' BY SMTT(30) DEF HotCopies
<1>3. HotIdle' BY SMTT(30) DEF HotIdle
<1>4. RowsOk' BY SMTT(30) DEF RowsOk
<1>5. Known' BY SMTT(30) DEF Known
<1>6. Private' BY SMTT(30) DEF Private
<1>7. Inserting' BY SMTT(30) DEF Inserting
<1>8. Requesting' BY SMTT(30) DEF Requesting
<1>9. Stepping' BY SMTT(30) DEF Stepping
<1>. QED BY <1>1, <1>2, <1>3, <1>4, <1>5, <1>6, <1>7, <1>8, <1>9 DEF Inv

LEMMA TickInv == ASSUME Inv, Tick PROVE Inv'
<1>1. TypeOK' BY DEF Tick, Inv, TypeOK
<1>. USE SentinelAssumption, TtlAssumption DEF Inv, TypeOK, Request, Session,
    Row, Pcs, Calls, Copy, HeldUnder, Publishers, Holders, WithCookie,
    Upgrading, Drawn, Tick
<1>2. HotCopies' BY SMTT(30) DEF HotCopies
<1>3. HotIdle' BY SMTT(30) DEF HotIdle
<1>4. RowsOk' BY SMTT(30) DEF RowsOk
<1>5. Known' BY SMTT(30) DEF Known
<1>6. Private' BY SMTT(30) DEF Private
<1>7. Inserting' BY SMTT(30) DEF Inserting
<1>8. Requesting' BY SMTT(30) DEF Requesting
<1>9. Stepping' BY SMTT(30) DEF Stepping
<1>. QED BY <1>1, <1>2, <1>3, <1>4, <1>5, <1>6, <1>7, <1>8, <1>9 DEF Inv

LEMMA HotGoneInv == ASSUME Inv, NEW k \in Secrets, HotGone(k) PROVE Inv'
<1>1. TypeOK' BY NullTypes DEF HotGone, Inv, TypeOK
<1>. USE SentinelAssumption, TtlAssumption DEF Inv, TypeOK, Request, Session,
    Row, Pcs, Calls, Copy, HeldUnder, Publishers, Holders, WithCookie,
    Upgrading, Drawn, HotGone, NoSession
<1>2. HotCopies' BY SMTT(30) DEF HotCopies
<1>3. HotIdle' BY SMTT(30) DEF HotIdle
<1>4. RowsOk' BY SMTT(30) DEF RowsOk
<1>5. Known' BY SMTT(30) DEF Known
<1>6. Private' BY SMTT(30) DEF Private
<1>7. Inserting' BY SMTT(30) DEF Inserting
<1>8. Requesting' BY SMTT(30) DEF Requesting
<1>9. Stepping' BY SMTT(30) DEF Stepping
<1>. QED BY <1>1, <1>2, <1>3, <1>4, <1>5, <1>6, <1>7, <1>8, <1>9 DEF Inv

LEMMA StutterInv == ASSUME Inv, UNCHANGED vars PROVE Inv'
<1>1. TypeOK' BY DEF vars, Inv, TypeOK
<1>. USE SentinelAssumption, TtlAssumption DEF Inv, TypeOK, Request, Session,
    Row, Pcs, Calls, Copy, HeldUnder, Publishers, Holders, WithCookie,
    Upgrading, Drawn, vars
<1>2. HotCopies' BY SMTT(30) DEF HotCopies
<1>3. HotIdle' BY SMTT(30) DEF HotIdle
<1>4. RowsOk' BY SMTT(30) DEF RowsOk
<1>5. Known' BY SMTT(30) DEF Known
<1>6. Private' BY SMTT(30) DEF Private
<1>7. Inserting' BY SMTT(30) DEF Inserting
<1>8. Requesting' BY SMTT(30) DEF Requesting
<1>9. Stepping' BY SMTT(30) DEF Stepping
<1>. QED BY <1>1, <1>2, <1>3, <1>4, <1>5, <1>6, <1>7, <1>8, <1>9 DEF Inv

LEMMA NextInv == ASSUME Inv, [Next]_vars PROVE Inv'
<1>1. CASE \E r \in Requests : Step(r)
  <2>1. PICK r \in Requests : Step(r) BY <1>1
  <2>2. CASE Begin(r) BY <2>2, BeginInv
  <2>3. CASE CreateDraw(r) BY <2>3, CreateDrawInv
  <2>4. CASE CreateInsert(r) BY <2>4, CreateInsertInv
  <2>5. CASE CreateHot(r) BY <2>5, CreateHotInv
  <2>6. CASE LoadHot(r) BY <2>6, LoadHotInv
  <2>7. CASE LoadRow(r) BY <2>7, LoadRowInv
  <2>8. CASE LoadWarm(r) BY <2>8, LoadWarmInv
  <2>9. CASE ReadDone(r) BY <2>9, ReadDoneInv
  <2>10. CASE ReadUpgrade(r) BY <2>10, ReadUpgradeInv
  <2>11. CASE TouchHot(r) BY <2>11, TouchHotInv
  <2>12. CASE TouchRow(r) BY <2>12, TouchRowInv
  <2>13. CASE UpgradeRow(r) BY <2>13, UpgradeRowInv
  <2>14. CASE UpgradeDel(r) BY <2>14, UpgradeDelInv
  <2>15. CASE UpgradeHot(r) BY <2>15, UpgradeHotInv
  <2>16. CASE RevokeDel(r) BY <2>16, RevokeDelInv
  <2>17. CASE RevokeRow(r) BY <2>17, RevokeRowInv
  <2>18. CASE Reply(r) BY <2>18, ReplyInv
  <2>19. CASE Crash(r) BY <2>19, CrashInv
  <2>. QED
    BY <2>1, <2>2, <2>3, <2>4, <2>5, <2>6, <2>7, <2>8, <2>9, <2>10,
       <2>11, <2>12, <2>13, <2>14, <2>15, <2>16, <2>17, <2>18, <2>19 DEF Step
<1>2. CASE SweepRows BY <1>2, SweepRowsInv
<1>3. CASE SweepDel \/ SweepDies BY <1>3, SweepDelInv, SweepDiesInv
<1>4. CASE Tick BY <1>4, TickInv
<1>5. CASE \E k \in Secrets : HotGone(k) BY <1>5, HotGoneInv
<1>6. CASE UNCHANGED vars BY <1>6, StutterInv
<1>. QED BY <1>1, <1>2, <1>3, <1>4, <1>5, <1>6 DEF Next

LEMMA InitInv == ASSUME Init PROVE Inv
<1>1. TypeOK
  BY NullTypes DEF Init, TypeOK, NoRow, Row, Sweep
<1>2. HotCopies /\ HotIdle /\ RowsOk
  BY DEF Init, HotCopies, HotIdle, RowsOk, NoSession, NoRow
<1>3. Known /\ Private /\ Inserting /\ Requesting /\ Stepping
  BY DEF Init, Known, Private, Drawn, Inserting, Requesting, Stepping, NoRequest, NoSession,
         Publishers, Holders, WithCookie, Upgrading
<1>. QED BY <1>1, <1>2, <1>3 DEF Inv

LEMMA AlwaysInv == Spec => []Inv
<1>1. Init => Inv BY InitInv
<1>2. Inv /\ [Next]_vars => Inv' BY NextInv
<1>. QED BY <1>1, <1>2, PTL DEF Spec

-----------------------------------------------------------------------------
(* The theorems.                                                           *)

\* Every variable stays in its domain.
THEOREM TypeCorrect == Spec => []TypeOK
<1>1. Inv => TypeOK BY DEF Inv
<1>. QED BY <1>1, AlwaysInv, PTL

\* A cookie secret leads to one session, in both stores and in every request,
\* so "session changed during MFA" is never thrown.
THEOREM OneSessionPerSecret == Spec => []SecretNamesSession
<1>1. Inv => SecretNamesSession
  <2>. SUFFICES ASSUME Inv PROVE SecretNamesSession OBVIOUS
  <2>1. \A k \in Secrets : hot[k].sid # NoSid => hot[k].sid = minted[k]
    BY DEF Inv, HotCopies, Copy
  <2>2. \A s \in Sids : rows[s].status # "NONE" => minted[rows[s].hash] = s
    BY DEF Inv, RowsOk
  <2>3. \A r \in Requests : Holding(r) => req[r].ses.sid = minted[HeldUnder(r)]
    BY DEF Inv, Holding, Requesting, Inserting, Copy, HeldUnder, Publishers, Holders
  <2>4. \A r \in Requests :
          req[r].pc = "loaded" /\ req[r].call = "upgrade" => req[r].ses.sid = req[r].want
    BY DEF Inv, Requesting, Stepping, Copy, HeldUnder, Publishers, Holders, Upgrading
  <2>. QED BY <2>1, <2>2, <2>3, <2>4 DEF SecretNamesSession
<1>. QED BY <1>1, AlwaysInv, PTL

\* No hot copy claims a second factor its row does not record.
THEOREM AssuranceIsBacked == Spec => []AssuranceBacked
<1>1. Inv => AssuranceBacked BY DEF Inv, HotCopies, Copy, AssuranceBacked
<1>. QED BY <1>1, AlwaysInv, PTL

\* The hot copy under the current secret has the assurance of the row, however
\* touches, upgrades, crashes and evictions interleave.
THEOREM CurrentCopyIsExact == Spec => []CurrentCopyExact
<1>1. Inv => CurrentCopyExact BY DEF Inv, HotCopies, Copy, CurrentCopyExact
<1>. QED BY <1>1, AlwaysInv, PTL

\* touch never moves an expiry past, nor moves, the absolute one.
THEOREM LifetimeIsFixed == Spec => []LifetimeFixed
<1>1. Inv => LifetimeFixed BY DEF Inv, HotCopies, HotIdle, RowsOk, Copy, LifetimeFixed
<1>. QED BY <1>1, AlwaysInv, PTL

FrameOthers(r) == \A q \in Requests \ {r} : req'[q] = req[q]

LEMMA StepFrame == ASSUME Inv, NEW r \in Requests, Step(r) PROVE FrameOthers(r)
<1>. USE DEF FrameOthers, Inv, TypeOK
<1>1. CASE Begin(r) BY <1>1 DEF Begin
<1>2. CASE CreateDraw(r) BY <1>2 DEF CreateDraw
<1>3. CASE CreateInsert(r) \/ CreateHot(r) BY <1>3 DEF CreateInsert, CreateHot
<1>4. CASE LoadHot(r) \/ LoadRow(r) \/ LoadWarm(r) BY <1>4 DEF LoadHot, LoadRow, LoadWarm, Nothing
<1>5. CASE ReadDone(r) \/ ReadUpgrade(r) BY <1>5 DEF ReadDone, ReadUpgrade
<1>6. CASE TouchHot(r) \/ TouchRow(r) BY <1>6 DEF TouchHot, TouchRow
<1>7. CASE UpgradeRow(r) \/ UpgradeDel(r) \/ UpgradeHot(r)
  BY <1>7 DEF UpgradeRow, UpgradeDel, UpgradeHot
<1>8. CASE RevokeDel(r) \/ RevokeRow(r) \/ Reply(r) \/ Crash(r)
  BY <1>8 DEF RevokeDel, RevokeRow, Reply, Crash
<1>. QED BY <1>1, <1>2, <1>3, <1>4, <1>5, <1>6, <1>7, <1>8 DEF Step

Served(r) ==
    req[r].pc \in {"get", "row"} /\ req'[r].pc \in {"warm", "loaded"}
      => now < rows[req'[r].ses.sid].abs

LEMMA ReplyServesNothing ==
    ASSUME Inv, NEW r \in Requests, Nothing(r) PROVE Served(r)
BY DEF Inv, TypeOK, Nothing, ReplyOf, NoRequest, Served

LEMMA StepServed == ASSUME Inv, NEW r \in Requests, Step(r) PROVE Served(r)
<1>. USE DEF Served, Inv, TypeOK
<1>1. CASE LoadHot(r)
  <2>1. CASE Nothing(r) BY <2>1, ReplyServesNothing
  <2>2. CASE req' = [req EXCEPT ![r].pc = "row"] BY <2>2
  <2>3. CASE /\ req[r].cookie \in Secrets
             /\ hot[req[r].cookie].sid # NoSid /\ Alive(hot[req[r].cookie])
             /\ req' = [req EXCEPT ![r].pc = "loaded", ![r].ses = hot[req[r].cookie]]
    BY <2>3 DEF HotCopies, Copy, Alive
  <2>4. req[r].cookie \in Secrets \cup {NoSecret} BY DEF Request
  <2>. QED BY <1>1, <2>1, <2>2, <2>3, <2>4 DEF LoadHot
<1>2. CASE LoadRow(r)
  <2>1. CASE Nothing(r) BY <2>1, ReplyServesNothing
  <2>2. CASE \E s \in Found(req[r].cookie) :
               /\ Alive(RowSession(s))
               /\ req' = [req EXCEPT ![r].pc = "warm", ![r].ses = RowSession(s)]
    BY <2>2 DEF RowSession, Alive
  <2>. QED BY <1>2, <2>1, <2>2 DEF LoadRow
<1>3. CASE Begin(r) \/ CreateDraw(r) BY <1>3 DEF Begin, CreateDraw
<1>4. CASE CreateInsert(r) \/ CreateHot(r) BY <1>4 DEF CreateInsert, CreateHot
<1>5. CASE LoadWarm(r) \/ ReadDone(r) \/ ReadUpgrade(r) BY <1>5 DEF LoadWarm, ReadDone, ReadUpgrade
<1>6. CASE TouchHot(r) \/ TouchRow(r) BY <1>6 DEF TouchHot, TouchRow
<1>7. CASE UpgradeRow(r) \/ UpgradeDel(r) \/ UpgradeHot(r)
  BY <1>7 DEF UpgradeRow, UpgradeDel, UpgradeHot
<1>8. CASE RevokeDel(r) \/ RevokeRow(r) \/ Reply(r)
  BY <1>8 DEF RevokeDel, RevokeRow, Reply
<1>9. CASE Crash(r) BY <1>9 DEF Crash, NoRequest
<1>. QED BY <1>1, <1>2, <1>3, <1>4, <1>5, <1>6, <1>7, <1>8, <1>9 DEF Step

\* No request is served a session past the absolute expiry of its row.
THEOREM ServiceIsWithinLifetime == Spec => ServedWithinLifetime
<1>1. ASSUME Inv, [Next]_vars PROVE \A r \in Requests : Served(r)
  <2>. TAKE r \in Requests
  <2>1. CASE Step(r) BY <1>1, <2>1, StepServed
  <2>2. ASSUME NEW q \in Requests, q # r, Step(q) PROVE Served(r)
    BY <1>1, <2>2, StepFrame DEF FrameOthers, Served
  <2>3. CASE req' = req BY <2>3 DEF Served
  <2>4. CASE \E q \in Requests : Step(q) BY <2>1, <2>2, <2>4
  <2>. QED BY <1>1, <2>3, <2>4 DEF Next, SweepRows, SweepDel, SweepDies, Tick, HotGone, vars
<1>2. Inv /\ [Next]_vars =>
        [\A r \in Requests :
           req[r].pc \in {"get", "row"} /\ req'[r].pc \in {"warm", "loaded"}
             => now < rows[req'[r].ses.sid].abs]_vars
  BY <1>1 DEF Served
<1>. QED BY <1>2, AlwaysInv, PTL DEF Spec, ServedWithinLifetime

Forward(s) ==
    rows[s].status # "NONE" =>
      /\ rows[s].status = "REVOKED" => rows'[s].status = "REVOKED"
      /\ rows'[s].status # "NONE"
      /\ rows'[s].aal >= rows[s].aal
      /\ rows'[s].abs = rows[s].abs

LEMMA RowsKept == ASSUME Inv, rows' = rows, NEW s \in Sids PROVE Forward(s)
BY DEF Inv, TypeOK, Row, Forward

LEMMA StepForward == ASSUME Inv, NEW r \in Requests, Step(r), NEW s \in Sids PROVE Forward(s)
<1>. USE DEF Forward, Inv, TypeOK, Row
<1>1. CASE CreateInsert(r)
  <2>1. rows[req[r].ses.sid].status = "NONE" BY <1>1 DEF CreateInsert, Inserting
  <2>2. rows'[s] = rows[s] \/ s = req[r].ses.sid BY <1>1 DEF CreateInsert
  <2>. QED BY <2>1, <2>2
<1>2. CASE TouchRow(r) BY <1>2 DEF TouchRow
<1>3. CASE UpgradeRow(r) BY <1>3 DEF UpgradeRow
<1>4. CASE RevokeRow(r) BY <1>4 DEF RevokeRow
<1>5. CASE Begin(r) \/ CreateDraw(r) \/ CreateHot(r)
  BY <1>5, RowsKept DEF Begin, CreateDraw, CreateHot
<1>6. CASE LoadHot(r) \/ LoadRow(r) \/ LoadWarm(r) BY <1>6, RowsKept DEF LoadHot, LoadRow, LoadWarm
<1>7. CASE ReadDone(r) \/ ReadUpgrade(r) \/ TouchHot(r)
  BY <1>7, RowsKept DEF ReadDone, ReadUpgrade, TouchHot
<1>8. CASE UpgradeDel(r) \/ UpgradeHot(r) \/ RevokeDel(r)
  BY <1>8, RowsKept DEF UpgradeDel, UpgradeHot, RevokeDel
<1>9. CASE Reply(r) \/ Crash(r) BY <1>9, RowsKept DEF Reply, Crash
<1>. QED BY <1>1, <1>2, <1>3, <1>4, <1>5, <1>6, <1>7, <1>8, <1>9 DEF Step

\* A row only moves forward, whatever a writer that loaded it earlier does.
THEOREM RowsMoveForward == Spec => RowsForward
<1>1. ASSUME Inv, [Next]_vars PROVE \A s \in Sids : Forward(s)
  <2>. TAKE s \in Sids
  <2>1. CASE \E r \in Requests : Step(r) BY <1>1, <2>1, StepForward
  <2>2. CASE SweepRows BY <1>1, <2>2 DEF SweepRows, Inv, TypeOK, Row, Forward
  <2>3. CASE rows' = rows BY <1>1, <2>3, RowsKept
  <2>. QED BY <1>1, <2>1, <2>2, <2>3 DEF Next, SweepDel, SweepDies, Tick, HotGone, vars
<1>2. Inv /\ [Next]_vars =>
        [\A s \in Sids : rows[s].status # "NONE" =>
           /\ rows[s].status = "REVOKED" => rows'[s].status = "REVOKED"
           /\ rows'[s].status # "NONE"
           /\ rows'[s].aal >= rows[s].aal
           /\ rows'[s].abs = rows[s].abs]_vars
  BY <1>1 DEF Forward
<1>. QED BY <1>2, AlwaysInv, PTL DEF Spec, RowsForward
-----------------------------------------------------------------------------
(* One request or sweep at a time.  Then a session has one hot copy, and   *)
(* what a request holds of its session is what the row and that copy say.  *)
(* A request that dies between UpgradeRow and UpgradeDel leaves the copy   *)
(* under the old secret and the row under one that nobody was told.        *)

InProgress(r) == req[r].pc # "off"

Alone ==
    /\ \A r, q \in Requests : InProgress(r) /\ InProgress(q) => r = q
    /\ sweep.pc # "off" => \A r \in Requests : ~InProgress(r)

\* The end that the row sets to its session.
Ends(s) == Earlier(rows[s].idle, rows[s].abs)

OneCopy == \A k, l \in Secrets : hot[k].sid # NoSid /\ hot[k].sid = hot[l].sid => k = l

\* A session that may be served: it is active, or a sweep that died left its copy.
Usable(s) == rows[s].status = "ACTIVE" \/ s \in sweep.missed

OfUsable ==
    /\ sweep.pc = "off" => \A k \in Secrets : hot[k].sid # NoSid => Usable(hot[k].sid)
    /\ sweep.pc = "scan" => \A k \in Secrets : hot[k].sid # NoSid => k \in sweep.left

Behind ==
    \A k \in Secrets : hot[k].sid # NoSid /\ now < hot[k].abs => Ends(hot[k].sid) <= hot[k].idle

Slid == \A s \in Sids : rows[s].idle <= now + IdleTtl

\* The hot copy of a session whose row has another secret by now.
Outdated(k) == k \in Secrets /\ hot[k].sid # NoSid /\ rows[hot[k].sid].hash # k

Hidden == \A k \in Secrets : Outdated(k) => cookie # rows[hot[k].sid].hash

Stores == OneCopy /\ OfUsable /\ Behind /\ Slid /\ Hidden

\* What holds of a request q in progress: it does not know the new secret of a
\* session with an outdated copy, and what it holds of its session is so.
Unaware(q) ==
    \A k \in Secrets : Outdated(k) =>
      /\ q.cookie # rows[hot[k].sid].hash
      /\ q.sec = rows[hot[k].sid].hash => q.pc = "upgradeDel"

Holds(q) ==
    /\ q.pc \in {"createHot", "warm", "loaded", "touchRow", "upgradeDel", "upgradeHot"} =>
         Usable(q.ses.sid)
    /\ q.pc \in {"warm", "loaded", "touchRow", "upgradeDel"} =>
         \A k \in Secrets : hot[k].sid = q.ses.sid => k = q.cookie
    /\ q.pc \in {"createHot", "upgradeHot", "revokeRow"} =>
         \A k \in Secrets : hot[k].sid # q.ses.sid
    /\ q.pc \in {"createHot", "upgradeDel", "upgradeHot"} => rows[q.ses.sid].hash = q.sec
    /\ q.pc \in {"warm", "loaded", "touchRow"} /\ rows[q.ses.sid].hash # q.cookie =>
         cookie # rows[q.ses.sid].hash /\ q.sec # rows[q.ses.sid].hash
    /\ q.pc \in {"createHot", "warm", "loaded", "upgradeDel", "upgradeHot"} /\ now < q.ses.abs =>
         Ends(q.ses.sid) <= q.ses.idle
    /\ q.pc \in {"insert", "touchRow"} => q.ses.idle <= now + IdleTtl
    /\ q.pc = "touchRow" /\ now < q.ses.abs =>
         \A k \in Secrets : hot[k].sid = q.ses.sid => q.ses.idle <= hot[k].idle

Working == \A r \in Requests : InProgress(r) => Unaware(req[r]) /\ Holds(req[r])

Serial == Alone /\ Stores /\ Working

\* A request starts only when nothing else is in progress.
LEMMA StartsAlone ==
    ASSUME Alone, Busy < MaxInFlight, MaxInFlight = 1
    PROVE  sweep.pc = "off" /\ \A r \in Requests : ~InProgress(r)
<1>1. IsFiniteSet(InFlight)
  <2>1. CASE InFlight = {} BY <2>1, FS_EmptySet
  <2>2. CASE InFlight # {}
    <3>1. PICK r : r \in InFlight BY <2>2
    <3>2. InFlight = {r} BY <3>1 DEF InFlight, Alone, InProgress
    <3>. QED BY <3>2, FS_Singleton
  <2>. QED BY <2>1, <2>2
<1>2. Cardinality(InFlight) \in Nat BY <1>1, FS_CardinalityType
<1>3. sweep.pc = "off" /\ Cardinality(InFlight) = 0 BY <1>2 DEF Busy
<1>4. InFlight = {} BY <1>1, <1>3, FS_EmptySet
<1>. QED BY <1>3, <1>4 DEF InFlight, InProgress

LEMMA OthersOff ==
    ASSUME Alone, NEW r \in Requests, InProgress(r)
    PROVE  sweep.pc = "off" /\ \A o \in Requests \ {r} : ~InProgress(o)
BY DEF Alone

\* A step of request r, which leaves it as q.
LEMMA StepSerial ==
    ASSUME Inv, NEW r \in Requests, NEW q, req' = [req EXCEPT ![r] = q], sweep' = sweep,
           sweep.pc = "off", \A o \in Requests \ {r} : ~InProgress(o),
           Stores', q.pc # "off" => Unaware(q)' /\ Holds(q)'
    PROVE  Serial'
<1>1. req'[r] = q /\ \A o \in Requests \ {r} : req'[o] = req[o] BY DEF Inv, TypeOK
<1>2. \A o \in Requests \ {r} : ~InProgress(o)' BY <1>1 DEF InProgress
<1>3. Alone' BY <1>2 DEF Alone
<1>4. Working' 
  <2>. SUFFICES ASSUME NEW o \in Requests, InProgress(o)' PROVE Unaware(req[o])' /\ Holds(req[o])'
    BY DEF Working
  <2>1. o = r BY <1>2
  <2>2. (req[o])' = q BY <1>1, <2>1
  <2>3. Unaware(q)' /\ Holds(q)' BY <1>1, <2>1, <2>2 DEF InProgress
  <2>. QED BY <2>2, <2>3 DEF Unaware, Holds, Usable
<1>. QED BY <1>3, <1>4 DEF Serial

\* What the rows and hot copies say of each other.
LEMMA CopyFacts ==
    ASSUME Inv, NEW k \in Secrets, hot[k].sid # NoSid
    PROVE  /\ hot[k] \in Session /\ hot[k].sid \in Sids /\ rows[hot[k].sid] \in Row
           /\ hot[k].abs = rows[hot[k].sid].abs
           /\ minted[k] = hot[k].sid
           /\ rows[hot[k].sid].hash \in Secrets /\ minted[rows[hot[k].sid].hash] = hot[k].sid
           /\ rows[hot[k].sid].status # "NONE"
BY DEF Inv, TypeOK, HotCopies, Copy, RowsOk

\* As long as rows, copies and cookie stay as they are, so do the stores.
LEMMA StoresKept ==
    ASSUME Stores, UNCHANGED <<now, rows, hot, cookie, sweep>> PROVE Stores'
BY DEF Stores, OneCopy, OfUsable, Usable, Behind, Ends, Slid, Hidden, Outdated

\* A request that holds nothing.
LEMMA Empty ==
    ASSUME NEW q, q.pc \in {"off", "get", "row", "reply"} PROVE Holds(q)'
BY DEF Holds, Usable

\* A request that knows no more than p did.
LEMMA StillUnaware ==
    ASSUME Inv, NEW p, Unaware(p), p.pc # "upgradeDel", NEW q,
           q.cookie \in {p.cookie, NoSecret}, q.sec \in {p.sec, NoSecret},
           UNCHANGED <<rows, hot>>
    PROVE  Unaware(q)'
<1>. SUFFICES ASSUME NEW k \in Secrets, Outdated(k)
              PROVE  q.cookie # rows[hot[k].sid].hash /\ q.sec # rows[hot[k].sid].hash
  BY DEF Unaware, Outdated
<1>1. rows[hot[k].sid].hash \in Secrets BY CopyFacts DEF Outdated
<1>2. p.cookie # rows[hot[k].sid].hash /\ p.sec # rows[hot[k].sid].hash BY DEF Unaware
<1>. QED BY <1>1, <1>2, SentinelAssumption

LEMMA BeginSerial == ASSUME Inv, Serial, MaxInFlight = 1, NEW r \in Requests, Begin(r) PROVE Serial'
<1>1. PICK c \in {"read", "revoke"} :
         req' = [req EXCEPT ![r] = [NoRequest EXCEPT !.pc = "get", !.call = c, !.cookie = cookie]]
  BY DEF Begin
<1>2. PICK q : q = [NoRequest EXCEPT !.pc = "get", !.call = c, !.cookie = cookie] OBVIOUS
<1>3. q.pc = "get" /\ q.cookie = cookie /\ q.sec = NoSecret BY <1>2 DEF NoRequest
<1>4. UNCHANGED <<now, rows, hot, cookie, sweep>> BY DEF Begin
<1>5. Unaware(q)'
  <2>. SUFFICES ASSUME NEW k \in Secrets, Outdated(k)
                PROVE  q.cookie # rows[hot[k].sid].hash /\ q.sec # rows[hot[k].sid].hash
    BY <1>4 DEF Unaware, Outdated
  <2>. QED BY <1>3, CopyFacts, SentinelAssumption DEF Serial, Stores, Hidden, Outdated
<1>6. sweep.pc = "off" /\ \A o \in Requests : ~InProgress(o)
  BY StartsAlone DEF Begin, Serial
<1>7. Stores' BY <1>4, StoresKept DEF Serial
<1>8. Holds(q)' BY <1>3, Empty
<1>9. req' = [req EXCEPT ![r] = q] BY <1>1, <1>2
<1>. QED BY <1>4, <1>5, <1>6, <1>7, <1>8, <1>9, StepSerial

LEMMA CreateDrawSerial ==
    ASSUME Inv, Serial, MaxInFlight = 1, NEW r \in Requests, CreateDraw(r) PROVE Serial'
<1>1. PICK s \in Sids, k \in Secrets :
         /\ FreshSecret(k)
         /\ req' = [req EXCEPT ![r] =
                      [NoRequest EXCEPT
                         !.pc = "insert", !.call = "create", !.cookie = cookie, !.sec = k,
                         !.ses = [sid |-> s, aal |-> 1, idle |-> now + IdleTtl, abs |-> now + AbsTtl]]]
  BY DEF CreateDraw
<1>2. PICK q : q = [NoRequest EXCEPT
                      !.pc = "insert", !.call = "create", !.cookie = cookie, !.sec = k,
                      !.ses = [sid |-> s, aal |-> 1, idle |-> now + IdleTtl, abs |-> now + AbsTtl]]
  OBVIOUS
<1>3. q.pc = "insert" /\ q.cookie = cookie /\ q.sec = k /\ q.ses.idle = now + IdleTtl
  BY <1>2 DEF NoRequest
<1>4. UNCHANGED <<now, rows, hot, cookie, sweep>> BY DEF CreateDraw
<1>5. Unaware(q)'
  <2>. SUFFICES ASSUME NEW l \in Secrets, Outdated(l)
                PROVE  q.cookie # rows[hot[l].sid].hash /\ q.sec # rows[hot[l].sid].hash
    BY <1>4 DEF Unaware, Outdated
  <2>1. minted[rows[hot[l].sid].hash] # NoSid BY CopyFacts DEF Outdated
  <2>. QED BY <1>1, <1>3, <2>1 DEF Serial, Stores, Hidden, FreshSecret
<1>6. Holds(q)' BY <1>3, <1>4, TtlAssumption DEF Holds, Usable, Inv, TypeOK
<1>7. sweep.pc = "off" /\ \A o \in Requests : ~InProgress(o)
  BY StartsAlone DEF CreateDraw, Serial
<1>. QED BY <1>1, <1>2, <1>4, <1>5, <1>6, <1>7, StoresKept, StepSerial DEF Serial

\* Steps that leave the stores as they are.
LEMMA QuietStep ==
    ASSUME Inv, Serial, NEW r \in Requests, InProgress(r), NEW q, req' = [req EXCEPT ![r] = q],
           UNCHANGED <<now, rows, hot, cookie, sweep>>,
           q.pc # "off" => Unaware(q)' /\ Holds(q)'
    PROVE  Serial'
<1>1. sweep.pc = "off" /\ \A o \in Requests \ {r} : ~InProgress(o) BY OthersOff DEF Serial
<1>2. Stores' BY StoresKept DEF Serial
<1>. QED BY <1>1, <1>2, StepSerial

\* A request that lets go of its session.
LEMMA LetGoSerial ==
    ASSUME Inv, Serial, NEW r \in Requests, InProgress(r), req[r].pc # "upgradeDel",
           NEW q, LetGo(q, req[r]), req' = [req EXCEPT ![r] = q],
           UNCHANGED <<now, rows, hot, cookie, sweep>>
    PROVE  Serial'
<1>1. Unaware(req[r]) BY DEF Serial, Working
<1>2. Unaware(q)' BY <1>1, StillUnaware DEF LetGo
<1>3. Holds(q)' BY Empty DEF LetGo
<1>. QED BY <1>2, <1>3, QuietStep

LEMMA NothingSerial ==
    ASSUME Inv, Serial, NEW r \in Requests, req[r].pc \in {"get", "row"}, Nothing(r),
           UNCHANGED <<now, rows, hot, cookie, sweep>>
    PROVE  Serial'
<1>1. PICK o \in {"keep", "set", "clear"} :
         /\ o = "set" => req[r].out = "set"
         /\ req' = [req EXCEPT ![r] = ReplyOf(req[r], o)]
  BY StateTypes DEF Nothing, Request
<1>2. LetGo(ReplyOf(req[r], o), req[r]) BY <1>1, ReplyLetsGo, StateTypes DEF Inv, Known
<1>. QED BY <1>1, <1>2, LetGoSerial DEF InProgress

LEMMA LoadHotSerial == ASSUME Inv, Serial, NEW r \in Requests, LoadHot(r) PROVE Serial'
<1>1. UNCHANGED <<now, rows, hot, cookie, sweep>> /\ req[r].pc = "get" /\ InProgress(r)
  BY DEF LoadHot, InProgress
<1>2. Unaware(req[r]) BY <1>1 DEF Serial, Working
<1>3. CASE Nothing(r) BY <1>1, <1>3, NothingSerial
<1>4. CASE req' = [req EXCEPT ![r].pc = "row"]
  <2>1. PICK q : q = [req[r] EXCEPT !.pc = "row"] OBVIOUS
  <2>2. q.pc = "row" /\ q.cookie = req[r].cookie /\ q.sec = req[r].sec BY <2>1, StateTypes DEF Request
  <2>3. Unaware(q)' /\ Holds(q)' BY <1>1, <1>2, <2>2, StillUnaware, Empty
  <2>4. req' = [req EXCEPT ![r] = q] BY <1>4, <2>1
  <2>. QED BY <1>1, <2>3, <2>4, QuietStep
<1>5. CASE /\ req[r].cookie # NoSecret /\ hot[req[r].cookie].sid # NoSid
           /\ req' = [req EXCEPT ![r].pc = "loaded", ![r].ses = hot[req[r].cookie]]
  <2>1. PICK k : k = req[r].cookie OBVIOUS
  <2>2. k \in Secrets /\ hot[k].sid # NoSid BY <1>5, <2>1, StateTypes DEF Request
  <2>3. PICK q : q = [req[r] EXCEPT !.pc = "loaded", !.ses = hot[k]] OBVIOUS
  <2>4. q.pc = "loaded" /\ q.cookie = k /\ q.sec = req[r].sec /\ q.ses = hot[k]
    BY <2>1, <2>3, StateTypes DEF Request
  <2>5. sweep.pc = "off" BY <1>1, OthersOff DEF Serial
  <2>6. Unaware(q)' BY <1>1, <1>2, <2>1, <2>4, StillUnaware
  <2>7. Holds(q)
    BY <1>1, <1>2, <2>1, <2>2, <2>4, <2>5
    DEF Holds, Usable, Serial, Stores, OfUsable, OneCopy, Behind, Hidden, Unaware, Outdated
  <2>8. Holds(q)' BY <1>1, <2>7 DEF Holds, Usable, Ends
  <2>9. req' = [req EXCEPT ![r] = q] BY <1>5, <2>1, <2>3
  <2>. QED BY <1>1, <2>6, <2>8, <2>9, QuietStep
<1>. QED BY <1>3, <1>4, <1>5 DEF LoadHot

LEMMA LoadRowSerial == ASSUME Inv, Serial, NEW r \in Requests, LoadRow(r) PROVE Serial'
<1>1. UNCHANGED <<now, rows, hot, cookie, sweep>> /\ req[r].pc = "row" /\ InProgress(r)
  BY DEF LoadRow, InProgress
<1>2. Unaware(req[r]) BY <1>1 DEF Serial, Working
<1>3. CASE Nothing(r) BY <1>1, <1>3, NothingSerial
<1>4. ASSUME NEW s \in Found(req[r].cookie),
             req' = [req EXCEPT ![r].pc = "warm", ![r].ses = RowSession(s)]
      PROVE  Serial'
  <2>1. PICK q : q = [req[r] EXCEPT !.pc = "warm", !.ses = RowSession(s)] OBVIOUS
  <2>2. /\ q.pc = "warm" /\ q.cookie = req[r].cookie /\ q.sec = req[r].sec
        /\ q.ses.sid = s /\ q.ses.idle = rows[s].idle /\ q.ses.abs = rows[s].abs
    BY <2>1, StateTypes DEF Request, RowSession
  <2>3. s \in Sids /\ rows[s].status = "ACTIVE" /\ rows[s].hash = q.cookie BY <2>2 DEF Found
  <2>4. \A k \in Secrets : hot[k].sid = s => k = q.cookie
    BY <1>2, <2>2, <2>3, SentinelAssumption DEF Unaware, Outdated
  <2>5. Ends(s) <= rows[s].idle
    BY <2>3, StateTypes DEF Ends, Earlier, Row
  <2>6. Holds(q)' BY <1>1, <2>2, <2>3, <2>4, <2>5 DEF Holds, Usable, Ends
  <2>7. Unaware(q)' BY <1>1, <1>2, <2>2, StillUnaware
  <2>8. req' = [req EXCEPT ![r] = q] BY <1>4, <2>1
  <2>. QED BY <1>1, <2>6, <2>7, <2>8, QuietStep
<1>. QED BY <1>3, <1>4 DEF LoadRow

LEMMA ReadDoneSerial == ASSUME Inv, Serial, NEW r \in Requests, ReadDone(r) PROVE Serial'
<1>1. UNCHANGED <<now, rows, hot, cookie, sweep>> /\ req[r].pc = "loaded" /\ InProgress(r)
  BY DEF ReadDone, InProgress
<1>2. CASE \E q \in TouchOrReply(req[r], "keep") : req' = [req EXCEPT ![r] = q]
  <2>1. PICK q \in TouchOrReply(req[r], "keep") : req' = [req EXCEPT ![r] = q] BY <1>2
  <2>2. LetGo(q, req[r]) BY TouchOrReplyLetsGo, StateTypes
  <2>. QED BY <1>1, <2>1, <2>2, LetGoSerial
<1>3. CASE req' = [req EXCEPT ![r].pc = "get", ![r].call = "revoke", ![r].ses = NoSession]
  <2>1. PICK q : q = [req[r] EXCEPT !.pc = "get", !.call = "revoke", !.ses = NoSession] OBVIOUS
  <2>2. q.pc = "get" /\ q.cookie = req[r].cookie /\ q.sec = req[r].sec BY <2>1, StateTypes DEF Request
  <2>3. Unaware(req[r]) BY <1>1 DEF Serial, Working
  <2>4. Unaware(q)' /\ Holds(q)' BY <1>1, <2>2, <2>3, StillUnaware, Empty
  <2>5. req' = [req EXCEPT ![r] = q] BY <1>3, <2>1
  <2>. QED BY <1>1, <2>4, <2>5, QuietStep
<1>. QED BY <1>2, <1>3 DEF ReadDone

LEMMA ReadUpgradeSerial == ASSUME Inv, Serial, NEW r \in Requests, ReadUpgrade(r) PROVE Serial'
<1>1. UNCHANGED <<now, rows, hot, cookie, sweep>> /\ req[r].pc = "loaded" /\ InProgress(r)
  BY DEF ReadUpgrade, InProgress
<1>2. PICK k \in Secrets :
         /\ FreshSecret(k)
         /\ req' = [req EXCEPT ![r].pc = "get", ![r].call = "upgrade", ![r].ses = NoSession,
                               ![r].want = req[r].ses.sid, ![r].sec = k]
  BY DEF ReadUpgrade
<1>3. PICK q : q = [req[r] EXCEPT !.pc = "get", !.call = "upgrade", !.ses = NoSession,
                                  !.want = req[r].ses.sid, !.sec = k]
  OBVIOUS
<1>4. q.pc = "get" /\ q.cookie = req[r].cookie /\ q.sec = k BY <1>3, StateTypes DEF Request
<1>5. Unaware(req[r]) BY <1>1 DEF Serial, Working
<1>6. Unaware(q)'
  <2>. SUFFICES ASSUME NEW l \in Secrets, Outdated(l)
                PROVE  q.cookie # rows[hot[l].sid].hash /\ q.sec # rows[hot[l].sid].hash
    BY <1>1 DEF Unaware, Outdated
  <2>1. minted[rows[hot[l].sid].hash] # NoSid BY CopyFacts DEF Outdated
  <2>. QED BY <1>2, <1>4, <1>5, <2>1 DEF Unaware, FreshSecret
<1>7. Holds(q)' BY <1>4, Empty
<1>8. req' = [req EXCEPT ![r] = q] BY <1>2, <1>3
<1>. QED BY <1>1, <1>6, <1>7, <1>8, QuietStep

LEMMA CrashSerial == ASSUME Inv, Serial, NEW r \in Requests, Crash(r) PROVE Serial'
<1>1. UNCHANGED <<now, rows, hot, cookie, sweep>> /\ InProgress(r) BY DEF Crash, InProgress
<1>2. NoRequest.pc = "off" BY DEF NoRequest
<1>. QED BY <1>1, <1>2, QuietStep DEF Crash

LEMMA ReplySerial == ASSUME Inv, Serial, NEW r \in Requests, Reply(r) PROVE Serial'
<1>1. req[r].pc = "reply" /\ InProgress(r) /\ UNCHANGED <<now, rows, hot, sweep>>
  BY DEF Reply, InProgress
<1>2. Unaware(req[r]) BY <1>1 DEF Serial, Working
<1>3. cookie' \in {req[r].sec, NoSecret, cookie} BY DEF Reply
<1>4. Hidden'
  <2>. SUFFICES ASSUME NEW k \in Secrets, Outdated(k) PROVE cookie' # rows[hot[k].sid].hash
    BY <1>1 DEF Hidden, Outdated
  <2>1. rows[hot[k].sid].hash \in Secrets BY CopyFacts DEF Outdated
  <2>. QED BY <1>1, <1>2, <1>3, <2>1, SentinelAssumption DEF Serial, Stores, Hidden, Unaware
<1>5. Stores' BY <1>1, <1>4 DEF Serial, Stores, OneCopy, OfUsable, Usable, Behind, Ends, Slid
<1>6. NoRequest.pc = "off" BY DEF NoRequest
<1>7. sweep.pc = "off" /\ \A o \in Requests \ {r} : ~InProgress(o) BY <1>1, OthersOff DEF Serial
<1>. QED BY <1>1, <1>5, <1>6, <1>7, StepSerial DEF Reply

LEMMA CreateInsertSerial == ASSUME Inv, Serial, NEW r \in Requests, CreateInsert(r) PROVE Serial'
<1>1. req[r].pc = "insert" /\ InProgress(r) /\ UNCHANGED <<now, hot, minted, cookie, sweep>>
  BY DEF CreateInsert, InProgress
<1>2. PICK s : s = req[r].ses OBVIOUS
<1>3. /\ s \in Session /\ s.sid \in Sids /\ rows[s.sid].status = "NONE" /\ s.idle <= now + IdleTtl
      /\ s.sid = minted[req[r].sec]
  BY <1>1, <1>2, StateTypes DEF Inv, Inserting, Serial, Working, Holds, Usable
<1>4. /\ rows'[s.sid] = [status |-> "ACTIVE", aal |-> s.aal, hash |-> req[r].sec,
                         idle |-> s.idle, abs |-> s.abs]
      /\ \A t \in Sids \ {s.sid} : rows'[t] = rows[t]
  BY <1>2, <1>3, StateTypes DEF CreateInsert
<1>5. \A k \in Secrets : hot[k].sid # NoSid => hot[k].sid # s.sid /\ rows'[hot[k].sid] = rows[hot[k].sid]
  BY <1>3, <1>4, CopyFacts
<1>6. \A k \in Secrets : Outdated(k)' <=> Outdated(k) BY <1>1, <1>5 DEF Outdated
<1>7. Stores'
  <2>1. OneCopy' /\ OfUsable' BY <1>1, <1>5 DEF Serial, Stores, OneCopy, OfUsable, Usable
  <2>2. Behind' BY <1>1, <1>5 DEF Serial, Stores, Behind, Ends
  <2>3. Slid' BY <1>1, <1>3, <1>4 DEF Serial, Stores, Slid
  <2>4. Hidden' BY <1>1, <1>5, <1>6 DEF Serial, Stores, Hidden, Outdated
  <2>. QED BY <2>1, <2>2, <2>3, <2>4 DEF Stores
<1>8. PICK q : q = [req[r] EXCEPT !.pc = "createHot"] OBVIOUS
<1>9. q.pc = "createHot" /\ q.cookie = req[r].cookie /\ q.sec = req[r].sec /\ q.ses = s
  BY <1>2, <1>8, StateTypes DEF Request
<1>10. Unaware(q)'
  BY <1>1, <1>5, <1>6, <1>9 DEF Serial, Working, Unaware, Outdated
<1>11. Holds(q)'
  <2>1. \A k \in Secrets : hot[k].sid # s.sid BY <1>3, <1>5, SentinelAssumption
  <2>2. Ends(s.sid)' <= s.idle BY <1>3, <1>4 DEF Ends, Earlier, Session
  <2>. QED BY <1>1, <1>4, <1>9, <2>1, <2>2 DEF Holds, Usable
<1>12. req' = [req EXCEPT ![r] = q] BY <1>8 DEF CreateInsert
<1>13. sweep.pc = "off" /\ \A o \in Requests \ {r} : ~InProgress(o) BY <1>1, OthersOff DEF Serial
<1>. QED BY <1>1, <1>7, <1>10, <1>11, <1>12, <1>13, StepSerial

\* The one copy of a session is written, under the secret of its row or where it was.
LEMMA WriteStores ==
    ASSUME Inv, Stores, NEW k \in Secrets, NEW s \in Session, s.sid \in Sids,
           Usable(s.sid), sweep.pc = "off", s.abs = rows[s.sid].abs,
           \A l \in Secrets : hot[l].sid = s.sid => l = k,
           rows[s.sid].hash # k => cookie # rows[s.sid].hash,
           now < s.abs => Ends(s.sid) <= s.idle,
           hot' = Written(k, s), UNCHANGED <<now, rows, cookie, sweep>>
    PROVE  Stores'
<1>1. CASE hot' = hot BY <1>1, StoresKept
<1>2. CASE hot' = [hot EXCEPT ![k] = s]
  <2>1. hot'[k] = s /\ \A l \in Secrets \ {k} : hot'[l] = hot[l] BY <1>2 DEF Inv, TypeOK
  <2>2. OneCopy' BY <2>1 DEF Stores, OneCopy
  <2>3. OfUsable' BY <2>1 DEF Stores, OfUsable, Usable
  <2>4. Behind' BY <2>1 DEF Stores, Behind, Ends
  <2>5. Slid' BY DEF Stores, Slid
  <2>6. Hidden' BY <2>1 DEF Stores, Hidden, Outdated
  <2>. QED BY <2>2, <2>3, <2>4, <2>5, <2>6 DEF Stores
<1>. QED BY <1>1, <1>2 DEF Written

\* Nobody learns a secret by such a write.
LEMMA WriteUnaware ==
    ASSUME Inv, NEW p, Unaware(p), p.pc # "upgradeDel", NEW q,
           q.cookie \in {p.cookie, NoSecret}, q.sec \in {p.sec, NoSecret},
           NEW k \in Secrets, NEW s \in Session, s.sid \in Sids, rows[s.sid].status # "NONE",
           rows[s.sid].hash # k => p.cookie # rows[s.sid].hash /\ p.sec # rows[s.sid].hash,
           hot' = Written(k, s), rows' = rows
    PROVE  Unaware(q)'
<1>1. CASE hot' = hot BY <1>1, StillUnaware
<1>2. CASE hot' = [hot EXCEPT ![k] = s]
  <2>1. hot'[k] = s /\ \A l \in Secrets \ {k} : hot'[l] = hot[l] BY <1>2 DEF Inv, TypeOK
  <2>2. rows[s.sid].hash \in Secrets BY DEF Inv, RowsOk
  <2>. SUFFICES ASSUME NEW l \in Secrets, Outdated(l)'
                PROVE  q.cookie # rows[hot'[l].sid].hash /\ q.sec # rows[hot'[l].sid].hash
    BY DEF Unaware
  <2>3. CASE l = k BY <2>1, <2>2, <2>3, SentinelAssumption DEF Outdated
  <2>4. CASE l # k
    <3>1. hot'[l] = hot[l] /\ Outdated(l) BY <2>1, <2>4 DEF Outdated
    <3>2. rows[hot[l].sid].hash \in Secrets BY <3>1, CopyFacts DEF Outdated
    <3>. QED BY <3>1, <3>2, SentinelAssumption DEF Unaware
  <2>. QED BY <2>3, <2>4
<1>. QED BY <1>1, <1>2 DEF Written

LEMMA CreateHotSerial == ASSUME Inv, Serial, NEW r \in Requests, CreateHot(r) PROVE Serial'
<1>1. req[r].pc = "createHot" /\ InProgress(r) /\ UNCHANGED <<now, rows, minted, cookie, sweep>>
  BY DEF CreateHot, InProgress
<1>2. PICK s, k : s = req[r].ses /\ k = req[r].sec OBVIOUS
<1>3. /\ s \in Session /\ k \in Secrets /\ s.sid \in Sids /\ rows[s.sid].hash = k
      /\ s.abs = rows[s.sid].abs /\ rows[s.sid].status # "NONE" /\ sweep.pc = "off"
  BY <1>1, <1>2, StateTypes, OthersOff
  DEF Inv, Requesting, Publishers, Holders, Copy, Serial, Working, Holds, Usable
<1>4. /\ Usable(s.sid) /\ \A l \in Secrets : hot[l].sid # s.sid
      /\ now < s.abs => Ends(s.sid) <= s.idle
      /\ Unaware(req[r])
  BY <1>1, <1>2 DEF Serial, Working, Holds, Usable
<1>5. hot' = Written(k, s) BY <1>2 DEF CreateHot
<1>6. Stores' BY <1>1, <1>3, <1>4, <1>5, WriteStores DEF Serial
<1>7. PICK q \in TouchOrReply(req[r], "set") : req' = [req EXCEPT ![r] = q] BY DEF CreateHot
<1>8. LetGo(q, req[r])
  BY <1>1, <1>2, <1>3, SentinelAssumption, TouchOrReplyLetsGo, StateTypes
<1>9. Unaware(q)'
  BY <1>1, <1>3, <1>4, <1>5, <1>8, WriteUnaware DEF LetGo
<1>10. Holds(q)' BY <1>8, Empty DEF LetGo
<1>11. sweep.pc = "off" /\ \A o \in Requests \ {r} : ~InProgress(o) BY <1>1, OthersOff DEF Serial
<1>. QED BY <1>1, <1>6, <1>7, <1>9, <1>10, <1>11, StepSerial

LEMMA UpgradeHotSerial == ASSUME Inv, Serial, NEW r \in Requests, UpgradeHot(r) PROVE Serial'
<1>1. req[r].pc = "upgradeHot" /\ InProgress(r) /\ UNCHANGED <<now, rows, minted, cookie, sweep>>
  BY DEF UpgradeHot, InProgress
<1>2. PICK s, k : s = req[r].ses /\ k = req[r].sec OBVIOUS
<1>3. /\ s \in Session /\ k \in Secrets /\ s.sid \in Sids /\ rows[s.sid].hash = k
      /\ s.abs = rows[s.sid].abs /\ rows[s.sid].status # "NONE" /\ sweep.pc = "off"
  BY <1>1, <1>2, StateTypes, OthersOff
  DEF Inv, Requesting, Stepping, Upgrading, Publishers, Holders, Copy, Serial, Working, Holds, Usable
<1>4. /\ Usable(s.sid) /\ \A l \in Secrets : hot[l].sid # s.sid
      /\ now < s.abs => Ends(s.sid) <= s.idle
      /\ Unaware(req[r])
  BY <1>1, <1>2 DEF Serial, Working, Holds, Usable
<1>5. hot' = Written(k, s) BY <1>2 DEF UpgradeHot
<1>6. Stores' BY <1>1, <1>3, <1>4, <1>5, WriteStores DEF Serial
<1>7. PICK q \in TouchOrReply(req[r], "set") : req' = [req EXCEPT ![r] = q] BY DEF UpgradeHot
<1>8. LetGo(q, req[r])
  BY <1>1, <1>2, <1>3, SentinelAssumption, TouchOrReplyLetsGo, StateTypes
<1>9. Unaware(q)'
  BY <1>1, <1>3, <1>4, <1>5, <1>8, WriteUnaware DEF LetGo
<1>10. Holds(q)' BY <1>8, Empty DEF LetGo
<1>11. sweep.pc = "off" /\ \A o \in Requests \ {r} : ~InProgress(o) BY <1>1, OthersOff DEF Serial
<1>. QED BY <1>1, <1>6, <1>7, <1>9, <1>10, <1>11, StepSerial

\* What a request holds while it works with its cookie.
LEMMA HeldFacts ==
    ASSUME Inv, Serial, NEW r \in Requests, req[r].pc \in {"warm", "loaded", "touchRow", "upgradeDel"}
    PROVE  /\ InProgress(r) /\ req[r].cookie \in Secrets
           /\ req[r].ses \in Session /\ req[r].ses.sid \in Sids
           /\ Usable(req[r].ses.sid) /\ rows[req[r].ses.sid].status # "NONE"
           /\ req[r].ses.abs = rows[req[r].ses.sid].abs
           /\ \A l \in Secrets : hot[l].sid = req[r].ses.sid => l = req[r].cookie
           /\ Unaware(req[r]) /\ Holds(req[r])
           /\ sweep.pc = "off" /\ \A o \in Requests \ {r} : ~InProgress(o)
<1>1. InProgress(r) BY DEF InProgress
<1>2. Unaware(req[r]) /\ Holds(req[r]) BY <1>1 DEF Serial, Working
<1>3. sweep.pc = "off" /\ \A o \in Requests \ {r} : ~InProgress(o) BY <1>1, OthersOff DEF Serial
<1>4. /\ req[r].cookie \in Secrets /\ req[r].ses \in Session /\ req[r].ses.sid \in Sids
      /\ req[r].ses.abs = rows[req[r].ses.sid].abs /\ rows[req[r].ses.sid].status # "NONE"
  BY StateTypes DEF Inv, Requesting, WithCookie, Publishers, Holders, Copy
<1>5. /\ Usable(req[r].ses.sid)
      /\ \A l \in Secrets : hot[l].sid = req[r].ses.sid => l = req[r].cookie
  BY <1>2 DEF Holds, Usable
<1>. QED BY <1>1, <1>2, <1>3, <1>4, <1>5

LEMMA LoadWarmSerial == ASSUME Inv, Serial, NEW r \in Requests, LoadWarm(r) PROVE Serial'
<1>1. req[r].pc = "warm" /\ UNCHANGED <<now, rows, minted, cookie, sweep>> BY DEF LoadWarm
<1>2. PICK s, k : s = req[r].ses /\ k = req[r].cookie OBVIOUS
<1>3. /\ s \in Session /\ k \in Secrets /\ s.sid \in Sids /\ s.abs = rows[s.sid].abs
      /\ Usable(s.sid) /\ rows[s.sid].status # "NONE"
      /\ \A l \in Secrets : hot[l].sid = s.sid => l = k
      /\ sweep.pc = "off" /\ \A o \in Requests \ {r} : ~InProgress(o)
  BY <1>1, <1>2, HeldFacts
<1>4. /\ rows[s.sid].hash # k => cookie # rows[s.sid].hash /\ req[r].sec # rows[s.sid].hash
      /\ now < s.abs => Ends(s.sid) <= s.idle
      /\ Unaware(req[r])
  BY <1>1, <1>2, HeldFacts DEF Holds, Usable
<1>5. hot' = Written(k, s) BY <1>2 DEF LoadWarm
<1>6. Stores' BY <1>1, <1>3, <1>4, <1>5, WriteStores DEF Serial
<1>7. PICK q : q = [req[r] EXCEPT !.pc = "loaded"] OBVIOUS
<1>8. q.pc = "loaded" /\ q.cookie = k /\ q.sec = req[r].sec /\ q.ses = s
  BY <1>2, <1>7, StateTypes DEF Request
<1>9. rows[s.sid].hash # k => req[r].cookie # rows[s.sid].hash /\ req[r].sec # rows[s.sid].hash
  BY <1>2, <1>4
<1>10. Unaware(q)' BY <1>1, <1>2, <1>3, <1>4, <1>5, <1>8, <1>9, WriteUnaware
<1>11. \A l \in Secrets : hot'[l].sid = s.sid => l = k
  BY <1>3, <1>5 DEF Written, Inv, TypeOK
<1>12. Holds(q)' BY <1>1, <1>3, <1>4, <1>8, <1>11 DEF Holds, Usable, Ends
<1>13. req' = [req EXCEPT ![r] = q] BY <1>7 DEF LoadWarm
<1>. QED BY <1>1, <1>3, <1>6, <1>10, <1>12, <1>13, StepSerial

LEMMA TouchHotSerial == ASSUME Inv, Serial, NEW r \in Requests, TouchHot(r) PROVE Serial'
<1>1. req[r].pc = "loaded" /\ UNCHANGED <<now, rows, minted, cookie, sweep>> BY DEF TouchHot
<1>2. PICK o, k : o = req[r].ses /\ k = req[r].cookie OBVIOUS
<1>3. /\ o \in Session /\ k \in Secrets /\ o.sid \in Sids /\ o.abs = rows[o.sid].abs
      /\ Usable(o.sid) /\ rows[o.sid].status # "NONE"
      /\ \A l \in Secrets : hot[l].sid = o.sid => l = k
      /\ sweep.pc = "off" /\ \A p \in Requests \ {r} : ~InProgress(p)
  BY <1>1, <1>2, HeldFacts
<1>4. /\ rows[o.sid].hash # k => cookie # rows[o.sid].hash /\ req[r].sec # rows[o.sid].hash
      /\ Unaware(req[r])
  BY <1>1, <1>2, HeldFacts DEF Holds, Usable
<1>5. PICK s : s = [o EXCEPT !.idle = Earlier(now + IdleTtl, o.abs)] OBVIOUS
<1>6. s.sid = o.sid /\ s.abs = o.abs /\ s.idle = Earlier(now + IdleTtl, o.abs) /\ s \in Session
  BY <1>3, <1>5, TtlAssumption DEF Session, Earlier, Inv, TypeOK
<1>7. hot' = Written(k, s) BY <1>2, <1>5 DEF TouchHot
<1>8. now \in Nat /\ o.abs \in Nat /\ rows[o.sid].idle \in Nat /\ rows[o.sid].idle <= now + IdleTtl
  BY <1>3 DEF Session, Inv, TypeOK, Row, Serial, Stores, Slid
<1>9. Ends(s.sid) <= s.idle /\ s.idle <= now + IdleTtl
  BY <1>3, <1>6, <1>8, TtlAssumption DEF Ends, Earlier
<1>10. now < s.abs => Alive(s) BY <1>6, <1>8, TtlAssumption DEF Alive, Earlier
<1>11. Stores' BY <1>1, <1>3, <1>4, <1>6, <1>7, <1>9, WriteStores DEF Serial
<1>12. PICK q : q = [req[r] EXCEPT !.pc = "touchRow", !.ses = s] OBVIOUS
<1>13. q.pc = "touchRow" /\ q.cookie = k /\ q.sec = req[r].sec /\ q.ses = s
  BY <1>2, <1>12, StateTypes DEF Request
<1>14. rows[s.sid].hash # k => req[r].cookie # rows[s.sid].hash /\ req[r].sec # rows[s.sid].hash
  BY <1>2, <1>4, <1>6
<1>15. Unaware(q)' BY <1>1, <1>2, <1>3, <1>4, <1>6, <1>7, <1>13, <1>14, WriteUnaware
<1>16. \A l \in Secrets : hot'[l].sid = s.sid => l = k
  BY <1>3, <1>6, <1>7 DEF Written, Inv, TypeOK
<1>17. now < s.abs => hot'[k] = s
  BY <1>3, <1>7, <1>10 DEF Written, Inv, TypeOK
<1>18. Holds(q)'
  BY <1>1, <1>3, <1>4, <1>6, <1>8, <1>9, <1>13, <1>16, <1>17 DEF Holds, Usable, Session
<1>19. req' = [req EXCEPT ![r] = q] BY <1>2, <1>5, <1>12 DEF TouchHot
<1>. QED BY <1>1, <1>3, <1>11, <1>15, <1>18, <1>19, StepSerial

LEMMA TouchRowSerial == ASSUME Inv, Serial, NEW r \in Requests, TouchRow(r) PROVE Serial'
<1>1. req[r].pc = "touchRow" /\ UNCHANGED <<now, hot, minted, cookie, sweep>> BY DEF TouchRow
<1>2. PICK s : s = req[r].ses OBVIOUS
<1>3. /\ s \in Session /\ s.sid \in Sids /\ s.abs = rows[s.sid].abs
      /\ sweep.pc = "off" /\ \A p \in Requests \ {r} : ~InProgress(p)
      /\ Unaware(req[r])
  BY <1>1, <1>2, HeldFacts
<1>4. /\ s.idle <= now + IdleTtl
      /\ now < s.abs => \A k \in Secrets : hot[k].sid = s.sid => s.idle <= hot[k].idle
  BY <1>1, <1>2, HeldFacts DEF Holds, Usable
<1>5. /\ rows' = [rows EXCEPT ![s.sid].idle = s.idle]
      /\ \A t \in Sids : /\ rows'[t].status = rows[t].status /\ rows'[t].abs = rows[t].abs
                         /\ rows'[t].hash = rows[t].hash
                         /\ rows'[t].idle = IF t = s.sid THEN s.idle ELSE rows[t].idle
  BY <1>2, <1>3, StateTypes DEF TouchRow, Row
<1>6. \A k \in Secrets : Outdated(k)' <=> Outdated(k) BY <1>1, <1>5, CopyFacts DEF Outdated
<1>7. Stores'
  <2>1. OneCopy' BY <1>1 DEF Serial, Stores, OneCopy
  <2>2. OfUsable' BY <1>1, <1>5, CopyFacts DEF Serial, Stores, OfUsable, Usable
  <2>3. Behind'
    <3>. SUFFICES ASSUME NEW k \in Secrets, hot[k].sid # NoSid, now < hot[k].abs
                  PROVE  Ends(hot[k].sid)' <= hot[k].idle
      BY <1>1 DEF Behind, Ends
    <3>1. /\ hot[k] \in Session /\ hot[k].sid \in Sids /\ rows[hot[k].sid] \in Row
          /\ hot[k].abs = rows[hot[k].sid].abs
      BY CopyFacts
    <3>2. CASE hot[k].sid = s.sid
      <4>1. Ends(s.sid)' = Earlier(s.idle, s.abs) BY <1>3, <1>5 DEF Ends
      <4>2. s.idle <= hot[k].idle BY <1>3, <1>4, <3>1, <3>2
      <4>3. s.idle \in Nat /\ s.abs \in Nat /\ hot[k].idle \in Nat BY <1>3, <3>1 DEF Session
      <4>4. Ends(s.sid)' <= s.idle /\ Ends(s.sid)' \in Nat BY <4>1, <4>3 DEF Earlier
      <4>5. Ends(hot[k].sid)' = Ends(s.sid)' BY <1>1, <3>2 DEF Ends
      <4>. QED BY <4>2, <4>3, <4>4, <4>5
    <3>3. CASE hot[k].sid # s.sid
      <4>1. Ends(hot[k].sid)' = Ends(hot[k].sid) BY <1>1, <1>5, <3>1, <3>3 DEF Ends
      <4>. QED BY <4>1 DEF Serial, Stores, Behind
    <3>. QED BY <3>2, <3>3
  <2>4. Slid' BY <1>1, <1>4, <1>5 DEF Serial, Stores, Slid
  <2>5. Hidden' BY <1>1, <1>5, <1>6, CopyFacts DEF Serial, Stores, Hidden, Outdated
  <2>. QED BY <2>1, <2>2, <2>3, <2>4, <2>5 DEF Stores
<1>8. PICK q : q = ReplyOf(req[r], req[r].out) OBVIOUS
<1>9. LetGo(q, req[r]) BY <1>8, ReplyLetsGo, StateTypes DEF Inv, Known, Request
<1>10. Unaware(q)'
  <2>. SUFFICES ASSUME NEW k \in Secrets, Outdated(k)'
                PROVE  q.cookie # rows'[hot'[k].sid].hash /\ q.sec # rows'[hot'[k].sid].hash
    BY DEF Unaware
  <2>1. Outdated(k) BY <1>6
  <2>2. hot' = hot /\ rows'[hot[k].sid].hash = rows[hot[k].sid].hash /\ rows[hot[k].sid].hash \in Secrets
    BY <1>1, <1>5, <2>1, CopyFacts DEF Outdated
  <2>3. req[r].cookie # rows[hot[k].sid].hash /\ req[r].sec # rows[hot[k].sid].hash
    BY <1>1, <1>3, <2>1 DEF Unaware
  <2>. QED BY <1>9, <2>2, <2>3, SentinelAssumption DEF LetGo
<1>11. Holds(q)' BY <1>9, Empty DEF LetGo
<1>12. req' = [req EXCEPT ![r] = q] BY <1>8 DEF TouchRow
<1>. QED BY <1>1, <1>3, <1>7, <1>10, <1>11, <1>12, StepSerial

LEMMA UpgradeRowSerial == ASSUME Inv, Serial, NEW r \in Requests, UpgradeRow(r) PROVE Serial'
<1>1. /\ req[r].pc = "loaded" /\ UNCHANGED <<now, hot, minted, cookie, sweep>>
      /\ req[r].call = "upgrade" /\ req[r].ses.sid = req[r].want
  BY DEF UpgradeRow
<1>2. PICK s, t : s = req[r].ses /\ t = s.sid OBVIOUS
<1>3. PICK h : h = req[r].sec OBVIOUS
<1>4. /\ s \in Session /\ t \in Sids /\ s.abs = rows[t].abs /\ Usable(t)
      /\ \A l \in Secrets : hot[l].sid = t => l = req[r].cookie
      /\ sweep.pc = "off" /\ \A p \in Requests \ {r} : ~InProgress(p)
      /\ Unaware(req[r])
      /\ now < s.abs => Ends(t) <= s.idle
  BY <1>1, <1>2, HeldFacts DEF Holds, Usable
<1>5. h \in Secrets /\ minted[h] = t /\ cookie # h /\ req[r].cookie # h
  BY <1>1, <1>2, <1>3 DEF Inv, Stepping, Upgrading, Private, Drawn
<1>6. /\ rows'[t].status = rows[t].status /\ rows'[t].abs = rows[t].abs
      /\ rows'[t].idle = rows[t].idle /\ rows'[t].hash = h
      /\ \A u \in Sids \ {t} : rows'[u] = rows[u]
  BY <1>1, <1>2, <1>3, <1>4, StateTypes DEF UpgradeRow, Row
<1>7. Stores'
  <2>1. OneCopy' BY <1>1 DEF Serial, Stores, OneCopy
  <2>2. OfUsable' BY <1>1, <1>6, CopyFacts DEF Serial, Stores, OfUsable, Usable
  <2>3. Behind' BY <1>1, <1>6, CopyFacts DEF Serial, Stores, Behind, Ends
  <2>4. Slid' BY <1>1, <1>6 DEF Serial, Stores, Slid
  <2>5. Hidden' BY <1>1, <1>5, <1>6, CopyFacts DEF Serial, Stores, Hidden, Outdated
  <2>. QED BY <2>1, <2>2, <2>3, <2>4, <2>5 DEF Stores
<1>8. PICK q : q = [req[r] EXCEPT !.pc = "upgradeDel", !.ses = [s EXCEPT !.aal = 2]] OBVIOUS
<1>9. /\ q.pc = "upgradeDel" /\ q.cookie = req[r].cookie /\ q.sec = h
      /\ q.ses.sid = t /\ q.ses.abs = s.abs /\ q.ses.idle = s.idle
  BY <1>2, <1>3, <1>4, <1>8, StateTypes DEF Request, Session
<1>10. Unaware(q)'
  <2>. SUFFICES ASSUME NEW k \in Secrets, Outdated(k)' PROVE q.cookie # rows'[hot'[k].sid].hash
    BY <1>9 DEF Unaware
  <2>1. CASE hot[k].sid = t BY <1>1, <1>5, <1>6, <1>9, <2>1
  <2>2. CASE hot[k].sid # t
    <3>1. Outdated(k) /\ rows'[hot[k].sid] = rows[hot[k].sid]
      BY <1>1, <1>6, <2>2, CopyFacts DEF Outdated
    <3>. QED BY <1>1, <1>4, <1>9, <3>1 DEF Unaware
  <2>. QED BY <2>1, <2>2
<1>11. Holds(q)' BY <1>1, <1>4, <1>6, <1>9 DEF Holds, Usable, Ends
<1>12. req' = [req EXCEPT ![r] = q]
  <2>1. [req[r] EXCEPT !.pc = "upgradeDel", !.ses.aal = 2] = q
    BY <1>2, <1>8, StateTypes DEF Request
  <2>. QED BY <2>1 DEF UpgradeRow
<1>. QED BY <1>1, <1>4, <1>7, <1>10, <1>11, <1>12, StepSerial

\* A hot copy goes.
LEMMA DropStores ==
    ASSUME Inv, Stores, NEW K \in SUBSET Secrets,
           hot' = [k \in Secrets |-> IF k \in K THEN NoSession ELSE hot[k]],
           UNCHANGED <<now, rows, cookie>>,
           sweep'.pc = "off" => \A k \in Secrets \ K : hot[k].sid # NoSid =>
             rows[hot[k].sid].status = "ACTIVE" \/ hot[k].sid \in sweep'.missed,
           sweep'.pc = "scan" => \A k \in Secrets \ K : hot[k].sid # NoSid => k \in sweep'.left
    PROVE  /\ Stores'
           /\ \A k \in Secrets : hot'[k].sid # NoSid => k \notin K /\ hot'[k] = hot[k]
<1>1. \A k \in Secrets : hot'[k].sid # NoSid => k \notin K /\ hot'[k] = hot[k] BY DEF NoSession
<1>2. OneCopy' BY <1>1 DEF Stores, OneCopy
<1>3. OfUsable' BY <1>1 DEF OfUsable, Usable
<1>4. Behind' BY <1>1 DEF Stores, Behind, Ends
<1>5. Slid' BY DEF Stores, Slid
<1>6. Hidden' BY <1>1 DEF Stores, Hidden, Outdated
<1>. QED BY <1>1, <1>2, <1>3, <1>4, <1>5, <1>6 DEF Stores

LEMMA DropOne ==
    ASSUME Inv, Stores, NEW k \in Secrets, hot' = [hot EXCEPT ![k] = NoSession],
           UNCHANGED <<now, rows, cookie, sweep>>
    PROVE  /\ Stores'
           /\ \A l \in Secrets : hot'[l].sid # NoSid => l # k /\ hot'[l] = hot[l]
<1>1. PICK K : K = {k} OBVIOUS
<1>2. hot' = [l \in Secrets |-> IF l \in K THEN NoSession ELSE hot[l]]
  BY <1>1 DEF Inv, TypeOK
<1>3. /\ sweep'.pc = "off" => \A l \in Secrets \ K : hot[l].sid # NoSid =>
           rows[hot[l].sid].status = "ACTIVE" \/ hot[l].sid \in sweep'.missed
      /\ sweep'.pc = "scan" => \A l \in Secrets \ K : hot[l].sid # NoSid => l \in sweep'.left
  BY DEF Stores, OfUsable, Usable
<1>4. K \in SUBSET Secrets BY <1>1
<1>. QED BY <1>1, <1>2, <1>3, <1>4, DropStores

LEMMA UpgradeDelSerial == ASSUME Inv, Serial, NEW r \in Requests, UpgradeDel(r) PROVE Serial'
<1>1. req[r].pc = "upgradeDel" /\ UNCHANGED <<now, rows, minted, cookie, sweep>> BY DEF UpgradeDel
<1>2. PICK s, k : s = req[r].ses /\ k = req[r].cookie OBVIOUS
<1>3. /\ s \in Session /\ k \in Secrets /\ s.sid \in Sids /\ s.abs = rows[s.sid].abs
      /\ Usable(s.sid) /\ rows[s.sid].status # "NONE"
      /\ \A l \in Secrets : hot[l].sid = s.sid => l = k
      /\ sweep.pc = "off" /\ \A p \in Requests \ {r} : ~InProgress(p)
      /\ Unaware(req[r])
      /\ now < s.abs => Ends(s.sid) <= s.idle
      /\ rows[s.sid].hash = req[r].sec
  BY <1>1, <1>2, HeldFacts DEF Holds, Usable
<1>4. Stores' /\ \A l \in Secrets : hot'[l].sid # NoSid => l # k /\ hot'[l] = hot[l]
  BY <1>1, <1>2, <1>3, DropOne DEF UpgradeDel, Serial
<1>5. PICK q : q = [req[r] EXCEPT !.pc = "upgradeHot"] OBVIOUS
<1>6. q.pc = "upgradeHot" /\ q.cookie = k /\ q.sec = req[r].sec /\ q.ses = s
  BY <1>2, <1>5, StateTypes DEF Request
<1>7. \A l \in Secrets : hot'[l].sid # s.sid BY <1>3, <1>4, SentinelAssumption
<1>8. minted[req[r].sec] = s.sid
  BY <1>1, <1>2 DEF Inv, Requesting, Publishers, Holders, Copy, HeldUnder
<1>9. Unaware(q)'
  <2>. SUFFICES ASSUME NEW l \in Secrets, Outdated(l)'
                PROVE  q.cookie # rows[hot'[l].sid].hash /\ q.sec # rows[hot'[l].sid].hash
    BY <1>1 DEF Unaware
  <2>1. Outdated(l) /\ hot'[l] = hot[l] BY <1>1, <1>4 DEF Outdated
  <2>2. minted[rows[hot[l].sid].hash] = hot[l].sid BY <2>1, CopyFacts DEF Outdated
  <2>. QED BY <1>2, <1>3, <1>6, <1>7, <1>8, <2>1, <2>2 DEF Unaware
<1>10. Holds(q)' BY <1>1, <1>3, <1>6, <1>7 DEF Holds, Usable, Ends
<1>11. req' = [req EXCEPT ![r] = q] BY <1>5 DEF UpgradeDel
<1>. QED BY <1>1, <1>3, <1>4, <1>9, <1>10, <1>11, StepSerial

LEMMA RevokeDelSerial == ASSUME Inv, Serial, NEW r \in Requests, RevokeDel(r) PROVE Serial'
<1>1. req[r].pc = "loaded" /\ UNCHANGED <<now, rows, minted, cookie, sweep>> BY DEF RevokeDel
<1>2. PICK s, k : s = req[r].ses /\ k = req[r].cookie OBVIOUS
<1>3. /\ s \in Session /\ k \in Secrets /\ s.sid \in Sids
      /\ \A l \in Secrets : hot[l].sid = s.sid => l = k
      /\ sweep.pc = "off" /\ \A p \in Requests \ {r} : ~InProgress(p)
      /\ Unaware(req[r])
  BY <1>1, <1>2, HeldFacts
<1>4. Stores' /\ \A l \in Secrets : hot'[l].sid # NoSid => l # k /\ hot'[l] = hot[l]
  BY <1>1, <1>2, <1>3, DropOne DEF RevokeDel, Serial
<1>5. PICK q : q = [req[r] EXCEPT !.pc = "revokeRow"] OBVIOUS
<1>6. q.pc = "revokeRow" /\ q.cookie = k /\ q.sec = req[r].sec /\ q.ses = s
  BY <1>2, <1>5, StateTypes DEF Request
<1>7. \A l \in Secrets : hot'[l].sid # s.sid BY <1>3, <1>4, SentinelAssumption
<1>8. Unaware(q)'
  <2>. SUFFICES ASSUME NEW l \in Secrets, Outdated(l)'
                PROVE  q.cookie # rows[hot'[l].sid].hash /\ q.sec # rows[hot'[l].sid].hash
    BY <1>1 DEF Unaware
  <2>1. Outdated(l) /\ hot'[l] = hot[l] BY <1>1, <1>4 DEF Outdated
  <2>. QED BY <1>1, <1>2, <1>3, <1>6, <2>1 DEF Unaware
<1>9. Holds(q)' BY <1>6, <1>7 DEF Holds, Usable
<1>10. req' = [req EXCEPT ![r] = q] BY <1>5 DEF RevokeDel
<1>. QED BY <1>1, <1>3, <1>4, <1>8, <1>9, <1>10, StepSerial

LEMMA RevokeRowSerial == ASSUME Inv, Serial, NEW r \in Requests, RevokeRow(r) PROVE Serial'
<1>1. req[r].pc = "revokeRow" /\ InProgress(r) /\ UNCHANGED <<now, hot, minted, cookie, sweep>>
  BY DEF RevokeRow, InProgress
<1>2. PICK t : t = req[r].ses.sid OBVIOUS
<1>3. t \in Sids /\ (\A k \in Secrets : hot[k].sid # t) /\ Unaware(req[r])
  BY <1>1, <1>2 DEF Inv, Requesting, Publishers, Holders, Copy, Serial, Working, Holds, Usable
<1>4. /\ \A u \in Sids \ {t} : rows'[u] = rows[u]
      /\ rows'[t].idle = rows[t].idle
  BY <1>2, <1>3, StateTypes DEF RevokeRow, Row
<1>5. \A k \in Secrets : hot[k].sid # NoSid => rows'[hot[k].sid] = rows[hot[k].sid]
  BY <1>3, <1>4, CopyFacts
<1>6. Stores'
  <2>1. OneCopy' /\ OfUsable' BY <1>1, <1>5 DEF Serial, Stores, OneCopy, OfUsable, Usable
  <2>2. Behind' BY <1>1, <1>5 DEF Serial, Stores, Behind, Ends
  <2>3. Slid' BY <1>1, <1>4 DEF Serial, Stores, Slid
  <2>4. Hidden' BY <1>1, <1>5 DEF Serial, Stores, Hidden, Outdated
  <2>. QED BY <2>1, <2>2, <2>3, <2>4 DEF Stores
<1>7. PICK q : q = ReplyOf(req[r], "clear") OBVIOUS
<1>8. LetGo(q, req[r]) BY <1>7, ReplyLetsGo, StateTypes
<1>9. Unaware(q)'
  <2>. SUFFICES ASSUME NEW k \in Secrets, Outdated(k)'
                PROVE  q.cookie # rows'[hot'[k].sid].hash /\ q.sec # rows'[hot'[k].sid].hash
    BY DEF Unaware
  <2>1. Outdated(k) /\ rows'[hot'[k].sid] = rows[hot[k].sid] /\ rows[hot[k].sid].hash \in Secrets
    BY <1>1, <1>5, CopyFacts DEF Outdated
  <2>2. req[r].cookie # rows[hot[k].sid].hash /\ req[r].sec # rows[hot[k].sid].hash
    BY <1>1, <1>3, <2>1 DEF Unaware
  <2>. QED BY <1>8, <2>1, <2>2, SentinelAssumption DEF LetGo
<1>10. Holds(q)' BY <1>8, Empty DEF LetGo
<1>11. req' = [req EXCEPT ![r] = q] BY <1>7 DEF RevokeRow
<1>12. sweep.pc = "off" /\ \A o \in Requests \ {r} : ~InProgress(o) BY <1>1, OthersOff DEF Serial
<1>. QED BY <1>1, <1>6, <1>9, <1>10, <1>11, <1>12, StepSerial

LEMMA SweepRowsSerial ==
    ASSUME Inv, Serial, MaxInFlight = 1, SweepRows PROVE Serial'
<1>1. UNCHANGED <<now, hot, cookie, req>> BY DEF SweepRows
<1>2. \A o \in Requests : ~InProgress(o) BY StartsAlone DEF SweepRows, Serial
<1>3. Alone' /\ Working' BY <1>1, <1>2 DEF Alone, Working, InProgress
<1>4. \A s \in Sids : rows'[s].idle = rows[s].idle /\ rows'[s].abs = rows[s].abs
                      /\ rows'[s].hash = rows[s].hash
  BY DEF SweepRows, Inv, TypeOK, Row
<1>5. sweep'.pc = "scan" /\ \A k \in Secrets : hot[k].sid # NoSid => k \in sweep'.left
  BY DEF SweepRows
<1>6. Stores'
  <2>1. OneCopy' /\ OfUsable' BY <1>1, <1>5 DEF Serial, Stores, OneCopy, OfUsable, Usable
  <2>2. Behind' BY <1>1, <1>4, CopyFacts DEF Serial, Stores, Behind, Ends
  <2>3. Slid' BY <1>1, <1>4 DEF Serial, Stores, Slid
  <2>4. Hidden' BY <1>1, <1>4, CopyFacts DEF Serial, Stores, Hidden, Outdated
  <2>. QED BY <2>1, <2>2, <2>3, <2>4 DEF Stores
<1>. QED BY <1>3, <1>6 DEF Serial

LEMMA SweepDelSerial == ASSUME Inv, Serial, SweepDel PROVE Serial'
<1>1. sweep.pc = "scan" /\ UNCHANGED <<now, rows, cookie, req>> BY DEF SweepDel
<1>2. \A o \in Requests : ~InProgress(o) BY <1>1 DEF Serial, Alone
<1>3. Alone' /\ Working' BY <1>1, <1>2 DEF Alone, Working, InProgress
<1>4. PICK batch \in SUBSET sweep.left :
         /\ hot' = [k \in Secrets |-> IF k \in batch THEN NoSession ELSE hot[k]]
         /\ sweep' = IF batch = sweep.left
                       THEN [pc |-> "off", left |-> {}, missed |-> {}]
                       ELSE [sweep EXCEPT !.left = @ \ batch]
  BY DEF SweepDel
<1>5. batch \in SUBSET Secrets BY DEF Inv, TypeOK, Sweep
<1>6. \A k \in Secrets \ batch : hot[k].sid # NoSid => k \in sweep.left /\ k \notin batch
  BY <1>1 DEF Serial, Stores, OfUsable
<1>7. CASE batch = sweep.left
  <2>1. sweep'.pc = "off" /\ \A k \in Secrets \ batch : hot[k].sid = NoSid BY <1>4, <1>6, <1>7
  <2>2. Stores' BY <1>1, <1>4, <1>5, <2>1, DropStores DEF Serial
  <2>. QED BY <1>3, <2>2 DEF Serial
<1>8. CASE batch # sweep.left
  <2>1. sweep'.pc = "scan" /\ sweep'.left = sweep.left \ batch
    BY <1>1, <1>4, <1>8 DEF Inv, TypeOK, Sweep
  <2>2. Stores' BY <1>1, <1>4, <1>5, <1>6, <2>1, DropStores DEF Serial
  <2>. QED BY <1>3, <2>2 DEF Serial
<1>. QED BY <1>7, <1>8

\* What the sweep has not found is what it missed.
LEMMA SweepDiesSerial == ASSUME Inv, Serial, SweepDies PROVE Serial'
<1>1. /\ sweep.pc = "scan" /\ UNCHANGED <<now, rows, hot, cookie, req>>
      /\ sweep'.pc = "off" /\ sweep'.missed = {hot[k].sid : k \in sweep.left} \ {NoSid}
  BY DEF SweepDies
<1>2. \A o \in Requests : ~InProgress(o) BY <1>1 DEF Serial, Alone
<1>3. Alone' /\ Working' BY <1>1, <1>2 DEF Alone, Working, InProgress
<1>4. OfUsable' BY <1>1 DEF Serial, Stores, OfUsable, Usable
<1>5. Stores' BY <1>1, <1>4 DEF Serial, Stores, OneCopy, Behind, Ends, Slid, Hidden, Outdated
<1>. QED BY <1>3, <1>5 DEF Serial

LEMMA TickSerial == ASSUME Inv, Serial, Tick PROVE Serial'
<1>1. UNCHANGED <<rows, hot, cookie, req, sweep>> /\ now \in Nat /\ now' = now + 1
  BY DEF Tick, Inv, TypeOK
<1>2. Alone' BY <1>1 DEF Serial, Alone, InProgress
<1>3. Stores'
  <2>1. OneCopy' /\ OfUsable' /\ Hidden'
    BY <1>1 DEF Serial, Stores, OneCopy, OfUsable, Usable, Hidden, Outdated
  <2>2. Behind'
    <3>. SUFFICES ASSUME NEW k \in Secrets, hot[k].sid # NoSid, now + 1 < hot[k].abs
                  PROVE  Ends(hot[k].sid) <= hot[k].idle
      BY <1>1 DEF Behind, Ends
    <3>1. hot[k].abs \in Nat BY CopyFacts DEF Session
    <3>. QED BY <1>1, <3>1 DEF Serial, Stores, Behind
  <2>3. Slid'
    <3>. SUFFICES ASSUME NEW s \in Sids PROVE rows[s].idle <= now + 1 + IdleTtl
      BY <1>1 DEF Slid
    <3>1. rows[s].idle \in Nat /\ rows[s].idle <= now + IdleTtl
      BY DEF Serial, Stores, Slid, Inv, TypeOK, Row
    <3>. QED BY <1>1, <3>1, TtlAssumption
  <2>. QED BY <2>1, <2>2, <2>3 DEF Stores
<1>4. Working'
  <2>. SUFFICES ASSUME NEW r \in Requests, InProgress(r) PROVE Unaware(req[r])' /\ Holds(req[r])'
    BY <1>1 DEF Working, InProgress
  <2>1. Unaware(req[r]) /\ Holds(req[r]) BY DEF Serial, Working
  <2>2. req[r].ses.idle \in Nat /\ req[r].ses.abs \in Nat BY StateTypes DEF Session
  <2>3. Unaware(req[r])' BY <1>1, <2>1 DEF Unaware, Outdated
  <2>4. now + 1 < req[r].ses.abs => now < req[r].ses.abs BY <1>1, <2>2
  <2>5. req[r].ses.idle <= now + IdleTtl => req[r].ses.idle <= now + 1 + IdleTtl
    BY <1>1, <2>2, TtlAssumption
  <2>6. Holds(req[r])' BY <1>1, <2>1, <2>4, <2>5 DEF Holds, Usable, Ends
  <2>. QED BY <2>3, <2>6
<1>. QED BY <1>2, <1>3, <1>4 DEF Serial

LEMMA HotGoneSerial == ASSUME Inv, Serial, NEW k \in Secrets, HotGone(k) PROVE Serial'
<1>1. UNCHANGED <<now, rows, cookie, req, sweep>> BY DEF HotGone
<1>2. Stores' /\ \A l \in Secrets : hot'[l].sid # NoSid => l # k /\ hot'[l] = hot[l]
  BY <1>1, DropOne DEF HotGone, Serial
<1>3. Alone' BY <1>1 DEF Serial, Alone, InProgress
<1>4. Working'
  <2>. SUFFICES ASSUME NEW r \in Requests, InProgress(r) PROVE Unaware(req[r])' /\ Holds(req[r])'
    BY <1>1 DEF Working, InProgress
  <2>1. Unaware(req[r]) /\ Holds(req[r]) BY DEF Serial, Working
  <2>2. Unaware(req[r])'
    <3>. SUFFICES ASSUME NEW l \in Secrets, Outdated(l)'
                  PROVE  /\ req[r].cookie # rows[hot'[l].sid].hash
                         /\ req[r].sec = rows[hot'[l].sid].hash => req[r].pc = "upgradeDel"
      BY <1>1 DEF Unaware
    <3>1. Outdated(l) /\ hot'[l] = hot[l] BY <1>1, <1>2 DEF Outdated
    <3>. QED BY <2>1, <3>1 DEF Unaware
  <2>3. req[r].pc \in Publishers => req[r].ses.sid # NoSid
    BY SentinelAssumption DEF Inv, Requesting, Copy
  <2>4. req[r].pc \in Publishers =>
          \A l \in Secrets : hot'[l].sid = req[r].ses.sid => hot'[l] = hot[l]
    BY <1>2, <2>3
  <2>5. Holds(req[r])' BY <1>1, <2>1, <2>4 DEF Holds, Usable, Ends, Publishers, Holders
  <2>. QED BY <2>2, <2>5
<1>. QED BY <1>2, <1>3, <1>4 DEF Serial

LEMMA NextSerial == ASSUME Inv, Serial, MaxInFlight = 1, [Next]_vars PROVE Serial'
<1>1. ASSUME NEW r \in Requests, Step(r) PROVE Serial'
  BY <1>1, BeginSerial, CreateDrawSerial, CreateInsertSerial, CreateHotSerial, LoadHotSerial,
     LoadRowSerial, LoadWarmSerial, ReadDoneSerial, ReadUpgradeSerial, TouchHotSerial,
     TouchRowSerial, UpgradeRowSerial, UpgradeDelSerial, UpgradeHotSerial, RevokeDelSerial,
     RevokeRowSerial, ReplySerial, CrashSerial DEF Step
<1>2. CASE UNCHANGED vars
  <2>1. Alone' /\ Stores' BY <1>2, StoresKept DEF vars, Serial, Alone, InProgress
  <2>2. Working'
    <3>. SUFFICES ASSUME NEW r \in Requests, InProgress(r) PROVE Unaware(req[r])' /\ Holds(req[r])'
      BY <1>2 DEF vars, Working, InProgress
    <3>1. Unaware(req[r]) /\ Holds(req[r]) BY DEF Serial, Working
    <3>. QED BY <1>2, <3>1 DEF vars, Unaware, Outdated, Holds, Usable, Ends
  <2>. QED BY <2>1, <2>2 DEF Serial
<1>. QED
  BY <1>1, <1>2, SweepRowsSerial, SweepDelSerial, SweepDiesSerial, TickSerial, HotGoneSerial DEF Next

\* With one request or sweep at a time, the copies and what a request holds of them
\* agree with the rows.
THEOREM SerialInvariance == ASSUME MaxInFlight = 1 PROVE Spec => []Serial
<1>1. Init => Serial
  BY TtlAssumption
  DEF Init, Serial, Alone, InProgress, Stores, OneCopy, OfUsable, Usable, Behind, Slid, Hidden,
      Outdated, Working, NoRequest, NoSession, NoRow
<1>2. Inv /\ Serial /\ [Next]_vars => Serial' BY NextSerial
<1>. QED BY <1>1, <1>2, AlwaysInv, PTL DEF Spec

\* With one request or sweep at a time, wherever earlier ones died, no hot copy
\* serves a revoked session once it is over, but for what a sweep that died
\* missed, until one has run to its end.
THEOREM RevocationIsFinal == ASSUME MaxInFlight = 1 PROVE Spec => []RevokedNotServable
<1>1. Serial => RevokedNotServable
  BY DEF Serial, Stores, OfUsable, Usable, RevokedNotServable, Quiet
<1>. QED BY <1>1, SerialInvariance, PTL

\* With one request or sweep at a time, a browser that holds the secret of the row
\* holds the only one that works.
THEOREM ReplacedSecretsDie == ASSUME MaxInFlight = 1 PROVE Spec => []ReplacedSecretDead
<1>1. Serial => ReplacedSecretDead
  <2>. SUFFICES ASSUME Serial, NEW k \in Secrets, hot[k].sid # NoSid, cookie # NoSecret,
                       rows[hot[k].sid].hash = cookie
                PROVE  k = cookie
    BY DEF ReplacedSecretDead
  <2>. QED BY DEF Serial, Stores, Hidden, Outdated
<1>. QED BY <1>1, SerialInvariance, PTL

\* With one request or sweep at a time, the loss of Redis lengthens no session.
THEOREM LossLengthensNothing == ASSUME MaxInFlight = 1 PROVE Spec => []DurableIdleBehind
<1>1. Serial => DurableIdleBehind
  BY DEF Serial, Stores, Behind, Ends, DurableIdleBehind
<1>. QED BY <1>1, SerialInvariance, PTL
=============================================================================
