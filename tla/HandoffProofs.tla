---------------------------- MODULE HandoffProofs ----------------------------
(***************************************************************************)
(* Proofs about Handoff, for any applications, realms, sessions, requests, *)
(* paths and time limits, and any number of overlapping tabs.              *)
(***************************************************************************)
EXTENDS Handoff, WellFoundedInduction, TLAPS

\* The tab has read its session while it was live.
HasRead(t) == t.pc \in {"code", "continue", "upgrade", "deliver", "sign", "complete", "join"}

\* The tab has signed an assertion; the tab has won its request.
HasSigned(t) == t.pc \in {"sign", "complete", "join", "post"}
HasWon(t) == t.pc \in {"join", "post"}

\* A row that was created has the realm of its target.
RowInv(i) ==
    handoff[i].status # "NONE" =>
      handoff[i].target \in Clients /\ handoff[i].realm = AuthRealm[handoff[i].target]

\* The browser holds, for each realm, a session of that realm.
CookieInv ==
    \A k \in Realms : cookie[k] # NoSid =>
      session[cookie[k]].state # "none" /\ session[cookie[k]].realm = k

\* No factor was verified in the future.
ClockInv == clock > 0 /\ \A s \in Sids : session[s].mfa <= clock

\* A tab works on a row that exists, for a session of its realm, and the second
\* factor it has read is one the session still has.
Grounded(t) ==
    t.pc # "off" =>
      /\ t.id \in Ids /\ handoff[t.id].status # "NONE"
      /\ t.sid # NoSid =>
           /\ session[t.sid].state # "none"
           /\ session[t.sid].realm = handoff[t.id].realm
           /\ t.mfa <= session[t.sid].mfa
      /\ ~HasRead(t) /\ ~HasSigned(t) => t.mfa = 0
      /\ HasRead(t) \/ HasSigned(t) => t.sid # NoSid

\* What a signed assertion claims holds when it is signed.
Backed(t) ==
    /\ t.pc = "deliver" => t.mfa > 0
    /\ HasSigned(t) =>
         /\ handoff[t.id].target \in AsksAal2 => t.mfa > 0
         /\ t.aal2 => t.mfa > 0 /\ t.signed - t.mfa <= MfaMaxAge

\* The logout of session s tells the client, or came before it could know of it.
Heard(s, c, late) == c \in joined[s] /\ (session[s].state = "out" => late \/ c \in told[s])

Listed(t) ==
    /\ HasRead(t) => (session[t.sid].state = "out" => t.late)
    /\ t.pc = "post" => Heard(t.sid, handoff[t.id].target, t.late)

\* A tab that has won: its row says so, and nothing has left for it yet.
Winner(t) ==
    HasWon(t) =>
      /\ handoff[t.id].status = "COMPLETED" /\ handoff[t.id].sid = t.sid
      /\ \A p \in posted : p.id # t.id

TabInv(t) == Grounded(t) /\ Backed(t) /\ Listed(t) /\ Winner(t)

OneWinner ==
    \A r, q \in Tabs : HasWon(tab[r]) /\ HasWon(tab[q]) /\ tab[r].id = tab[q].id => r = q

PostedInv(p) ==
    /\ handoff[p.id].status = "COMPLETED" /\ handoff[p.id].sid = p.sid
    /\ p.sid \in Sids /\ session[p.sid].state # "none"
    /\ p.target \in Clients /\ session[p.sid].realm = AuthRealm[p.target]
    /\ p.target \in AsksAal2 => p.mfa > 0
    /\ p.aal2 => p.mfa > 0 /\ p.signed - p.mfa <= MfaMaxAge
    /\ p.mfa <= session[p.sid].mfa
    /\ Heard(p.sid, p.target, p.late)

OnePosted == \A p, q \in posted : p.id = q.id => p = q

Inv ==
    /\ HandoffTypeOK
    /\ \A i \in Ids : RowInv(i)
    /\ CookieInv
    /\ ClockInv
    /\ \A r \in Tabs : TabInv(tab[r])
    /\ OneWinner
    /\ \A p \in posted : PostedInv(p)
    /\ OnePosted

-----------------------------------------------------------------------------
(* Steps that lose nothing a tab or an assertion rests on.                 *)

\* Rows and sessions keep what they are, completed rows for good; a second factor
\* only gets younger; no live session is logged out.
Keeps ==
    /\ \A i \in Ids : handoff[i].status # "NONE" =>
         /\ handoff'[i].status # "NONE"
         /\ handoff'[i].target = handoff[i].target /\ handoff'[i].realm = handoff[i].realm
         /\ handoff[i].status = "COMPLETED" =>
              handoff'[i].status = "COMPLETED" /\ handoff'[i].sid = handoff[i].sid
    /\ \A s \in Sids : session[s].state # "none" =>
         /\ session'[s].state # "none" /\ session'[s].realm = session[s].realm
         /\ session[s].mfa <= session'[s].mfa
         /\ session'[s].state = "out" => session[s].state = "out"
    /\ \A s \in Sids : joined[s] \subseteq joined'[s]
    /\ told' = told

\* The part of the invariant that is about neither tabs nor assertions.
Store ==
    /\ clock \in Nat
    /\ setting \in [Clients -> Settings]
    /\ handoff \in [Ids -> Row]
    /\ session \in [Sids -> RealmSess]
    /\ cookie \in [Realms -> Sids \cup {NoSid}]
    /\ joined \in [Sids -> SUBSET (Clients \cup {NoClient})]
    /\ told \in [Sids -> SUBSET (Clients \cup {NoClient})]
    /\ \A i \in Ids : RowInv(i)
    /\ CookieInv
    /\ ClockInv

LEMMA StoreOf == Inv => Store
  BY DEF Inv, HandoffTypeOK, Store

LEMMA NoTabInv == NoTab \in Tab /\ TabInv(NoTab) /\ ~HasWon(NoTab) /\ TabInv(NoTab)'
  BY DEF NoTab, Tab, TabPcs, TabInv, Grounded, Backed, Listed, Winner, HasRead, HasSigned, HasWon

LEMMA TabKept ==
    ASSUME Store, session' \in [Sids -> RealmSess], Keeps, posted' = posted,
           NEW t \in Tab, TabInv(t)
    PROVE  TabInv(t)'
  <1>1. CASE t.pc = "off"
    BY <1>1 DEF TabInv, Grounded, Backed, Listed, Winner, HasRead, HasSigned, HasWon
  <1>2. CASE t.pc # "off"
    <2>1. /\ t.id \in Ids /\ handoff[t.id].status # "NONE"
          /\ t.mfa \in Nat
          /\ t.sid # NoSid => t.sid \in Sids /\ session[t.sid].state # "none"
                              /\ session[t.sid].mfa \in Nat /\ session'[t.sid].mfa \in Nat
      BY <1>2 DEF TabInv, Grounded, Tab, Store, RealmSess
    <2>2. HasRead(t) \/ HasSigned(t) => t.sid # NoSid
      BY <1>2 DEF TabInv, Grounded
    <2>3. Grounded(t)'
      BY <1>2, <2>1 DEF TabInv, Grounded, HasRead, HasSigned, Keeps
    <2>4. Backed(t)'
      BY <2>1 DEF TabInv, Backed, HasSigned, Keeps
    <2>5. Listed(t)'
      BY <2>1, <2>2 DEF TabInv, Listed, HasRead, HasSigned, Heard, Keeps
    <2>6. Winner(t)'
      BY <2>1 DEF TabInv, Winner, HasWon, Keeps
    <2> QED
      BY <2>3, <2>4, <2>5, <2>6 DEF TabInv
  <1> QED
    BY <1>1, <1>2

LEMMA PostedKept ==
    ASSUME Store, session' \in [Sids -> RealmSess], Keeps, NEW p \in Assertion, PostedInv(p)
    PROVE  PostedInv(p)'
  <1>1. p.id \in Ids /\ p.sid \in Sids /\ p.mfa \in Nat
    BY DEF Assertion, PostedInv
  <1>2. session[p.sid].mfa \in Nat /\ session'[p.sid].mfa \in Nat
    BY <1>1 DEF Store, RealmSess
  <1> QED
    BY <1>1, <1>2 DEF PostedInv, Heard, Keeps

\* One tab moves to q.
LEMMA TabMoves ==
    ASSUME Inv, Store', Keeps, posted' = posted,
           NEW r \in Tabs, NEW q \in Tab, tab' = [tab EXCEPT ![r] = q], TabInv(q)',
           \A o \in Tabs \ {r} : HasWon(q) /\ HasWon(tab[o]) => tab[o].id # q.id
    PROVE  Inv'
  <1>1. Store /\ session' \in [Sids -> RealmSess]
    BY StoreOf DEF Store
  <1>2. /\ tab' \in [Tabs -> Tab] /\ tab'[r] = q
        /\ \A o \in Tabs \ {r} : tab'[o] = tab[o]
    BY DEF Inv, HandoffTypeOK
  <1>3. ASSUME NEW o \in Tabs \ {r}, NEW t, t = tab[o] PROVE TabInv(t)'
    BY <1>1, <1>3, TabKept DEF Inv, HandoffTypeOK
  <1>4. \A o \in Tabs : TabInv(tab[o])'
    <2> SUFFICES ASSUME NEW o \in Tabs, NEW t, t = tab'[o] PROVE TabInv(t)'
      OBVIOUS
    <2> QED
      BY <1>2, <1>3
  <1>5. OneWinner'
    BY <1>2 DEF Inv, OneWinner, HasWon
  <1>6. ASSUME NEW p \in posted PROVE PostedInv(p)'
    BY <1>1, PostedKept DEF Inv, HandoffTypeOK
  <1> QED
    BY <1>2, <1>4, <1>5, <1>6 DEF Inv, HandoffTypeOK, Store, OnePosted

\* One tab moves to q, and nothing else changes.
LEMMA TabTurns ==
    ASSUME Inv, UNCHANGED <<clock, setting, handoff, session, cookie, joined, told, posted>>,
           NEW r \in Tabs, NEW q \in Tab, tab' = [tab EXCEPT ![r] = q], TabInv(q),
           HasWon(q) => HasWon(tab[r]) /\ q.id = tab[r].id
    PROVE  Inv'
  <1>1. Store
    BY StoreOf
  <1>2. Store' /\ session' \in [Sids -> RealmSess]
    BY <1>1 DEF Store, RowInv, CookieInv, ClockInv
  <1>3. Keeps
    BY <1>1 DEF Keeps, Store, RealmSess
  <1>4. TabInv(q)'
    BY <1>1, <1>2, <1>3, TabKept
  <1>5. \A o \in Tabs \ {r} : HasWon(q) /\ HasWon(tab[o]) => tab[o].id # q.id
    BY DEF Inv, OneWinner
  <1> QED
    BY <1>2, <1>3, <1>4, <1>5, TabMoves

\* No tab moves.
LEMMA TabsStay ==
    ASSUME Inv, Store', Keeps, UNCHANGED <<tab, posted>>
    PROVE  Inv'
  <1>1. Store /\ session' \in [Sids -> RealmSess]
    BY StoreOf DEF Store
  <1>2. ASSUME NEW o \in Tabs, NEW t, t = tab[o] PROVE TabInv(t)'
    BY <1>1, <1>2, TabKept DEF Inv, HandoffTypeOK
  <1>3. ASSUME NEW p \in posted PROVE PostedInv(p)'
    BY <1>1, PostedKept DEF Inv, HandoffTypeOK
  <1>4. \A o \in Tabs : TabInv(tab[o])'
    <2> SUFFICES ASSUME NEW o \in Tabs, NEW t, t = tab'[o] PROVE TabInv(t)'
      OBVIOUS
    <2> QED
      BY <1>2
  <1> QED
    BY <1>3, <1>4 DEF Inv, HandoffTypeOK, Store, OneWinner, OnePosted

\* A request that ends.
LEMMA TabEnds ==
    ASSUME Inv, Store', Keeps, posted' = posted, NEW r \in Tabs, Done(r) PROVE Inv'
  BY TabMoves, NoTabInv DEF Done

LEMMA TabQuits ==
    ASSUME Inv, UNCHANGED <<clock, setting, handoff, session, cookie, joined, told, posted>>,
           NEW r \in Tabs, Done(r)
    PROVE  Inv'
  BY TabTurns, NoTabInv DEF Done

\* What is known of a tab in progress.
LEMMA Working ==
    ASSUME Inv, NEW r \in Tabs, tab[r].pc # "off"
    PROVE  /\ tab[r] \in Tab /\ TabInv(tab[r]) /\ tab[r].id \in Ids
           /\ handoff[tab[r].id] \in Row /\ handoff[tab[r].id].status # "NONE"
           /\ handoff[tab[r].id].target \in Clients
           /\ handoff[tab[r].id].realm \in Realms
           /\ handoff[tab[r].id].realm = AuthRealm[handoff[tab[r].id].target]
           /\ clock \in Nat /\ tab[r].mfa \in Nat
           /\ tab[r].sid # NoSid =>
                /\ tab[r].sid \in Sids /\ session[tab[r].sid] \in RealmSess
                /\ session[tab[r].sid].mfa \in Nat
                /\ session[tab[r].sid].mfa <= clock
  <1>1. tab[r] \in Tab /\ TabInv(tab[r])
    BY DEF Inv, HandoffTypeOK
  <1>2. tab[r].id \in Ids /\ handoff[tab[r].id].status # "NONE"
    BY <1>1 DEF TabInv, Grounded
  <1>3. tab[r].sid # NoSid => tab[r].sid \in Sids
    BY <1>1 DEF Tab
  <1>4. handoff[tab[r].id] \in Row /\ RowInv(tab[r].id)
    BY <1>2 DEF Inv, HandoffTypeOK
  <1>5. tab[r].sid # NoSid => session[tab[r].sid] \in RealmSess /\ session[tab[r].sid].mfa <= clock
    BY <1>3 DEF Inv, HandoffTypeOK, ClockInv
  <1> QED
    BY <1>1, <1>2, <1>3, <1>4, <1>5, HandoffRegistry DEF RowInv, Inv, HandoffTypeOK, Tab, RealmSess

-----------------------------------------------------------------------------
(* One lemma for each of the larger actions.                               *)

LEMMA Normalized ==
    ASSUME NEW p \in Paths PROVE normalizeRelativePath(p) \in Path \cup {NoPath}
  <1>1. p \in Path
    BY PathAssumption
  <1>2. [p EXCEPT !.query = IF @ = "empty" THEN "none" ELSE @] \in Path
    BY <1>1 DEF Path
  <1> QED
    BY <1>2 DEF normalizeRelativePath

LEMMA CreateRequestInv ==
    ASSUME Inv, NEW src \in Clients, NEW target \in Clients, CreateRequest(src, target)
    PROVE  Inv'
  <1>1. PICK i \in Ids, p \in Paths :
          /\ handoff[i].status = "NONE"
          /\ handoff' = [handoff EXCEPT ![i] =
                           [NoRow EXCEPT !.status = "PENDING", !.target = target,
                                         !.realm = AuthRealm[src], !.path = normalizeRelativePath(p),
                                         !.expires = clock + RequestTtl]]
    BY DEF CreateRequest
  <1>2. PICK row : row = [NoRow EXCEPT !.status = "PENDING", !.target = target,
                                       !.realm = AuthRealm[src], !.path = normalizeRelativePath(p),
                                       !.expires = clock + RequestTtl]
    OBVIOUS
  <1>3. AuthRealm[src] \in Realms /\ AuthRealm[src] = AuthRealm[target]
    BY HandoffRegistry DEF CreateRequest, MayHandOff
  <1>4. clock + RequestTtl \in Nat
    BY HandoffLimits DEF Inv, HandoffTypeOK
  <1>5. /\ row \in Row /\ row.status = "PENDING"
        /\ row.target = target /\ row.realm = AuthRealm[target]
    BY <1>2, <1>3, <1>4, Normalized DEF NoRow, Row
  <1>6. UNCHANGED <<clock, setting, session, cookie, tab, joined, told, posted>>
    BY DEF CreateRequest
  <1>7. /\ handoff' \in [Ids -> Row] /\ handoff'[i] = row
        /\ \A j \in Ids \ {i} : handoff'[j] = handoff[j]
    BY <1>1, <1>2, <1>5 DEF Inv, HandoffTypeOK
  <1>8. Store'
    BY <1>5, <1>6, <1>7, StoreOf DEF Store, RowInv, CookieInv, ClockInv
  <1>9. Keeps
    BY <1>1, <1>6, <1>7, StoreOf DEF Keeps, Store, RealmSess
  <1> QED
    BY <1>6, <1>8, <1>9, TabsStay

\* A row that is still PENDING is closed, and no tab moves by it.
LEMMA RowChanges ==
    ASSUME Inv, NEW i \in Ids, handoff[i].status = "PENDING",
           NEW row \in Row, row.status # "NONE",
           row.target = handoff[i].target, row.realm = handoff[i].realm,
           handoff' = [handoff EXCEPT ![i] = row],
           UNCHANGED <<clock, setting, session, cookie, joined, told>>
    PROVE  /\ Store' /\ Keeps
           /\ handoff'[i] = row /\ \A j \in Ids \ {i} : handoff'[j] = handoff[j]
  <1>1. /\ handoff' \in [Ids -> Row] /\ handoff'[i] = row
        /\ \A j \in Ids \ {i} : handoff'[j] = handoff[j]
    BY DEF Inv, HandoffTypeOK
  <1>2. Store'
    BY <1>1, StoreOf DEF Store, RowInv, CookieInv, ClockInv
  <1>3. Keeps
    BY <1>1, StoreOf DEF Keeps, Store, RealmSess
  <1> QED
    BY <1>1, <1>2, <1>3

LEMMA FindPendingInv ==
    ASSUME Inv, NEW r \in Tabs, FindPending(r) PROVE Inv'
  <1>1. UNCHANGED <<clock, setting, session, cookie, joined, told, posted>>
    BY DEF FindPending
  <1>2. PICK i \in Ids, form \in {"open", "login", "mfa", "abort"} :
          /\ handoff[i].status = "PENDING"
          /\ \/ handoff' = [handoff EXCEPT ![i].status = "EXPIRED"] /\ UNCHANGED tab
             \/ /\ tab' = [tab EXCEPT ![r] = [NoTab EXCEPT !.pc = "target", !.form = form, !.id = i,
                                                  !.sid = cookie[handoff[i].realm]]]
                /\ UNCHANGED handoff
    BY DEF FindPending
  <1>3. /\ handoff[i] \in Row /\ RowInv(i) /\ handoff[i].realm \in Realms
    BY <1>2, HandoffRegistry DEF Inv, HandoffTypeOK, RowInv
  <1>4. CASE handoff' = [handoff EXCEPT ![i].status = "EXPIRED"] /\ UNCHANGED tab
    <2>1. PICK row : row = [handoff[i] EXCEPT !.status = "EXPIRED"]
      OBVIOUS
    <2>2. /\ row \in Row /\ row.status = "EXPIRED"
          /\ row.target = handoff[i].target /\ row.realm = handoff[i].realm
      BY <1>3, <2>1 DEF Row
    <2>3. handoff' = [handoff EXCEPT ![i] = row]
      BY <1>4, <2>1
    <2> QED
      BY <1>1, <1>2, <1>4, <2>2, <2>3, RowChanges, TabsStay
  <1>5. CASE /\ tab' = [tab EXCEPT ![r] = [NoTab EXCEPT !.pc = "target", !.form = form, !.id = i,
                                              !.sid = cookie[handoff[i].realm]]]
             /\ UNCHANGED handoff
    <2>1. PICK q : q = [NoTab EXCEPT !.pc = "target", !.form = form, !.id = i,
                                     !.sid = cookie[handoff[i].realm]]
      OBVIOUS
    <2>2. cookie[handoff[i].realm] \in Sids \cup {NoSid}
      BY <1>3 DEF Inv, HandoffTypeOK
    <2>3. /\ q \in Tab /\ q.pc = "target" /\ q.id = i /\ q.mfa = 0
          /\ q.sid = cookie[handoff[i].realm]
      BY <2>1, <2>2 DEF NoTab, Tab, TabPcs
    <2>4. q.sid # NoSid => /\ session[q.sid].state # "none"
                           /\ session[q.sid].realm = handoff[i].realm
                           /\ 0 <= session[q.sid].mfa
      <3>1. q.sid # NoSid => session[q.sid] \in RealmSess
        BY <2>2, <2>3 DEF Inv, HandoffTypeOK
      <3> QED
        BY <1>3, <2>3, <3>1 DEF Inv, CookieInv, RealmSess
    <2>5. TabInv(q)
      BY <1>2, <2>3, <2>4 DEF TabInv, Grounded, Backed, Listed, Winner, HasRead, HasSigned, HasWon
    <2>6. ~HasWon(q)
      BY <2>3 DEF HasWon
    <2> QED
      BY <1>1, <1>5, <2>1, <2>3, <2>5, <2>6, TabTurns
  <1> QED
    BY <1>2, <1>4, <1>5

\* A live session is revoked, or its second factor verified again.
LEMMA SessionChanges ==
    ASSUME Inv, NEW s \in Sids, session[s].state # "none",
           NEW sess \in RealmSess, sess.state \notin {"none", "out"},
           sess.realm = session[s].realm, session[s].mfa <= sess.mfa, sess.mfa <= clock,
           session' = [session EXCEPT ![s] = sess],
           UNCHANGED <<clock, setting, handoff, cookie, joined, told>>
    PROVE  /\ Store' /\ Keeps
           /\ session'[s] = sess
  <1>1. /\ session' \in [Sids -> RealmSess] /\ session'[s] = sess
        /\ \A o \in Sids \ {s} : session'[o] = session[o]
    BY DEF Inv, HandoffTypeOK
  <1>2. CookieInv'
    BY <1>1 DEF Inv, HandoffTypeOK, CookieInv
  <1>3. Store'
    BY <1>1, <1>2, StoreOf DEF Store, RowInv, ClockInv
  <1>4. Keeps
    BY <1>1, StoreOf DEF Keeps, Store, RealmSess
  <1> QED
    BY <1>1, <1>3, <1>4

LEMMA ReadSessionInv ==
    ASSUME Inv, NEW r \in Tabs, ReadSession(r) PROVE Inv'
  <1>1. PICK t, s : t = tab[r] /\ s = t.sid
    OBVIOUS
  <1>2. t.pc = "session" /\ UNCHANGED <<clock, setting, handoff, cookie, joined, told, posted>>
    BY <1>1 DEF ReadSession
  <1>3. /\ t \in Tab /\ TabInv(t)
        /\ Live(s) => s \in Sids /\ session[s] \in RealmSess /\ session[s].mfa \in Nat
    BY <1>1, <1>2, Working DEF Live
  <1>4. CASE Done(r) /\ UNCHANGED session
    BY <1>2, <1>4, TabQuits
  <1>5. CASE /\ Live(s)
             /\ tab' = [tab EXCEPT ![r] = [@ EXCEPT !.mfa = session[s].mfa, !.form = "open",
                           !.pc = IF tab[r].form = "mfa" THEN "code" ELSE "continue"]]
             /\ UNCHANGED session
    <2>1. PICK q : q = [t EXCEPT !.mfa = session[s].mfa, !.form = "open",
                          !.pc = IF t.form = "mfa" THEN "code" ELSE "continue"]
      OBVIOUS
    <2>2. tab' = [tab EXCEPT ![r] = q]
      BY <1>1, <1>5, <2>1
    <2>3. /\ q \in Tab /\ q.pc \in {"code", "continue"} /\ q.mfa = session[s].mfa
          /\ q.id = t.id /\ q.sid = t.sid
      BY <1>3, <1>5, <2>1 DEF Tab, TabPcs
    <2>4. TabInv(q)
      <3>1. Grounded(q)
        BY <1>1, <1>2, <1>3, <1>5, <2>3 DEF TabInv, Grounded, HasRead, HasSigned, Live
      <3>2. Backed(q) /\ Listed(q) /\ Winner(q)
        BY <1>1, <1>5, <2>3 DEF Backed, Listed, Winner, HasRead, HasSigned, HasWon, Live
      <3> QED
        BY <3>1, <3>2 DEF TabInv
    <2>5. ~HasWon(q)
      BY <2>3 DEF HasWon
    <2> QED
      BY <1>2, <1>5, <2>2, <2>3, <2>4, <2>5, TabTurns
  <1>6. CASE Live(s) /\ Done(r) /\ session' = [session EXCEPT ![s].state = "revoked"]
    <2>1. PICK sess : sess = [session[s] EXCEPT !.state = "revoked"]
      OBVIOUS
    <2>2. /\ sess \in RealmSess /\ sess.state = "revoked"
          /\ sess.realm = session[s].realm /\ sess.mfa = session[s].mfa
      BY <1>3, <1>6, <2>1 DEF RealmSess
    <2>3. session' = [session EXCEPT ![s] = sess]
      BY <1>6, <2>1
    <2>4. session[s].mfa <= sess.mfa /\ sess.mfa <= clock
      BY <1>3, <1>6, <2>2 DEF Inv, ClockInv
    <2> QED
      BY <1>2, <1>3, <1>6, <2>2, <2>3, <2>4, SessionChanges, TabEnds DEF Live
  <1> QED
    BY <1>1, <1>4, <1>5, <1>6 DEF ReadSession

LEMMA LoginInv ==
    ASSUME Inv, NEW r \in Tabs, Login(r) PROVE Inv'
  <1>1. PICK t, k : t = tab[r] /\ k = handoff[t.id].realm
    OBVIOUS
  <1>2. t.pc = "login" /\ UNCHANGED <<clock, setting, handoff, joined, told, posted>>
    BY <1>1 DEF Login
  <1>3. t \in Tab /\ TabInv(t) /\ k \in Realms
    BY <1>1, <1>2, Working
  <1>4. CASE Done(r) /\ UNCHANGED <<session, cookie>>
    BY <1>2, <1>4, TabQuits
  <1>5. ASSUME NEW s \in Sids, session[s].state = "none",
               session' = [session EXCEPT ![s] = [NoSess EXCEPT !.state = "live", !.realm = k]],
               cookie' = [cookie EXCEPT ![k] = s],
               tab' = [tab EXCEPT ![r] = [@ EXCEPT !.pc = "continue", !.sid = s, !.form = "open"]]
        PROVE  Inv'
    <2>1. PICK sess, q : /\ sess = [NoSess EXCEPT !.state = "live", !.realm = k]
                         /\ q = [t EXCEPT !.pc = "continue", !.sid = s, !.form = "open"]
      OBVIOUS
    <2>2. sess \in RealmSess /\ sess.state = "live" /\ sess.realm = k /\ sess.mfa = 0
      BY <1>3, <2>1 DEF NoSess, RealmSess
    <2>3. q \in Tab /\ q.pc = "continue" /\ q.sid = s /\ q.id = t.id /\ q.mfa = t.mfa
      BY <1>3, <2>1 DEF Tab, TabPcs
    <2>4. t.mfa = 0 /\ t.id \in Ids /\ handoff[t.id].status # "NONE"
      BY <1>2, <1>3 DEF TabInv, Grounded, HasRead, HasSigned
    <2>5. session' = [session EXCEPT ![s] = sess] /\ tab' = [tab EXCEPT ![r] = q]
      BY <1>1, <1>5, <2>1
    <2>6. /\ session' \in [Sids -> RealmSess] /\ session'[s] = sess
          /\ \A o \in Sids \ {s} : session'[o] = session[o]
      BY <2>2, <2>5 DEF Inv, HandoffTypeOK
    <2>7. /\ cookie' \in [Realms -> Sids \cup {NoSid}] /\ cookie'[k] = s
          /\ \A o \in Realms \ {k} : cookie'[o] = cookie[o]
      BY <1>3, <1>5 DEF Inv, HandoffTypeOK
    <2>8. Store'
      <3>1. CookieInv'
        <4> SUFFICES ASSUME NEW o \in Realms, cookie'[o] # NoSid
                     PROVE  session'[cookie'[o]].state # "none" /\ session'[cookie'[o]].realm = o
          BY DEF CookieInv
        <4>1. CASE o = k
          BY <2>2, <2>6, <2>7, <4>1
        <4>2. CASE o # k
          <5>1. /\ cookie'[o] = cookie[o] /\ cookie[o] \in Sids
                /\ session[cookie[o]].state # "none" /\ session[cookie[o]].realm = o
            BY <2>7, <4>2 DEF Inv, HandoffTypeOK, CookieInv
          <5> QED
            BY <1>5, <2>6, <5>1
        <4> QED
          BY <4>1, <4>2
      <3>2. ClockInv'
        BY <1>2, <2>2, <2>6 DEF Inv, HandoffTypeOK, ClockInv
      <3> QED
        BY <1>2, <2>6, <2>7, <3>1, <3>2, StoreOf DEF Store, RowInv
    <2>9. Keeps
      BY <1>2, <1>5, <2>6, StoreOf DEF Keeps, Store, RealmSess
    <2>10. TabInv(q)'
      <3>1. /\ handoff' = handoff /\ handoff[q.id].realm = k /\ s # NoSid
            /\ session'[s].state = "live" /\ session'[s].realm = k /\ session'[s].mfa = 0
        BY <1>1, <1>2, <2>2, <2>3, <2>6, HandoffSentinels
      <3>2. Grounded(q)'
        BY <2>3, <2>4, <3>1 DEF Grounded, HasRead
      <3>3. Backed(q)' /\ Listed(q)' /\ Winner(q)'
        BY <2>2, <2>3, <2>6 DEF Backed, Listed, Winner, HasRead, HasSigned, HasWon
      <3> QED
        BY <3>2, <3>3 DEF TabInv
    <2>11. ~HasWon(q)
      BY <2>3 DEF HasWon
    <2> QED
      BY <1>2, <2>3, <2>5, <2>8, <2>9, <2>10, <2>11, TabMoves
  <1> QED
    BY <1>1, <1>4, <1>5 DEF Login

LEMMA UpgradeInv ==
    ASSUME Inv, NEW r \in Tabs, Upgrade(r) PROVE Inv'
  <1>1. PICK t, s : t = tab[r] /\ s = t.sid
    OBVIOUS
  <1>2. t.pc = "upgrade" /\ UNCHANGED <<clock, setting, handoff, cookie, joined, told, posted>>
    BY <1>1 DEF Upgrade
  <1>3. t \in Tab /\ TabInv(t) /\ clock \in Nat /\ clock > 0
    BY <1>1, <1>2, Working DEF Inv, ClockInv
  <1>4. CASE Done(r) /\ UNCHANGED session
    BY <1>2, <1>4, TabQuits
  <1>5. CASE /\ Live(s)
             /\ session' = [session EXCEPT ![s].mfa = clock]
             /\ tab' = [tab EXCEPT ![r] = [@ EXCEPT !.pc = "deliver", !.mfa = clock]]
    <2>1. PICK sess, q : /\ sess = [session[s] EXCEPT !.mfa = clock]
                         /\ q = [t EXCEPT !.pc = "deliver", !.mfa = clock]
      OBVIOUS
    <2>2. /\ s # NoSid /\ s \in Sids /\ session[s] \in RealmSess /\ session[s].state = "live"
          /\ session[s].mfa <= clock
      BY <1>1, <1>2, <1>5, Working DEF Live
    <2>3. /\ sess \in RealmSess /\ sess.state = "live"
          /\ sess.realm = session[s].realm /\ sess.mfa = clock
      BY <1>3, <2>1, <2>2 DEF RealmSess
    <2>4. /\ q \in Tab /\ q.pc = "deliver" /\ q.sid = s /\ q.id = t.id /\ q.mfa = clock
      BY <1>1, <1>3, <2>1 DEF Tab, TabPcs
    <2>5. session' = [session EXCEPT ![s] = sess] /\ tab' = [tab EXCEPT ![r] = q]
      BY <1>1, <1>5, <2>1
    <2>6. Store' /\ Keeps /\ session'[s] = sess
      <3>1. /\ session[s].state # "none" /\ sess.state \notin {"none", "out"}
            /\ session[s].mfa <= sess.mfa /\ sess.mfa <= clock
        BY <1>3, <2>2, <2>3
      <3> QED
        BY <1>2, <2>2, <2>3, <2>5, <3>1, SessionChanges
    <2>7. /\ t.id \in Ids /\ handoff[t.id].status # "NONE"
          /\ session[s].realm = handoff[t.id].realm
      BY <1>1, <1>2, <1>3, <2>2 DEF TabInv, Grounded
    <2>8. TabInv(q)'
      <3>1. Grounded(q)'
        BY <1>2, <1>3, <2>2, <2>3, <2>4, <2>6, <2>7 DEF Grounded, HasRead
      <3>2. Backed(q)' /\ Listed(q)' /\ Winner(q)'
        BY <1>3, <2>3, <2>4, <2>6 DEF Backed, Listed, Winner, HasRead, HasSigned, HasWon
      <3> QED
        BY <3>1, <3>2 DEF TabInv
    <2>9. ~HasWon(q)
      BY <2>4 DEF HasWon
    <2> QED
      BY <1>2, <2>4, <2>5, <2>6, <2>8, <2>9, TabMoves
  <1> QED
    BY <1>1, <1>4, <1>5 DEF Upgrade

LEMMA CancelInv ==
    ASSUME Inv, NEW r \in Tabs, Cancel(r) PROVE Inv'
  <1>1. PICK i : i = tab[r].id
    OBVIOUS
  <1>2. /\ tab[r].pc = "cancel" /\ Done(r)
        /\ UNCHANGED <<clock, setting, session, cookie, joined, told, posted>>
    BY DEF Cancel
  <1>3. i \in Ids /\ handoff[i] \in Row
    BY <1>1, <1>2, Working
  <1>4. CASE handoff[i].status = "PENDING" /\ handoff' = [handoff EXCEPT ![i].status = "CANCELLED"]
    <2>1. PICK row : row = [handoff[i] EXCEPT !.status = "CANCELLED"]
      OBVIOUS
    <2>2. /\ row \in Row /\ row.status = "CANCELLED"
          /\ row.target = handoff[i].target /\ row.realm = handoff[i].realm
      BY <1>3, <2>1 DEF Row
    <2>3. handoff' = [handoff EXCEPT ![i] = row]
      BY <1>4, <2>1
    <2> QED
      BY <1>2, <1>3, <1>4, <2>2, <2>3, RowChanges, TabEnds
  <1>5. CASE UNCHANGED handoff
    BY <1>2, <1>5, TabQuits
  <1> QED
    BY <1>1, <1>4, <1>5 DEF Cancel

\* Continue and Deliver sign for the second factor the tab has read.
LEMMA SignsInv ==
    ASSUME Inv, NEW r \in Tabs,
           tab[r].pc \in {"continue", "deliver"},
           handoff[tab[r].id].target \in AsksAal2 => tab[r].mfa > 0,
           tab' = [tab EXCEPT ![r] = [@ EXCEPT !.pc = "sign", !.aal2 = isFresh(tab[r].mfa), !.signed = clock]],
           UNCHANGED <<clock, setting, handoff, session, cookie, joined, told, posted>>
    PROVE  Inv'
  <1>1. PICK t : t = tab[r]
    OBVIOUS
  <1>2. /\ t \in Tab /\ TabInv(t) /\ clock \in Nat /\ isFresh(t.mfa) \in BOOLEAN
        /\ t.pc \in {"continue", "deliver"} /\ t.pc # "off"
        /\ handoff[t.id].target \in AsksAal2 => t.mfa > 0
    BY <1>1, Working DEF isFresh
  <1>3. PICK q : q = [t EXCEPT !.pc = "sign", !.aal2 = isFresh(t.mfa), !.signed = clock]
    OBVIOUS
  <1>4. /\ q \in Tab /\ q.pc = "sign" /\ q.aal2 = isFresh(t.mfa) /\ q.signed = clock
        /\ q.id = t.id /\ q.sid = t.sid /\ q.mfa = t.mfa /\ q.late = t.late
    BY <1>2, <1>3 DEF Tab, TabPcs
  <1>5. tab' = [tab EXCEPT ![r] = q]
    BY <1>1, <1>3
  <1>6. Grounded(q) /\ Listed(q) /\ Winner(q) /\ ~HasWon(q)
    BY <1>2, <1>4 DEF TabInv, Grounded, Listed, Winner, HasRead, HasSigned, HasWon
  <1>7. Backed(q)
    BY <1>2, <1>4 DEF Backed, HasSigned, isFresh
  <1> QED
    BY <1>4, <1>5, <1>6, <1>7, TabTurns DEF TabInv

LEMMA CompleteInv ==
    ASSUME Inv, NEW r \in Tabs, Complete(r) PROVE Inv'
  <1>1. PICK t, i : t = tab[r] /\ i = t.id
    OBVIOUS
  <1>2. t.pc = "complete" /\ UNCHANGED <<clock, setting, session, cookie, joined, told, posted>>
    BY <1>1 DEF Complete
  <1>3. t \in Tab /\ TabInv(t) /\ i \in Ids /\ handoff[i] \in Row
    BY <1>1, <1>2, Working
  <1>4. CASE Done(r) /\ UNCHANGED handoff
    BY <1>2, <1>4, TabQuits
  <1>5. CASE /\ handoff[i].status = "PENDING"
             /\ handoff' = [handoff EXCEPT ![i] = [@ EXCEPT !.status = "COMPLETED", !.sid = t.sid]]
             /\ tab' = [tab EXCEPT ![r].pc = "join"]
    <2>1. PICK row, q : /\ row = [handoff[i] EXCEPT !.status = "COMPLETED", !.sid = t.sid]
                        /\ q = [t EXCEPT !.pc = "join"]
      OBVIOUS
    <2>2. /\ row \in Row /\ row.status = "COMPLETED" /\ row.sid = t.sid
          /\ row.target = handoff[i].target /\ row.realm = handoff[i].realm
      BY <1>3, <2>1 DEF Row, Tab
    <2>3. /\ q \in Tab /\ q.pc = "join" /\ q.id = i /\ q.sid = t.sid /\ q.mfa = t.mfa
          /\ q.signed = t.signed /\ q.aal2 = t.aal2 /\ q.late = t.late
      BY <1>1, <1>3, <2>1 DEF Tab, TabPcs
    <2>4. handoff' = [handoff EXCEPT ![i] = row] /\ tab' = [tab EXCEPT ![r] = q]
      BY <1>1, <1>5, <2>1
    <2>5. /\ Store' /\ Keeps
          /\ handoff'[i] = row /\ \A j \in Ids \ {i} : handoff'[j] = handoff[j]
      BY <1>2, <1>3, <1>5, <2>2, <2>4, RowChanges
    <2>6. Grounded(q)' /\ Backed(q)' /\ Listed(q)'
      BY <1>1, <1>2, <1>3, <2>2, <2>3, <2>5
         DEF TabInv, Grounded, Backed, Listed, Heard, HasRead, HasSigned
    <2>7. Winner(q)'
      BY <1>2, <1>5, <2>2, <2>3, <2>5 DEF Winner, Inv, PostedInv
    <2>8. \A o \in Tabs : HasWon(tab[o]) => tab[o].id # i
      BY <1>5 DEF Inv, TabInv, Winner
    <2> QED
      BY <1>2, <2>3, <2>4, <2>5, <2>6, <2>7, <2>8, TabMoves DEF TabInv
  <1> QED
    BY <1>1, <1>4, <1>5 DEF Complete, Turn

LEMMA JoinTargetInv ==
    ASSUME Inv, NEW r \in Tabs, JoinTarget(r) PROVE Inv'
  <1>1. PICK t, s, c : t = tab[r] /\ s = t.sid /\ c = handoff[t.id].target
    OBVIOUS
  <1>2. t.pc = "join" /\ UNCHANGED <<clock, setting, handoff, session, cookie, told, posted>>
    BY <1>1 DEF JoinTarget
  <1>3. t \in Tab /\ TabInv(t) /\ c \in Clients
    BY <1>1, <1>2, Working
  <1>4. s \in Sids
    BY <1>1, <1>2, <1>3, Working DEF TabInv, Grounded, HasRead
  <1>5. joined' = [joined EXCEPT ![s] = @ \cup {c}]
    BY <1>1 DEF JoinTarget, Target
  <1>6. /\ joined' \in [Sids -> SUBSET (Clients \cup {NoClient})]
        /\ c \in joined'[s] /\ \A o \in Sids : joined[o] \subseteq joined'[o]
    BY <1>3, <1>4, <1>5 DEF Inv, HandoffTypeOK
  <1>7. Store'
    BY <1>2, <1>6, StoreOf DEF Store, RowInv, CookieInv, ClockInv
  <1>8. Keeps
    BY <1>2, <1>6, StoreOf DEF Keeps, Store, RealmSess
  <1>9. PICK q : q = [t EXCEPT !.pc = "post"]
    OBVIOUS
  <1>10. /\ q \in Tab /\ q.pc = "post" /\ q.id = t.id /\ q.sid = s /\ q.mfa = t.mfa
         /\ q.signed = t.signed /\ q.aal2 = t.aal2 /\ q.late = t.late
    BY <1>1, <1>3, <1>9 DEF Tab, TabPcs
  <1>11. tab' = [tab EXCEPT ![r] = q]
    BY <1>1, <1>9 DEF JoinTarget, Turn
  <1>12. Grounded(q)' /\ Backed(q)' /\ Winner(q)'
    BY <1>1, <1>2, <1>3, <1>10 DEF TabInv, Grounded, Backed, Winner, HasRead, HasSigned, HasWon
  <1>13. Listed(q)'
    BY <1>1, <1>2, <1>3, <1>6, <1>10 DEF TabInv, Listed, Heard, HasRead
  <1>14. \A o \in Tabs \ {r} : HasWon(tab[o]) => tab[o].id # t.id
    BY <1>1, <1>2 DEF Inv, OneWinner, HasWon
  <1> QED
    BY <1>2, <1>7, <1>8, <1>10, <1>11, <1>12, <1>13, <1>14, TabMoves DEF TabInv

LEMMA PostAssertionInv ==
    ASSUME Inv, NEW r \in Tabs, PostAssertion(r) PROVE Inv'
  <1>1. PICK t, a : /\ t = tab[r]
                    /\ a = [id |-> t.id, target |-> handoff[t.id].target, sid |-> t.sid, mfa |-> t.mfa,
                            signed |-> t.signed, aal2 |-> t.aal2, late |-> t.late]
    OBVIOUS
  <1>2. /\ t.pc = "post" /\ posted' = posted \cup {a} /\ tab' = [tab EXCEPT ![r] = NoTab]
        /\ UNCHANGED <<clock, setting, handoff, session, cookie, joined, told>>
    BY <1>1 DEF PostAssertion, Target, Done
  <1>3. /\ t \in Tab /\ TabInv(t) /\ t.id \in Ids /\ handoff[t.id].target \in Clients
        /\ handoff[t.id].realm = AuthRealm[handoff[t.id].target]
    BY <1>1, <1>2, Working
  <1>4. /\ a \in Assertion /\ a.id = t.id /\ a.target = handoff[t.id].target /\ a.sid = t.sid
        /\ a.mfa = t.mfa /\ a.signed = t.signed /\ a.aal2 = t.aal2 /\ a.late = t.late
    BY <1>1, <1>3 DEF Assertion, Tab
  <1>5. PostedInv(a)
    <2>1. t.sid # NoSid /\ t.sid \in Sids
      BY <1>2, <1>3 DEF TabInv, Grounded, HasSigned, Tab
    <2> QED
      BY <1>2, <1>3, <1>4, <2>1
         DEF TabInv, Grounded, Backed, Listed, Winner, HasRead, HasSigned, HasWon, PostedInv
  <1>6. \A p \in posted' : PostedInv(p)'
    BY <1>2, <1>5 DEF Inv, PostedInv, Heard
  <1>7. OnePosted'
    BY <1>2, <1>3, <1>4 DEF Inv, OnePosted, TabInv, Winner, HasWon
  <1>8. /\ tab' \in [Tabs -> Tab] /\ tab'[r] = NoTab
        /\ \A o \in Tabs \ {r} : tab'[o] = tab[o]
    BY <1>2, NoTabInv DEF Inv, HandoffTypeOK
  <1>9. ASSUME NEW o \in Tabs \ {r}, NEW u, u = tab[o] PROVE TabInv(u)'
    <2>1. TabInv(u)
      BY <1>9 DEF Inv
    <2>2. HasWon(u) => u.id # t.id
      BY <1>1, <1>2, <1>9 DEF Inv, OneWinner, HasWon
    <2>3. Winner(u)'
      BY <1>2, <1>4, <2>1, <2>2 DEF TabInv, Winner
    <2> QED
      BY <1>2, <2>1, <2>3 DEF TabInv, Grounded, Backed, Listed, Heard
  <1>10. \A o \in Tabs : TabInv(tab[o])'
    <2> SUFFICES ASSUME NEW o \in Tabs, NEW u, u = tab'[o] PROVE TabInv(u)'
      OBVIOUS
    <2> QED
      BY <1>8, <1>9, NoTabInv
  <1>11. OneWinner'
    BY <1>8, NoTabInv DEF Inv, OneWinner
  <1>12. HandoffTypeOK'
    BY <1>2, <1>4, <1>8 DEF Inv, HandoffTypeOK
  <1> QED
    BY <1>2, <1>6, <1>7, <1>10, <1>11, <1>12 DEF Inv, RowInv, CookieInv, ClockInv

LEMMA LogOutInv ==
    ASSUME Inv, NEW s \in Sids, LogOut(s) PROVE Inv'
  <1>1. PICK sess : sess = [session[s] EXCEPT !.state = "out"]
    OBVIOUS
  <1>2. /\ session[s].state = "live" /\ session' = [session EXCEPT ![s] = sess]
        /\ told' = [told EXCEPT ![s] = joined[s]]
        /\ UNCHANGED <<clock, setting, handoff, cookie, joined, posted>>
    BY <1>1 DEF LogOut
  <1>3. /\ sess \in RealmSess /\ sess.state = "out"
        /\ sess.realm = session[s].realm /\ sess.mfa = session[s].mfa
    BY <1>1 DEF Inv, HandoffTypeOK, RealmSess
  <1>4. /\ session' \in [Sids -> RealmSess] /\ session'[s] = sess
        /\ \A o \in Sids \ {s} : session'[o] = session[o]
    BY <1>2, <1>3 DEF Inv, HandoffTypeOK
  <1>5. /\ told' \in [Sids -> SUBSET (Clients \cup {NoClient})] /\ told'[s] = joined[s]
        /\ \A o \in Sids \ {s} : told'[o] = told[o]
    BY <1>2 DEF Inv, HandoffTypeOK
  <1>6. \A o \in Sids : /\ session'[o].realm = session[o].realm /\ session'[o].mfa = session[o].mfa
                        /\ session[o].state # "none" => session'[o].state # "none"
    BY <1>2, <1>3, <1>4
  <1>7. ASSUME NEW c, NEW late, NEW o \in Sids, Heard(o, c, late) PROVE Heard(o, c, late)'
    BY <1>2, <1>4, <1>5, <1>7 DEF Heard
  <1>8. \A p \in posted' : PostedInv(p)'
    BY <1>2, <1>6, <1>7 DEF Inv, PostedInv
  <1>9. ASSUME NEW r \in Tabs, NEW t, t = tab[r], NEW u, u = tab'[r]
        PROVE  u \in Tab /\ u.pc = t.pc /\ u.id = t.id /\ TabInv(u)'
    <2>1. t \in Tab /\ TabInv(t)
      BY <1>9 DEF Inv, HandoffTypeOK
    <2>2. u = IF t.sid = s /\ t.pc # "post" THEN [t EXCEPT !.late = TRUE] ELSE t
      BY <1>9 DEF LogOut
    <2>3. /\ u \in Tab /\ u.pc = t.pc /\ u.id = t.id /\ u.sid = t.sid /\ u.mfa = t.mfa
          /\ u.signed = t.signed /\ u.aal2 = t.aal2
          /\ t.sid = s /\ t.pc # "post" => u.late
          /\ t.sid # s \/ t.pc = "post" => u.late = t.late
      BY <2>1, <2>2 DEF Tab
    <2>4. t.pc # "off" => t.id \in Ids /\ (t.sid # NoSid => t.sid \in Sids)
      BY <2>1 DEF TabInv, Grounded, Tab
    <2>5. Grounded(u)'
      BY <1>2, <1>6, <2>1, <2>3, <2>4 DEF TabInv, Grounded, HasRead, HasSigned
    <2>6. Backed(u)' /\ Winner(u)'
      BY <1>2, <2>1, <2>3 DEF TabInv, Backed, Winner, HasSigned, HasWon
    <2>7. Listed(u)'
      <3>1. HasRead(t) \/ t.pc = "post" => t.sid \in Sids
        BY <2>1, <2>4 DEF TabInv, Grounded, HasRead, HasSigned
      <3>2. HasRead(u) => (session'[u.sid].state = "out" => u.late)
        BY <1>4, <2>1, <2>3, <3>1 DEF TabInv, Listed, HasRead
      <3>3. u.pc = "post" => Heard(t.sid, handoff[t.id].target, t.late)
        BY <2>1, <2>3 DEF TabInv, Listed
      <3>4. u.pc = "post" => Heard(u.sid, handoff[u.id].target, u.late)'
        BY <1>2, <1>4, <1>5, <2>3, <3>1, <3>3 DEF Heard
      <3> QED
        BY <3>2, <3>4 DEF Listed
    <2> QED
      BY <2>3, <2>5, <2>6, <2>7 DEF TabInv
  <1>10. tab' \in [Tabs -> Tab] /\ \A r \in Tabs : TabInv(tab[r])'
    <2>1. tab' = [r \in Tabs |-> tab'[r]]
      BY DEF LogOut
    <2>2. ASSUME NEW r \in Tabs PROVE tab'[r] \in Tab
      BY <1>9
    <2>3. ASSUME NEW r \in Tabs, NEW u, u = tab'[r] PROVE TabInv(u)'
      BY <1>9, <2>3
    <2> QED
      BY <2>1, <2>2, <2>3
  <1>11. OneWinner'
    BY <1>9 DEF Inv, OneWinner, HasWon
  <1>12. CookieInv' /\ ClockInv'
    BY <1>2, <1>6 DEF Inv, HandoffTypeOK, CookieInv, ClockInv
  <1> QED
    BY <1>2, <1>4, <1>5, <1>8, <1>10, <1>11, <1>12 DEF Inv, HandoffTypeOK, RowInv, OnePosted

-----------------------------------------------------------------------------
(* The invariant.                                                          *)

LEMMA InitInv == HandoffInit => Inv
  <1> SUFFICES ASSUME HandoffInit PROVE Inv
    OBVIOUS
  <1>1. NoRow \in Row /\ NoRow.status = "NONE"
    BY DEF NoRow, Row
  <1>2. NoSess \in RealmSess /\ NoSess.mfa = 0
    BY DEF NoSess, RealmSess
  <1>3. HandoffTypeOK
    BY <1>1, <1>2, NoTabInv DEF HandoffInit, HandoffTypeOK
  <1>4. \A r \in Tabs : TabInv(tab[r])
    BY NoTabInv DEF HandoffInit
  <1>5. OneWinner
    BY NoTabInv DEF HandoffInit, OneWinner
  <1> QED
    BY <1>1, <1>2, <1>3, <1>4, <1>5 DEF HandoffInit, Inv, RowInv, CookieInv, ClockInv, OnePosted

LEMMA TabStepInv ==
    ASSUME Inv, NEW r \in Tabs, TabStep(r) PROVE Inv'
  <1>1. PICK t : t = tab[r]
    OBVIOUS
  <1>2. t.pc # "off" => t \in Tab /\ TabInv(t)
    BY <1>1, Working
  <1>3. ASSUME FindTarget(r) \/ VerifyMfa(r) \/ SignJws(r) PROVE Inv'
    <2>1. UNCHANGED <<clock, setting, handoff, session, cookie, joined, told, posted>>
      BY <1>3 DEF FindTarget, VerifyMfa, SignJws
    <2>2. \/ Done(r)
          \/ \E pc : /\ Turn(r, pc)
                    /\ \/ t.pc = "target" /\ pc \in {"session", "login", "cancel"}
                       \/ t.pc = "code" /\ pc = "upgrade"
                       \/ t.pc = "sign" /\ pc = "complete"
      BY <1>1, <1>3 DEF FindTarget, VerifyMfa, SignJws
    <2>3. ASSUME NEW pc, Turn(r, pc),
                 \/ t.pc = "target" /\ pc \in {"session", "login", "cancel"}
                 \/ t.pc = "code" /\ pc = "upgrade"
                 \/ t.pc = "sign" /\ pc = "complete"
          PROVE  Inv'
      <3>1. PICK q : q = [t EXCEPT !.pc = pc]
        OBVIOUS
      <3>2. /\ q \in Tab /\ q.pc = pc /\ q.id = t.id /\ q.sid = t.sid /\ q.mfa = t.mfa
            /\ q.signed = t.signed /\ q.aal2 = t.aal2 /\ q.late = t.late
        BY <1>2, <2>3, <3>1 DEF Tab, TabPcs
      <3>3. tab' = [tab EXCEPT ![r] = q]
        BY <1>1, <2>3, <3>1 DEF Turn
      <3>4. Grounded(q) /\ Backed(q) /\ Listed(q) /\ Winner(q) /\ ~HasWon(q)
        BY <1>2, <2>3, <3>2
           DEF TabInv, Grounded, Backed, Listed, Winner, HasRead, HasSigned, HasWon
      <3> QED
        BY <2>1, <3>2, <3>3, <3>4, TabTurns DEF TabInv
    <2> QED
      BY <2>1, <2>2, <2>3, TabQuits
  <1>4. ASSUME Continue(r) \/ Deliver(r) PROVE Inv'
    <2>1. UNCHANGED <<clock, setting, handoff, session, cookie, joined, told, posted>>
      BY <1>4 DEF Continue, Deliver
    <2>2. CASE Done(r)
      BY <2>1, <2>2, TabQuits
    <2>3. CASE tab' = [tab EXCEPT ![r] = [@ EXCEPT !.pc = "sign", !.aal2 = isFresh(tab[r].mfa), !.signed = clock]]
      <3>1. tab[r].pc \in {"continue", "deliver"}
        BY <1>4 DEF Continue, Deliver
      <3>2. CASE tab[r].pc = "deliver"
        BY <1>1, <1>2, <2>1, <2>3, <3>2, SignsInv DEF TabInv, Backed
      <3>3. CASE tab[r].pc = "continue" /\ ~isFresh(tab[r].mfa) /\ handoff[tab[r].id].target \in AsksAal2
        BY <1>4, <2>2, <3>3 DEF Continue, Deliver, Target
      <3>4. CASE isFresh(tab[r].mfa) \/ handoff[tab[r].id].target \notin AsksAal2
        BY <2>1, <2>3, <3>1, <3>4, SignsInv DEF isFresh
      <3> QED
        BY <3>1, <3>2, <3>3, <3>4
    <2> QED
      BY <1>4, <2>2, <2>3 DEF Continue, Deliver
  <1>5. CASE RequestDies(r)
    BY <1>5, TabQuits DEF RequestDies
  <1> QED
    BY <1>3, <1>4, <1>5, FindPendingInv, ReadSessionInv, LoginInv, UpgradeInv, CancelInv, CompleteInv,
       JoinTargetInv, PostAssertionInv DEF TabStep

LEMMA NextInv == Inv /\ [HandoffNext]_handoffVars => Inv'
  <1> SUFFICES ASSUME Inv, [HandoffNext]_handoffVars PROVE Inv'
    OBVIOUS
  <1>1. ASSUME clock' = clock \/ clock' = clock + 1, setting' \in [Clients -> Settings],
               UNCHANGED <<handoff, session, cookie, tab, joined, told, posted>>
        PROVE  Inv'
    <2>1. Store
      BY StoreOf
    <2>2. Store'
      BY <1>1, <2>1 DEF Store, RealmSess, RowInv, CookieInv, ClockInv
    <2>3. Keeps
      BY <1>1, <2>1 DEF Keeps, Store, RealmSess
    <2> QED
      BY <1>1, <2>2, <2>3, TabsStay
  <1>2. CASE UNCHANGED handoffVars
    BY <1>1, <1>2 DEF handoffVars, Inv, HandoffTypeOK
  <1>3. ASSUME NEW c \in Changing, Configure(c) PROVE Inv'
    <2>1. setting' \in [Clients -> Settings]
      BY <1>3 DEF Configure, Inv, HandoffTypeOK
    <2> QED
      BY <1>1, <1>3, <2>1 DEF Configure
  <1>4. CASE TimePasses
    BY <1>1, <1>4 DEF TimePasses, Inv, HandoffTypeOK
  <1> QED
    BY <1>2, <1>3, <1>4, CreateRequestInv, LogOutInv, TabStepInv DEF HandoffNext

\* What a tab knows of its request, and an assertion of its session, holds in every
\* reachable state.
THEOREM Invariance == HandoffSpec => []Inv
  BY InitInv, NextInv, PTL DEF HandoffSpec

\* HandoffTypeOK holds in every reachable state.
THEOREM TypeCorrect == HandoffSpec => []HandoffTypeOK
  BY Invariance, PTL DEF Inv

\* However many tabs and outcomes race for a request, one assertion leaves at most,
\* and the row says by which session.
THEOREM OneAssertion == HandoffSpec => []OneAssertionPerRequest
  <1>1. Inv => OneAssertionPerRequest
    BY DEF Inv, PostedInv, OnePosted, OneAssertionPerRequest
  <1> QED
    BY <1>1, Invariance, PTL

\* The session of an assertion is of the realm its target signs in to.
THEOREM WithinRealm == HandoffSpec => []AssertionWithinRealm
  <1>1. Inv => AssertionWithinRealm
    BY DEF Inv, PostedInv, AssertionWithinRealm
  <1> QED
    BY <1>1, Invariance, PTL

\* The second factor an assertion claims, or its target asks for, was verified.
THEOREM Backing == HandoffSpec => []AssertionIsBacked
  <1>1. Inv => AssertionIsBacked
    BY DEF Inv, PostedInv, AssertionIsBacked
  <1> QED
    BY <1>1, Invariance, PTL

\* The logout of the session tells the target, unless it came before the join.
THEOREM TargetsAreTold == HandoffSpec => []TargetIsToldOfLogout
  <1>1. Inv => TargetIsToldOfLogout
    BY DEF Inv, PostedInv, Heard, TargetIsToldOfLogout
  <1> QED
    BY <1>1, Invariance, PTL

-----------------------------------------------------------------------------
(* The paths.  What decodes is a sequence of texts, and Opened leaves such *)
(* a sequence as it is when nothing is to be taken out: both by induction  *)
(* over the segments.                                                      *)

\* The texts a decoded path is made of.
Text == STRING \cup {"..", ".", "a", "b", "", "\\"}

\* A path that names no other host and no scheme, and has no segment to take out.
OnHost(p) ==
    /\ Decoded(p) \in Seq(Text)
    /\ ~OtherHost(Decoded(p)) /\ ~Scheme(Decoded(p))
    /\ ToSet(Decoded(p)) \cap {".", "..", "\\"} = {}

AcceptedOnHost == \A i \in Ids : handoff[i].status # "NONE" => OnHost(handoff[i].path)

\* Induction over a set of numbers, from the well-foundedness of their order.
LEMMA SetInduction ==
    ASSUME NEW S, 0 \in S, \A n \in Nat : n \in S => n + 1 \in S
    PROVE  \A n \in Nat : n \in S
  <1> DEFINE R == {ss \in Nat \X Nat : ss[1] < ss[2]}
  <1> DEFINE T == Nat \ S
  <1> SUFFICES ASSUME T # {} PROVE FALSE
    OBVIOUS
  <1>1. IsWellFoundedOn(R, Nat)
    BY NatLessThanWellFounded DEF OpToRel
  <1>2. T \subseteq Nat
    OBVIOUS
  <1> HIDE DEF R, T
  <1>3. PICK x \in T : \A y \in T : <<y, x>> \notin R
    BY <1>1, <1>2, WFMin
  <1> USE DEF R, T
  <1>4. x \in Nat /\ x # 0
    OBVIOUS
  <1>5. x - 1 \in Nat /\ x - 1 < x /\ x = (x - 1) + 1
    BY <1>4
  <1>6. <<x - 1, x>> \in R
    BY <1>4, <1>5
  <1>7. x - 1 \in S
    BY <1>3, <1>5, <1>6
  <1> QED
    BY <1>5, <1>7

LEMMA FlattenedIsSequence ==
    ASSUME NEW S, NEW seqs \in Seq(Seq(S))
    PROVE  FlattenSeq(seqs) \in Seq(S)
  <1> PICK N : N = Len(seqs)
    OBVIOUS
  <1>1. N \in Nat /\ \A i \in 1..N : seqs[i] \in Seq(S)
    OBVIOUS
  <1> DEFINE Flat(f, n) == f = [i \in 1..n |-> IF i = 1 THEN seqs[i] ELSE f[i - 1] \o seqs[i]]
  <1> DEFINE Some == {n \in Nat : \E f : Flat(f, n)}
  <1>2. ASSUME NEW f, NEW n \in Nat, Flat(f, n), NEW i \in 1..n
        PROVE  (i = 1 => f[i] = seqs[i]) /\ (i # 1 => f[i] = f[i - 1] \o seqs[i])
    BY <1>2
  <1>3. \A n \in Nat : n \in Some
    <2>1. 0 \in Some
      <3>1. PICK e : e = [i \in {} |-> seqs[i]]
        OBVIOUS
      <3>2. Flat(e, 0)
        BY <3>1
      <3> HIDE DEF Flat
      <3> QED
        BY <3>2
    <2>2. ASSUME NEW n \in Nat, n \in Some PROVE n + 1 \in Some
      <3>1. PICK f : Flat(f, n)
        BY <2>2
      <3>2. PICK last : last = IF n = 0 THEN seqs[1] ELSE f[n] \o seqs[n + 1]
        OBVIOUS
      <3>3. PICK g : g = [i \in 1..(n + 1) |-> IF i <= n THEN f[i] ELSE last]
        OBVIOUS
      <3>4. /\ DOMAIN g = 1..(n + 1) /\ g = [i \in 1..(n + 1) |-> g[i]]
            /\ \A i \in 1..n : g[i] = f[i]
            /\ g[n + 1] = last
        BY <3>3
      <3>5. ASSUME NEW i \in 1..(n + 1)
            PROVE  g[i] = IF i = 1 THEN seqs[i] ELSE g[i - 1] \o seqs[i]
        <4> HIDE DEF Flat
        <4>1. CASE i \in 1..n /\ i = 1
          BY <1>2, <3>1, <3>4, <4>1
        <4>2. CASE i \in 1..n /\ i # 1
          <5>1. i - 1 \in 1..n
            BY <4>2
          <5>2. f[i] = f[i - 1] \o seqs[i]
            BY <1>2, <3>1, <4>2
          <5> QED
            BY <3>4, <4>2, <5>1, <5>2
        <4>3. CASE i = n + 1 /\ n = 0
          BY <3>2, <3>4, <4>3
        <4>4. CASE i = n + 1 /\ n # 0
          <5>1. n \in 1..n /\ i - 1 = n /\ i # 1
            BY <4>4
          <5>2. g[n] = f[n] /\ g[n + 1] = f[n] \o seqs[n + 1]
            BY <3>2, <3>4, <4>4, <5>1
          <5> QED
            BY <4>4, <5>1, <5>2
        <4>5. i \in 1..n \/ i = n + 1
          OBVIOUS
        <4> QED
          BY <4>1, <4>2, <4>3, <4>4, <4>5
      <3>6. Flat(g, n + 1)
        BY <3>4, <3>5
      <3> HIDE DEF Flat
      <3>7. n + 1 \in Nat
        OBVIOUS
      <3> QED
        BY <3>6, <3>7
    <2> HIDE DEF Some
    <2> QED
      BY <2>1, <2>2, SetInduction
  <1>4. PICK flatten : flatten = CHOOSE f : Flat(f, N)
    OBVIOUS
  <1>5. FlattenSeq(seqs) = IF N = 0 THEN seqs ELSE flatten[N]
    BY <1>4 DEF FlattenSeq
  <1> HIDE DEF Flat
  <1>6. Flat(flatten, N)
    BY <1>1, <1>3, <1>4
  <1> DEFINE Typed == {n \in Nat : n \in 1..N => flatten[n] \in Seq(S)}
  <1>7. \A n \in Nat : n \in Typed
    <2>1. 0 \in Typed
      OBVIOUS
    <2>2. ASSUME NEW n \in Nat, n \in Typed PROVE n + 1 \in Typed
      <3> SUFFICES ASSUME n + 1 \in 1..N PROVE flatten[n + 1] \in Seq(S)
        OBVIOUS
      <3>1. seqs[n + 1] \in Seq(S)
        BY <1>1
      <3>2. CASE n = 0
        <4>1. n + 1 = 1 /\ 1 \in 1..N
          BY <3>2
        <4>2. flatten[1] = seqs[1]
          BY <1>1, <1>2, <1>6, <4>1
        <4> QED
          BY <3>1, <4>1, <4>2
      <3>3. CASE n # 0
        <4>1. n \in 1..N /\ flatten[n] \in Seq(S)
          BY <1>1, <2>2, <3>3
        <4>2. n + 1 # 1 /\ (n + 1) - 1 = n
          BY <3>3
        <4>3. flatten[n + 1] = flatten[n] \o seqs[n + 1]
          BY <1>1, <1>2, <1>6, <4>2
        <4> QED
          BY <3>1, <4>1, <4>3
      <3> QED
        BY <3>2, <3>3
    <2> HIDE DEF Typed
    <2> QED
      BY <2>1, <2>2, SetInduction
  <1>8. CASE N = 0
    <2>1. FlattenSeq(seqs) = seqs
      BY <1>5, <1>8
    <2> PICK T : T = Seq(S)
      OBVIOUS
    <2>2. seqs \in Seq(T) /\ Len(seqs) = 0
      BY <1>8
    <2>3. seqs = <<>>
      BY <2>2
    <2> QED
      BY <2>1, <2>3
  <1>9. CASE N # 0
    <2>1. flatten[N] \in Seq(S)
      BY <1>1, <1>7, <1>9
    <2> QED
      BY <1>5, <1>9, <2>1
  <1> QED
    BY <1>8, <1>9

LEMMA DecodedText ==
    \A s \in STRING : \E x, y \in Text : decodeURIComponent(s) \in {<<x>>, <<x, y>>}
  <1> SUFFICES ASSUME NEW s \in STRING
               PROVE  \E x, y \in Text : decodeURIComponent(s) \in {<<x>>, <<x, y>>}
    OBVIOUS
  <1>1. decodeURIComponent(s) \in {<<"..">>, <<".">>, <<"a", "b">>, <<"a", "..">>, <<"", "a">>,
                                   <<"\\">>, <<s>>}
    BY DEF decodeURIComponent
  <1>2. /\ ".." \in Text /\ "." \in Text /\ "a" \in Text /\ "b" \in Text /\ "" \in Text
        /\ "\\" \in Text /\ s \in Text
    BY Zenon DEF Text
  <1> QED
    BY <1>1, <1>2, Zenon

LEMMA DecodedIsSequence == ASSUME NEW p \in Path PROVE Decoded(p) \in Seq(Text)
  <1>1. p.segs \in Seq(STRING)
    BY DEF Path
  <1>2. \A s \in STRING : decodeURIComponent(s) \in Seq(Text)
    <2>1. ASSUME NEW T, NEW x \in T, NEW y \in T PROVE <<x>> \in Seq(T) /\ <<x, y>> \in Seq(T)
      OBVIOUS
    <2> SUFFICES ASSUME NEW s \in STRING PROVE decodeURIComponent(s) \in Seq(Text)
      OBVIOUS
    <2>2. PICK x, y \in Text : decodeURIComponent(s) \in {<<x>>, <<x, y>>}
      BY DecodedText
    <2> QED
      BY <2>1, <2>2
  <1> PICK n : n = Len(p.segs)
    OBVIOUS
  <1> PICK d : d = [i \in DOMAIN p.segs |-> decodeURIComponent(p.segs[i])]
    OBVIOUS
  <1>3. d \in Seq(Seq(Text))
    <2>1. n \in Nat /\ DOMAIN p.segs = 1..n /\ \A i \in 1..n : p.segs[i] \in STRING
      BY <1>1
    <2>2. d \in [1..n -> Seq(Text)]
      BY <1>2, <2>1
    <2> QED
      BY <2>1, <2>2
  <1> QED
    BY <1>3, FlattenedIsSequence DEF Decoded

\* A path without "." and ".." opens as it is.
LEMMA NothingTakenOut ==
    ASSUME NEW segs \in Seq(Text), \A n \in DOMAIN segs : segs[n] # "." /\ segs[n] # ".."
    PROVE  Opened(segs) = segs
  <1> PICK N : N = Len(segs)
    OBVIOUS
  <1>1. N \in Nat /\ DOMAIN segs = 1..N
    OBVIOUS
  <1> DEFINE Opens(f) ==
        f = [n \in 0..N |-> IF n = 0 THEN <<>>
                            ELSE CASE segs[n] = ".." -> IF f[n - 1] = <<>> THEN <<>>
                                                                         ELSE Front(f[n - 1])
                                   [] segs[n] = "." -> f[n - 1]
                                   [] OTHER -> Append(f[n - 1], segs[n])]
  <1>2. ASSUME NEW n \in 1..N
        PROVE  SubSeq(segs, 1, n) = Append(SubSeq(segs, 1, n - 1), segs[n])
    <2> PICK s, t : s = SubSeq(segs, 1, n) /\ t = SubSeq(segs, 1, n - 1)
      OBVIOUS
    <2>1. /\ s \in Seq(Text) /\ Len(s) = n /\ \A i \in 1..n : s[i] = segs[i]
          /\ t \in Seq(Text) /\ Len(t) = n - 1 /\ \A i \in 1..(n - 1) : t[i] = segs[i]
      BY <1>1
    <2> QED
      BY <1>1, <2>1
  <1>3. SubSeq(segs, 1, 0) = <<>> /\ SubSeq(segs, 1, N) = segs
    BY <1>1
  <1>4. PICK g : Opens(g)
    <2> PICK g : g = [n \in 0..N |-> SubSeq(segs, 1, n)]
      OBVIOUS
    <2>1. /\ DOMAIN g = 0..N /\ g = [n \in 0..N |-> g[n]]
          /\ \A n \in 0..N : g[n] = SubSeq(segs, 1, n)
      OBVIOUS
    <2>2. ASSUME NEW n \in 1..N PROVE g[n] = Append(g[n - 1], segs[n])
      <3>1. n \in 0..N /\ n - 1 \in 0..N
        BY <1>1
      <3> QED
        BY <1>2, <2>1, <3>1
    <2>3. \A n \in 1..N : segs[n] # "." /\ segs[n] # ".."
      BY <1>1
    <2>4. ASSUME NEW n \in 0..N
          PROVE  g[n] = IF n = 0 THEN <<>>
                        ELSE CASE segs[n] = ".." -> IF g[n - 1] = <<>> THEN <<>>
                                                                       ELSE Front(g[n - 1])
                               [] segs[n] = "." -> g[n - 1]
                               [] OTHER -> Append(g[n - 1], segs[n])
      <3>1. CASE n = 0
        BY <1>1, <1>3, <2>1, <3>1
      <3>2. CASE n # 0
        <4>1. n \in 1..N
          BY <3>2
        <4> QED
          BY <2>2, <2>3, <3>2, <4>1
      <3> QED
        BY <3>1, <3>2
    <2>5. Opens(g)
      BY <2>1, <2>4
    <2> HIDE DEF Opens
    <2> QED
      BY <2>5
  <1>5. PICK opened : opened = CHOOSE f : Opens(f)
    OBVIOUS
  <1>6. Opens(opened)
    BY <1>4, <1>5
  <1> DEFINE Same == {n \in Nat : n <= N => opened[n] = SubSeq(segs, 1, n)}
  <1>7. \A n \in Nat : n \in Same
    <2>1. 0 \in Same
      BY <1>1, <1>3, <1>6
    <2>2. ASSUME NEW n \in Nat, n \in Same PROVE n + 1 \in Same
      <3> SUFFICES ASSUME n + 1 <= N PROVE opened[n + 1] = SubSeq(segs, 1, n + 1)
        OBVIOUS
      <3>1. n + 1 \in 1..N /\ n + 1 \in 0..N /\ n + 1 # 0 /\ (n + 1) - 1 = n
        BY <1>1
      <3>2. segs[n + 1] # "." /\ segs[n + 1] # ".."
        BY <1>1, <3>1
      <3>3. opened[n + 1] = Append(opened[n], segs[n + 1])
        BY <1>6, <3>1, <3>2
      <3>4. opened[n] = SubSeq(segs, 1, n)
        BY <1>1, <2>2
      <3> QED
        BY <1>2, <3>1, <3>3, <3>4
    <2> HIDE DEF Same
    <2> QED
      BY <2>1, <2>2, SetInduction
  <1>8. Opened(segs) = opened[N]
    BY <1>5 DEF Opened
  <1> QED
    BY <1>1, <1>3, <1>7, <1>8

LEMMA NormalizedOnHost ==
    ASSUME NEW p \in Paths, normalizeRelativePath(p) # NoPath
    PROVE  OnHost(normalizeRelativePath(p))
  <1>1. p \in Path
    BY PathAssumption
  <1>2. PICK q : q = [p EXCEPT !.query = IF @ = "empty" THEN "none" ELSE @]
    OBVIOUS
  <1>3. normalizeRelativePath(p) = q /\ OnHost(p)
    <2>1. Decoded(p) \in Seq(Text)
      BY <1>1, DecodedIsSequence
    <2> QED
      BY <1>2, <2>1 DEF normalizeRelativePath, OnHost
  <1>4. q.segs = p.segs
    BY <1>1, <1>2 DEF Path
  <1>5. Decoded(q) = Decoded(p)
    BY <1>4 DEF Decoded
  <1> QED
    BY <1>3, <1>5 DEF OnHost

LEMMA RowsKeepPaths ==
    ASSUME Inv, AcceptedOnHost, NEW i \in Ids, handoff[i].status = "PENDING", NEW row,
           handoff' = [handoff EXCEPT ![i] = row], row.path = handoff[i].path
    PROVE  AcceptedOnHost'
  BY DEF Inv, HandoffTypeOK, AcceptedOnHost

LEMMA NextOnHost == Inv /\ AcceptedOnHost /\ [HandoffNext]_handoffVars => AcceptedOnHost'
  <1> SUFFICES ASSUME Inv, AcceptedOnHost, [HandoffNext]_handoffVars PROVE AcceptedOnHost'
    OBVIOUS
  <1>1. CASE UNCHANGED handoff
    BY <1>1 DEF AcceptedOnHost
  <1>2. ASSUME NEW src \in Clients, NEW target \in Clients, CreateRequest(src, target)
        PROVE  AcceptedOnHost'
    <2>1. PICK i \in Ids, p \in Paths :
            /\ normalizeRelativePath(p) # NoPath
            /\ handoff' = [handoff EXCEPT ![i] =
                             [NoRow EXCEPT !.status = "PENDING", !.target = target,
                                           !.realm = AuthRealm[src], !.path = normalizeRelativePath(p),
                                           !.expires = clock + RequestTtl]]
      BY <1>2 DEF CreateRequest
    <2>2. PICK row : row = [NoRow EXCEPT !.status = "PENDING", !.target = target,
                                         !.realm = AuthRealm[src], !.path = normalizeRelativePath(p),
                                         !.expires = clock + RequestTtl]
      OBVIOUS
    <2>3. row.path = normalizeRelativePath(p)
      BY <2>2 DEF NoRow
    <2>4. handoff' = [handoff EXCEPT ![i] = row] /\ OnHost(row.path)
      BY <2>1, <2>2, <2>3, NormalizedOnHost
    <2> QED
      BY <2>4 DEF Inv, HandoffTypeOK, AcceptedOnHost
  <1>3. ASSUME NEW r \in Tabs, FindPending(r) \/ Cancel(r) \/ Complete(r) PROVE AcceptedOnHost'
    <2>1. CASE UNCHANGED handoff
      BY <1>1, <2>1
    <2>2. ASSUME NEW i \in Ids, NEW st, NEW s, handoff[i].status = "PENDING",
                 \/ handoff' = [handoff EXCEPT ![i].status = st]
                 \/ handoff' = [handoff EXCEPT ![i] = [@ EXCEPT !.status = st, !.sid = s]]
          PROVE  AcceptedOnHost'
      <3>1. handoff[i] \in Row
        BY DEF Inv, HandoffTypeOK
      <3>2. PICK row : /\ row \in {[handoff[i] EXCEPT !.status = st],
                                   [handoff[i] EXCEPT !.status = st, !.sid = s]}
                       /\ handoff' = [handoff EXCEPT ![i] = row]
        BY <2>2
      <3>3. row.path = handoff[i].path
        BY <3>1, <3>2 DEF Row
      <3> QED
        BY <2>2, <3>2, <3>3, RowsKeepPaths
    <2>3. CASE FindPending(r)
      BY <2>1, <2>2, <2>3 DEF FindPending
    <2>4. CASE Cancel(r)
      <3>1. tab[r].id \in Ids
        BY <2>4, Working DEF Cancel
      <3> QED
        BY <2>1, <2>2, <2>4, <3>1 DEF Cancel
    <2>5. CASE Complete(r)
      <3>1. tab[r].id \in Ids
        BY <2>5, Working DEF Complete
      <3> QED
        BY <2>1, <2>2, <2>5, <3>1 DEF Complete
    <2> QED
      BY <1>3, <2>3, <2>4, <2>5
  <1>4. ASSUME NEW r \in Tabs, TabStep(r), ~(FindPending(r) \/ Cancel(r) \/ Complete(r))
        PROVE  UNCHANGED handoff
    BY <1>4 DEF TabStep, FindTarget, ReadSession, Login, VerifyMfa, Upgrade, Continue, Deliver, SignJws,
       JoinTarget, PostAssertion, RequestDies
  <1> QED
    BY <1>1, <1>2, <1>3, <1>4 DEF HandoffNext, Configure, LogOut, TimePasses, handoffVars

\* Every path that was accepted opens inside the target, where it says: without "." and
\* ".." in its decoded segments, what opens is what it decodes to.
THEOREM PathsStayHome == HandoffSpec => []PathsStayInside
  <1>1. HandoffInit => AcceptedOnHost
    BY DEF HandoffInit, NoRow, AcceptedOnHost
  <1>2. HandoffSpec => []AcceptedOnHost
    BY <1>1, NextOnHost, Invariance, PTL DEF HandoffSpec
  <1>3. AcceptedOnHost => PathsStayInside
    <2> SUFFICES ASSUME AcceptedOnHost, NEW i \in Ids, handoff[i].status # "NONE"
                 PROVE  StaysInside(handoff[i].path)
      BY DEF PathsStayInside
    <2>1. OnHost(handoff[i].path)
      BY DEF AcceptedOnHost
    <2> PICK segs : segs = Decoded(handoff[i].path)
      OBVIOUS
    <2>2. /\ segs \in Seq(Text) /\ ~OtherHost(segs) /\ ~Scheme(segs)
          /\ \A n \in DOMAIN segs : segs[n] # "." /\ segs[n] # ".."
      BY <2>1 DEF OnHost, ToSet
    <2>3. Opened(segs) = segs
      BY <2>2, NothingTakenOut
    <2> QED
      BY <2>2, <2>3 DEF StaysInside
  <1> QED
    BY <1>2, <1>3, PTL
=============================================================================
