---------------------------- MODULE SignInProofs ----------------------------
(***************************************************************************)
(* Proofs about SignIn and Factors, for any requests, commands, limits and *)
(* ages.                                                                   *)
(***************************************************************************)
EXTENDS SignIn, Factors, FiniteSetTheorems, WellFoundedInduction, TLAPS

-----------------------------------------------------------------------------
(* SignIn: the second factor and the member's rows.                        *)

\* The moments at which a request has seen the member open, and eligible.
SawOpenAt == {"eligible", "success", "create", "verify", "upgrade", "finish"}
SawEligibleAt == {"success", "create", "verify", "upgrade", "finish"}

\* A request in progress: what the member's rows say now, it has seen; and the checks it
\* is past were so at some moment of it.
Seeing(v) ==
    /\ standing = "open" => visit[v].sawOpen
    /\ eligible => visit[v].sawEligible

Checked(v) ==
    /\ visit[v].pc \in {"lock", "compare"} => visit[v].barred \/ visit[v].sawOpen
    /\ visit[v].pc \in SawOpenAt => visit[v].sawOpen
    /\ visit[v].pc \in SawEligibleAt => visit[v].sawEligible

\* Only verifyMfa verifies and upgrades, and it finishes soon after it upgraded.
Upgrading(v) ==
    /\ visit[v].pc \in {"verify", "upgrade", "finish"} => visit[v].kind = "mfa"
    /\ visit[v].pc = "finish" =>
         visit[v].session.aal = 2 /\ clock <= visit[v].session.mfaAt + MaxStall

VisitInv(v) == visit[v].pc # "off" => Seeing(v) /\ Checked(v) /\ Upgrading(v)

\* The types, but for the lists of attempts and what is read off them.
SignInTyped ==
    /\ clock \in Nat
    /\ standing \in {"gone", "barred", "open"} /\ eligible \in BOOLEAN
    /\ core \in Session
    /\ visit \in [Visits -> Visit]
    /\ code \in Code

SignInInv ==
    /\ SignInTyped
    /\ \A v \in Visits : VisitInv(v)
    /\ AssuranceAsAsked
    /\ MemberWasAllowed

LEMMA SignInInitInv == SignInInit => SignInInv
  <1> SUFFICES ASSUME SignInInit PROVE SignInInv
    OBVIOUS
  <1>1. /\ clock = 1 /\ standing = "open" /\ eligible = TRUE /\ core = NoSession
        /\ visit = [v \in Visits |-> NoVisit] /\ code = NoCode
    BY DEF SignInInit
  <1>2. NoSession \in Session
    BY SignInLimits DEF Session, NoSession
  <1>3. NoVisit \in Visit /\ NoVisit.pc = "off"
    BY <1>2 DEF Visit, NoVisit, VisitPcs
  <1>4. NoCode \in Code /\ ~NoCode.given
    BY DEF Code, NoCode
  <1> QED
    BY <1>1, <1>2, <1>3, <1>4
    DEF SignInInv, SignInTyped, VisitInv, AssuranceAsAsked, MemberWasAllowed

\* A step that changes one request, and neither the member's rows nor the clock.
LEMMA OneVisit ==
    ASSUME SignInInv, NEW v \in Visits, NEW x \in Visit, visit' = [visit EXCEPT ![v] = x],
           UNCHANGED <<clock, standing, eligible>>,
           x.pc # "off" => (Seeing(v) /\ Checked(v) /\ Upgrading(v))',
           core' \in Session, code' \in Code,
           (AssuranceAsAsked /\ MemberWasAllowed)'
    PROVE  SignInInv'
  <1>1. visit \in [Visits -> Visit] /\ SignInTyped /\ \A w \in Visits : VisitInv(w)
    BY DEF SignInInv, SignInTyped
  <1>2. visit'[v] = x /\ visit' \in [Visits -> Visit]
    BY <1>1
  <1>3. ASSUME NEW w \in Visits, w # v PROVE VisitInv(w)'
    <2>1. visit'[w] = visit[w]
      BY <1>1, <1>3
    <2>2. VisitInv(w)
      BY <1>1
    <2> QED
      BY <2>1, <2>2 DEF VisitInv, Seeing, Checked, Upgrading
  <1>4. VisitInv(v)'
    BY <1>2 DEF VisitInv
  <1> QED
    BY <1>1, <1>2, <1>3, <1>4 DEF SignInInv, SignInTyped

\* A request moves on, and what it came with stays.
LEMMA Moves ==
    ASSUME SignInInv, NEW v \in Visits, visit[v].pc # "off", NEW pc \in VisitPcs, Onto(v, pc),
           pc \in {"lock", "compare"} => visit[v].barred \/ visit[v].sawOpen,
           pc \in SawOpenAt => visit[v].sawOpen,
           pc \in SawEligibleAt => visit[v].sawEligible,
           pc \in {"verify", "upgrade"} => visit[v].kind = "mfa", pc # "finish",
           UNCHANGED <<clock, standing, eligible, code>>, core' \in Session
    PROVE  SignInInv'
  <1>1. visit \in [Visits -> Visit] /\ SignInTyped /\ VisitInv(v)
    BY DEF SignInInv, SignInTyped
  <1> PICK o : o = visit[v]
    OBVIOUS
  <1> PICK x : x = [o EXCEPT !.pc = pc]
    OBVIOUS
  <1>2. /\ o \in Visit /\ x \in Visit /\ x.pc = pc /\ x.kind = o.kind /\ x.age = o.age
        /\ x.barred = o.barred /\ x.sawOpen = o.sawOpen /\ x.sawEligible = o.sawEligible
    BY <1>1 DEF Visit
  <1>3. visit' = [visit EXCEPT ![v] = x]
    BY <1>1 DEF Onto
  <1>4. visit'[v] = x
    BY <1>1, <1>3
  <1>5. (Seeing(v) /\ Checked(v) /\ Upgrading(v))'
    <2>1. Seeing(v)'
      BY <1>1, <1>2, <1>4 DEF VisitInv, Seeing
    <2>2. Checked(v)'
      BY <1>2, <1>4 DEF Checked
    <2>3. Upgrading(v)'
      BY <1>2, <1>4 DEF Upgrading
    <2> QED
      BY <2>1, <2>2, <2>3
  <1>6. code' \in Code /\ (AssuranceAsAsked /\ MemberWasAllowed)'
    BY <1>1 DEF SignInInv, SignInTyped, AssuranceAsAsked, MemberWasAllowed
  <1> QED
    BY <1>2, <1>3, <1>5, <1>6, OneVisit

\* A request is over without an answer.
LEMMA Leaves ==
    ASSUME SignInInv, NEW v \in Visits, Leave(v),
           UNCHANGED <<clock, standing, eligible, code>>, core' \in Session
    PROVE  SignInInv'
  <1>1. NoVisit \in Visit /\ NoVisit.pc = "off"
    BY SignInLimits DEF Visit, NoVisit, VisitPcs, Session, NoSession
  <1>2. code' \in Code /\ (AssuranceAsAsked /\ MemberWasAllowed)'
    BY DEF SignInInv, SignInTyped, AssuranceAsAsked, MemberWasAllowed
  <1> QED
    BY <1>1, <1>2, OneVisit DEF Leave

\* finish answers as asked: the second factor is fresh, or it was entered in this request.
LEMMA Answers ==
    ASSUME SignInInv, NEW v \in Visits, visit[v].pc # "off", NEW s \in Session, Answer(v, s),
           visit[v].asks => \/ Fresh(s, effectiveMaxAge(visit[v].age))
                            \/ /\ visit[v].kind = "mfa"
                               /\ s.aal = 2 /\ clock <= s.mfaAt + MaxStall,
           visit[v].sawOpen /\ visit[v].sawEligible,
           UNCHANGED <<clock, standing, eligible>>, core' \in Session
    PROVE  SignInInv'
  <1>1. visit \in [Visits -> Visit] /\ VisitInv(v) /\ clock \in Nat
    BY DEF SignInInv, SignInTyped
  <1> PICK o : o = visit[v]
    OBVIOUS
  <1>2. o \in Visit /\ o.age \in Nat /\ s.mfaAt \in Nat
    BY <1>1 DEF Visit, Session
  <1>3. PICK acr : acr = IF Fresh(s, MfaCap) THEN 2 ELSE 1
    OBVIOUS
  <1>4. code' = [given |-> TRUE, asks |-> o.asks, age |-> o.age, acr |-> acr,
                 mfaAt |-> s.mfaAt, at |-> clock, kind |-> o.kind,
                 sawOpen |-> o.sawOpen, sawEligible |-> o.sawEligible]
    BY <1>3 DEF Answer
  <1>5. code' \in Code
    BY <1>1, <1>2, <1>3, <1>4 DEF Code, Visit
  <1>6. o.asks => /\ acr = 2
                  /\ \/ o.kind = "mfa"
                     \/ /\ o.age > 0 => clock - s.mfaAt <= o.age
                        /\ clock - s.mfaAt <= MfaCap
    BY <1>1, <1>2, <1>3, SignInLimits, StallWithinCap DEF Fresh, effectiveMaxAge
  <1>7. AssuranceAsAsked'
    BY <1>4, <1>6 DEF AssuranceAsAsked
  <1>8. MemberWasAllowed'
    BY <1>4 DEF MemberWasAllowed
  <1>9. NoVisit \in Visit /\ NoVisit.pc = "off" /\ visit' = [visit EXCEPT ![v] = NoVisit]
    BY SignInLimits DEF Visit, NoVisit, VisitPcs, Session, NoSession, Answer, Leave
  <1> QED
    BY <1>5, <1>7, <1>8, <1>9, OneVisit

LEMMA AfterPrimaryInv ==
    ASSUME SignInInv, NEW v \in Visits, visit[v].pc # "off", NEW s \in Session,
           AfterPrimary(v, s), visit[v].sawOpen /\ visit[v].sawEligible,
           UNCHANGED <<clock, standing, eligible>>, core' \in Session
    PROVE  SignInInv'
  <1>1. CASE visit[v].asks /\ ~Fresh(s, effectiveMaxAge(visit[v].age))
    BY <1>1, Leaves DEF AfterPrimary
  <1>2. CASE ~(visit[v].asks /\ ~Fresh(s, effectiveMaxAge(visit[v].age)))
    BY <1>2, Answers DEF AfterPrimary
  <1> QED
    BY <1>1, <1>2

LEMMA TurnAwayInv ==
    ASSUME SignInInv, NEW v \in Visits, TurnAway(v), UNCHANGED <<clock, standing, eligible, code>>
    PROVE  SignInInv'
  <1>1. NoSession \in Session /\ core \in Session
    BY SignInLimits DEF Session, NoSession, SignInInv, SignInTyped
  <1>2. core' \in Session /\ Leave(v)
    BY <1>1 DEF TurnAway
  <1> QED
    BY <1>2, Leaves

LEMMA VisitSteps == ASSUME SignInInv, NEW v \in Visits, SignInStep(v) PROVE SignInInv'
  <1>1. /\ SignInTyped /\ clock \in Nat /\ core \in Session /\ visit \in [Visits -> Visit]
        /\ VisitInv(v) /\ visit[v] \in Visit
    BY DEF SignInInv, SignInTyped
  <1>2. CASE VisitBegin(v)
    <2>1. PICK kind \in {"show", "login", "mfa"}, asks \in BOOLEAN, age \in AskedAges \cup {0} :
            /\ kind # "login" => core.id # 0
            /\ ~asks => age = 0
            /\ visit' = [visit EXCEPT ![v] =
                           [pc |-> "account", kind |-> kind, asks |-> asks,
                            age |-> age,
                            session |-> IF kind = "login" THEN NoSession ELSE core,
                            barred |-> FALSE, sawOpen |-> standing = "open", sawEligible |-> eligible]]
      BY <1>2 DEF VisitBegin
    <2> PICK n, s, op :
          /\ n = age /\ s = IF kind = "login" THEN NoSession ELSE core
          /\ op = (standing = "open")
      OBVIOUS
    <2> PICK x : x = [pc |-> "account", kind |-> kind, asks |-> asks, age |-> n, session |-> s,
                      barred |-> FALSE, sawOpen |-> op, sawEligible |-> eligible]
      OBVIOUS
    <2>2. n \in Nat
      <3>1. AskedAges \subseteq Nat /\ 0 \in Nat
        BY SignInLimits
      <3>2. age \in Nat
        BY <3>1
      <3> QED
        BY <3>2
    <2>3. s \in Session
      BY <1>1, SignInLimits DEF Session, NoSession
    <2>4. op \in BOOLEAN /\ eligible \in BOOLEAN
      BY <1>1 DEF SignInTyped
    <2>5. x \in Visit
      BY <2>2, <2>3, <2>4 DEF Visit, VisitPcs
    <2>6. visit' = [visit EXCEPT ![v] = x] /\ visit'[v] = x
      BY <1>1, <2>1
    <2>7. /\ x.pc = "account" /\ x.age = n /\ x.sawOpen = op /\ x.sawEligible = eligible
      OBVIOUS
    <2>8. UNCHANGED <<clock, standing, eligible, core, code>>
      BY <1>2 DEF VisitBegin
    <2>9. (Seeing(v) /\ Checked(v) /\ Upgrading(v))'
      BY <2>2, <2>6, <2>7, <2>8 DEF Seeing, Checked, Upgrading, SawOpenAt, SawEligibleAt
    <2>10. core' \in Session /\ code' \in Code /\ (AssuranceAsAsked /\ MemberWasAllowed)'
      BY <1>1, <2>8 DEF SignInInv, SignInTyped, AssuranceAsAsked, MemberWasAllowed
    <2> QED
      BY <2>5, <2>6, <2>8, <2>9, <2>10, OneVisit
  <1>3. CASE FindLoginAccount(v)
    <2>1. visit[v].pc = "account" /\ UNCHANGED <<clock, standing, eligible, code>>
      BY <1>3 DEF FindLoginAccount
    <2>2. Seeing(v)
      BY <1>1, <2>1 DEF VisitInv
    <2>3. CASE visit[v].kind = "login" /\ standing # "gone"
      <3> PICK b : b = (standing = "barred")
        OBVIOUS
      <3> PICK o : o = visit[v]
        OBVIOUS
      <3> PICK x : x = [o EXCEPT !.pc = "lock", !.barred = b]
        OBVIOUS
      <3>1. /\ x \in Visit /\ x.pc = "lock" /\ x.barred = b /\ x.age = o.age
            /\ x.sawOpen = o.sawOpen /\ x.sawEligible = o.sawEligible
        BY <1>1 DEF Visit, VisitPcs
      <3>2. visit' = [visit EXCEPT ![v] = x] /\ UNCHANGED core
        BY <1>3, <2>3 DEF FindLoginAccount
      <3>3. visit'[v] = x
        BY <1>1, <3>2
      <3>4. b \/ o.sawOpen
        BY <1>1, <2>2, <2>3 DEF Seeing, SignInTyped
      <3>5. Seeing(v)'
        BY <2>1, <2>2, <3>1, <3>3 DEF Seeing
      <3>6. Checked(v)' /\ Upgrading(v)'
        BY <3>1, <3>3, <3>4 DEF Checked, Upgrading, SawOpenAt, SawEligibleAt
      <3>7. core' \in Session /\ code' \in Code /\ (AssuranceAsAsked /\ MemberWasAllowed)'
        BY <1>1, <2>1, <3>2 DEF SignInInv, SignInTyped, AssuranceAsAsked, MemberWasAllowed
      <3> QED
        BY <2>1, <3>1, <3>2, <3>5, <3>6, <3>7, OneVisit
    <2>4. CASE visit[v].kind # "login" /\ standing = "open"
      <3>1. Onto(v, "eligible") /\ UNCHANGED core
        BY <1>3, <2>4 DEF FindLoginAccount
      <3>2. visit[v].sawOpen
        BY <2>2, <2>4 DEF Seeing
      <3> QED
        BY <1>1, <2>1, <3>1, <3>2, Moves DEF VisitPcs, SawEligibleAt
    <2>5. CASE /\ ~(visit[v].kind = "login" /\ standing # "gone")
               /\ ~(visit[v].kind # "login" /\ standing = "open")
      <3>1. TurnAway(v)
        BY <1>3, <2>5 DEF FindLoginAccount
      <3> QED
        BY <2>1, <3>1, TurnAwayInv
    <2> QED
      BY <2>3, <2>4, <2>5
  <1>4. CASE CheckEligible(v)
    <2>1. visit[v].pc = "eligible" /\ UNCHANGED <<clock, standing, eligible>>
      BY <1>4 DEF CheckEligible
    <2>2. Seeing(v) /\ visit[v].sawOpen
      BY <1>1, <2>1 DEF VisitInv, Checked, SawOpenAt
    <2>3. CASE ~eligible
      <3>1. TurnAway(v) /\ UNCHANGED code
        BY <1>4, <2>3 DEF CheckEligible
      <3> QED
        BY <2>1, <3>1, TurnAwayInv
    <2>4. CASE eligible /\ visit[v].kind = "login"
      <3>1. Onto(v, "success") /\ UNCHANGED <<core, code>>
        BY <1>4, <2>4 DEF CheckEligible
      <3>2. visit[v].sawEligible
        BY <2>2, <2>4 DEF Seeing
      <3> QED
        BY <1>1, <2>1, <2>2, <3>1, <3>2, Moves DEF VisitPcs
    <2>5. CASE eligible /\ visit[v].kind = "mfa"
      <3>1. Onto(v, "verify") /\ UNCHANGED <<core, code>>
        BY <1>4, <2>5 DEF CheckEligible
      <3>2. visit[v].sawEligible
        BY <2>2, <2>5 DEF Seeing
      <3> QED
        BY <1>1, <2>1, <2>2, <2>5, <3>1, <3>2, Moves DEF VisitPcs
    <2>6. CASE eligible /\ visit[v].kind # "login" /\ visit[v].kind # "mfa"
      <3>1. AfterPrimary(v, visit[v].session) /\ UNCHANGED core
        BY <1>4, <2>6 DEF CheckEligible
      <3>2. visit[v].sawEligible /\ visit[v].session \in Session
        BY <1>1, <2>2, <2>6 DEF Seeing, Visit
      <3> QED
        BY <1>1, <2>1, <2>2, <3>1, <3>2, AfterPrimaryInv
    <2> QED
      BY <2>3, <2>4, <2>5, <2>6
  <1>5. CASE ReadFailures(v)
    <2>1. visit[v].pc = "lock" /\ UNCHANGED <<clock, standing, eligible, core, code>>
      BY <1>5 DEF ReadFailures
    <2>2. visit[v].barred \/ visit[v].sawOpen
      BY <1>1, <2>1 DEF VisitInv, Checked
    <2>3. Leave(v) \/ Onto(v, "compare")
      BY <1>5 DEF ReadFailures
    <2>4. CASE Leave(v)
      BY <1>1, <2>1, <2>4, Leaves
    <2>5. CASE Onto(v, "compare")
      BY <1>1, <2>1, <2>2, <2>5, Moves DEF VisitPcs, SawOpenAt, SawEligibleAt
    <2> QED
      BY <2>3, <2>4, <2>5
  <1>6. CASE Compare(v)
    <2>1. visit[v].pc = "compare" /\ UNCHANGED <<clock, standing, eligible, core, code>>
      BY <1>6 DEF Compare
    <2>2. visit[v].barred \/ visit[v].sawOpen
      BY <1>1, <2>1 DEF VisitInv, Checked
    <2>3. \/ Onto(v, "wrong")
          \/ Leave(v)
          \/ ~visit[v].barred /\ Onto(v, "eligible")
      BY <1>6 DEF Compare
    <2>4. CASE Onto(v, "wrong")
      BY <1>1, <2>1, <2>4, Moves DEF VisitPcs, SawOpenAt, SawEligibleAt
    <2>5. CASE Leave(v)
      BY <1>1, <2>1, <2>5, Leaves
    <2>6. CASE ~visit[v].barred /\ Onto(v, "eligible")
      BY <1>1, <2>1, <2>2, <2>6, Moves DEF VisitPcs, SawEligibleAt
    <2> QED
      BY <2>3, <2>4, <2>5, <2>6
  <1>7. CASE RecordWrong(v)
    BY <1>1, <1>7, Leaves DEF RecordWrong
  <1>8. CASE RecordSuccess(v)
    <2>1. /\ visit[v].pc = "success" /\ Onto(v, "create")
          /\ UNCHANGED <<clock, standing, eligible, core, code>>
      BY <1>8 DEF RecordSuccess
    <2>2. visit[v].sawOpen /\ visit[v].sawEligible
      BY <1>1, <2>1 DEF VisitInv, Checked, SawOpenAt, SawEligibleAt
    <2> QED
      BY <1>1, <2>1, <2>2, Moves DEF VisitPcs
  <1>9. CASE SignedIn(v)
    <2> PICK s : s = [id |-> core.id + 1, aal |-> 1, mfaAt |-> 0]
      OBVIOUS
    <2>1. /\ visit[v].pc = "create" /\ core.id < MaxSessions /\ core' = s /\ AfterPrimary(v, s)
          /\ UNCHANGED <<clock, standing, eligible>>
      BY <1>9 DEF SignedIn
    <2>2. core.id + 1 \in 0..MaxSessions
      BY <1>1, <2>1, SignInLimits DEF Session
    <2>3. s \in Session
      BY <2>2 DEF Session
    <2>4. visit[v].sawOpen /\ visit[v].sawEligible
      BY <1>1, <2>1 DEF VisitInv, Checked, SawOpenAt, SawEligibleAt
    <2> QED
      BY <2>1, <2>3, <2>4, AfterPrimaryInv
  <1>10. CASE VerifyCode(v)
    <2>1. /\ visit[v].pc = "verify" /\ (Onto(v, "upgrade") \/ Leave(v))
          /\ UNCHANGED <<clock, standing, eligible, core, code>>
      BY <1>10 DEF VerifyCode
    <2>2. visit[v].sawOpen /\ visit[v].sawEligible /\ visit[v].kind = "mfa"
      BY <1>1, <2>1 DEF VisitInv, Checked, Upgrading, SawOpenAt, SawEligibleAt
    <2>3. CASE Onto(v, "upgrade")
      BY <1>1, <2>1, <2>2, <2>3, Moves DEF VisitPcs
    <2>4. CASE Leave(v)
      BY <1>1, <2>1, <2>4, Leaves
    <2> QED
      BY <2>1, <2>3, <2>4
  <1>11. CASE UpgradeSession(v)
    <2> PICK s : s = visit[v].session
      OBVIOUS
    <2>u. PICK up : up = [s EXCEPT !.aal = 2, !.mfaAt = clock]
      OBVIOUS
    <2>1. s \in Session /\ up \in Session /\ up.aal = 2 /\ up.mfaAt = clock
      BY <1>1, <2>u DEF Visit, Session
    <2>2. visit[v].pc = "upgrade" /\ UNCHANGED <<clock, standing, eligible, code>>
      BY <1>11 DEF UpgradeSession
    <2>3. \/ /\ visit' = [visit EXCEPT ![v].pc = "finish", ![v].session = up]
             /\ core' = IF core.id = s.id THEN up ELSE core
          \/ Leave(v) /\ UNCHANGED core
      BY <1>11, <2>u DEF UpgradeSession
    <2>4. CASE Leave(v) /\ UNCHANGED core
      BY <1>1, <2>2, <2>4, Leaves
    <2>5. CASE /\ visit' = [visit EXCEPT ![v].pc = "finish", ![v].session = up]
               /\ core' = IF core.id = s.id THEN up ELSE core
      <3> PICK o : o = visit[v]
        OBVIOUS
      <3>x. PICK x : x = [o EXCEPT !.pc = "finish", !.session = up]
        OBVIOUS
      <3>1. /\ x \in Visit /\ x.pc = "finish" /\ x.session = up /\ x.age = o.age /\ x.kind = o.kind
            /\ x.sawOpen = o.sawOpen /\ x.sawEligible = o.sawEligible
        BY <1>1, <2>1, <3>x DEF Visit, VisitPcs
      <3>2. visit' = [visit EXCEPT ![v] = x]
        BY <1>1, <2>5, <3>x
      <3>3. visit'[v] = x
        BY <1>1, <3>2
      <3>4. o.sawOpen /\ o.sawEligible /\ o.kind = "mfa" /\ Seeing(v)
        BY <1>1, <2>2 DEF VisitInv, Checked, Upgrading, SawOpenAt, SawEligibleAt
      <3>5. Seeing(v)'
        BY <2>2, <3>1, <3>3, <3>4 DEF Seeing
      <3>6. Checked(v)'
        BY <3>1, <3>3, <3>4 DEF Checked
      <3>7. up.aal = 2 /\ clock' <= up.mfaAt + MaxStall
        BY <1>1, <2>1, <2>2, SignInLimits
      <3>8. Upgrading(v)'
        BY <3>1, <3>3, <3>4, <3>7 DEF Upgrading
      <3>9. core' \in Session /\ code' \in Code /\ (AssuranceAsAsked /\ MemberWasAllowed)'
        BY <1>1, <2>1, <2>2, <2>5 DEF SignInInv, SignInTyped, AssuranceAsAsked, MemberWasAllowed
      <3> QED
        BY <2>2, <3>1, <3>2, <3>5, <3>6, <3>8, <3>9, OneVisit
    <2> QED
      BY <2>3, <2>4, <2>5
  <1>12. CASE Finish(v)
    <2>1. /\ visit[v].pc = "finish" /\ Answer(v, visit[v].session)
          /\ UNCHANGED <<clock, standing, eligible, core>>
      BY <1>12 DEF Finish
    <2>2. /\ visit[v].sawOpen /\ visit[v].sawEligible /\ visit[v].kind = "mfa"
          /\ visit[v].session.aal = 2 /\ clock <= visit[v].session.mfaAt + MaxStall
          /\ visit[v].session \in Session
      BY <1>1, <2>1 DEF VisitInv, Checked, Upgrading, SawOpenAt, SawEligibleAt, Visit
    <2> QED
      BY <1>1, <2>1, <2>2, Answers
  <1>13. CASE VisitDies(v)
    BY <1>1, <1>13, Leaves DEF VisitDies
  <1> QED
    BY <1>2, <1>3, <1>4, <1>5, <1>6, <1>7, <1>8, <1>9, <1>10, <1>11, <1>12, <1>13 DEF SignInStep

LEMMA SyncInv == SignInInv /\ Sync => SignInInv'
  <1> SUFFICES ASSUME SignInInv, Sync PROVE SignInInv'
    OBVIOUS
  <1>1. /\ SignInTyped /\ visit \in [Visits -> Visit] /\ \A v \in Visits : VisitInv(v)
        /\ standing \in {"gone", "barred", "open"} /\ eligible \in BOOLEAN
    BY DEF SignInInv, SignInTyped
  <1>2. standing' \in {"gone", "barred", "open"} /\ eligible' \in BOOLEAN
    BY <1>1 DEF Sync
  <1>3. UNCHANGED <<clock, core, code>>
    BY DEF Sync
  <1>4. ASSUME NEW v \in Visits PROVE visit'[v] \in Visit /\ VisitInv(v)'
    <2> PICK o, x : o = visit[v] /\ x = visit'[v]
      OBVIOUS
    <2>1. CASE o.pc = "off"
      <3>1. x = o
        BY <2>1 DEF Sync
      <3> QED
        BY <1>1, <2>1, <3>1 DEF VisitInv
    <2>2. CASE o.pc # "off"
      <3> PICK op, el : op = (standing' = "open") /\ el = eligible'
        OBVIOUS
      <3>1. x = [o EXCEPT !.sawOpen = @ \/ op, !.sawEligible = @ \/ el]
        BY <2>2 DEF Sync
      <3>2. o \in Visit /\ op \in BOOLEAN /\ el \in BOOLEAN
        BY <1>1, <1>2
      <3> PICK so, se : so = (o.sawOpen \/ op) /\ se = (o.sawEligible \/ el)
        OBVIOUS
      <3>3. x = [o EXCEPT !.sawOpen = so, !.sawEligible = se]
        BY <3>1
      <3>4. so \in BOOLEAN /\ se \in BOOLEAN
        OBVIOUS
      <3>5. /\ x \in Visit /\ x.pc = o.pc /\ x.age = o.age /\ x.kind = o.kind
            /\ x.session = o.session /\ x.barred = o.barred
            /\ x.sawOpen = so /\ x.sawEligible = se
        BY <3>2, <3>3, <3>4 DEF Visit
      <3>6. Seeing(v) /\ Checked(v) /\ Upgrading(v)
        BY <1>1, <2>2 DEF VisitInv
      <3>7. Seeing(v)'
        BY <3>5, <3>6 DEF Seeing
      <3>8. Checked(v)'
        BY <3>5, <3>6 DEF Checked
      <3>9. Upgrading(v)'
        BY <1>3, <3>5, <3>6 DEF Upgrading
      <3> QED
        BY <3>5, <3>7, <3>8, <3>9 DEF VisitInv
    <2> QED
      BY <2>1, <2>2
  <1>5. visit' \in [Visits -> Visit]
    <2>1. DOMAIN visit' = Visits /\ visit' = [v \in Visits |-> visit'[v]]
      BY DEF Sync
    <2> QED
      BY <1>4, <2>1
  <1> QED
    BY <1>1, <1>2, <1>3, <1>4, <1>5
    DEF SignInInv, SignInTyped, AssuranceAsAsked, MemberWasAllowed

LEMMA TimeInv == SignInInv /\ TimePasses => SignInInv'
  <1> SUFFICES ASSUME SignInInv, TimePasses PROVE SignInInv'
    OBVIOUS
  <1>1. /\ SignInTyped /\ clock \in Nat /\ visit \in [Visits -> Visit]
        /\ clock' = clock + 1 /\ UNCHANGED <<standing, eligible, core, visit, code>>
    BY DEF SignInInv, SignInTyped, TimePasses
  <1>2. ASSUME NEW v \in Visits PROVE VisitInv(v)'
    <2>1. ASSUME visit[v].pc = "finish"
          PROVE  clock + 1 <= visit[v].session.mfaAt + MaxStall
      <3>1. clock < visit[v].session.mfaAt + MaxStall /\ visit[v].session.mfaAt \in Nat
        BY <1>1, <2>1 DEF TimePasses, Visit, Session
      <3> QED
        BY <1>1, <3>1, SignInLimits
    <2>2. VisitInv(v)
      BY DEF SignInInv
    <2> QED
      BY <1>1, <2>1, <2>2 DEF VisitInv, Seeing, Checked, Upgrading
  <1> QED
    BY <1>1, <1>2 DEF SignInInv, SignInTyped, AssuranceAsAsked, MemberWasAllowed

LEMMA SignInNextInv == SignInInv /\ [SignInNext]_signInVars => SignInInv'
  <1> SUFFICES ASSUME SignInInv, [SignInNext]_signInVars PROVE SignInInv'
    OBVIOUS
  <1>1. CASE UNCHANGED signInVars
    BY <1>1 DEF signInVars, SignInInv, SignInTyped, VisitInv, Seeing, Checked, Upgrading,
                AssuranceAsAsked, MemberWasAllowed
  <1> QED
    BY <1>1, VisitSteps, SyncInv, TimeInv DEF SignInNext

\* What a visit read and verified holds of the session and the member it will answer for.
THEOREM SignInInvariance == SignInSpec => []SignInInv
  BY SignInInitInv, SignInNextInv, PTL DEF SignInSpec

\* A client that asks for AAL2 gets it, with a second factor as fresh as it asked or entered
\* in this very request: what afterPrimary and finish ask of isFresh never disagrees.
THEOREM AssuranceIsGiven == SignInSpec => []AssuranceAsAsked
  BY SignInInvariance, PTL DEF SignInInv

\* No client is answered for a member who was not both active and allowed, and eligible, at
\* some moment of the request, however the sync service changes the rows meanwhile.
THEOREM MembersAreAllowed == SignInSpec => []MemberWasAllowed
  BY SignInInvariance, PTL DEF SignInInv

-----------------------------------------------------------------------------
(* SignIn: the lockout.                                                    *)

\* The rows after a moment.
After(rows, t) == {i \in DOMAIN rows : rows[i] > t}

\* The requests that compared a wrong password and have not written it; these, and those
\* that are about to compare one.
Writing == {v \in Visits : visit[v].pc = "wrong"}
PastLock == {v \in Visits : visit[v].pc \in {"compare", "wrong"}}

LockTyped ==
    /\ \A rows \in {wrongs, guesses, lost} :
         rows \in Seq(Nat) /\ \A i \in DOMAIN rows : rows[i] <= clock
    /\ told \in Nat

\* Since any moment, what was guessed was written, was lost, or is about to be either.
Matched ==
    \A t \in Int :
      Cardinality(After(guesses, t))
        <= Cardinality(After(wrongs, t)) + Cardinality(After(lost, t)) + Cardinality(Writing)

\* The failures that count, and the requests past the lockout.
Bounded ==
    Cardinality(recentFailures(wrongs, clock)) + Cardinality(PastLock)
      < MaxFailures + Cardinality(Visits)

\* The wait was told for the last of the failures there are, up to half a second.
ToldInv == told # 0 => \A i \in DOMAIN wrongs : 2 * (wrongs[i] + LockTime) <= 2 * told + Second

LockInv == LockTyped /\ Matched /\ Bounded /\ ToldInv

\* Induction over a set of numbers: it has a least element.
LEMMA LeastNumber ==
    ASSUME NEW T, T \subseteq Nat, T # {}
    PROVE  \E m \in T : \A k \in T : m <= k
  <1> DEFINE R == {ss \in Nat \X Nat : ss[1] < ss[2]}
  <1>1. IsWellFoundedOn(R, Nat)
    BY NatLessThanWellFounded DEF OpToRel
  <1> HIDE DEF R
  <1>2. PICK m \in T : \A k \in T : <<k, m>> \notin R
    BY <1>1, WFMin
  <1>3. \A k \in T : ~(k < m)
    BY <1>2 DEF R
  <1>4. \A k \in T : m <= k
    BY <1>3
  <1> QED
    BY <1>4

LEMMA MaxOfBounded ==
    ASSUME NEW S, S \subseteq Nat, S # {}, NEW n \in Nat, \A x \in S : x <= n
    PROVE  Max(S) \in S /\ \A x \in S : x <= Max(S)
  <1> DEFINE T == {k \in Nat : \A x \in S : x <= k}
  <1>1. T \subseteq Nat /\ n \in T
    OBVIOUS
  <1>2. PICK m \in T : \A k \in T : m <= k
    BY <1>1, LeastNumber
  <1>3. m \in S
    <2> SUFFICES ASSUME m \notin S PROVE FALSE
      OBVIOUS
    <2>1. \A x \in S : x < m
      BY <1>2
    <2>2. m - 1 \in Nat /\ \A x \in S : x <= m - 1
      <3>1. PICK x \in S : x < m
        BY <2>1
      <3>2. x \in Nat /\ m \in Nat
        OBVIOUS
      <3> QED
        BY <2>1, <3>1, <3>2
    <2>3. m - 1 \in T
      BY <2>2
    <2> QED
      BY <1>2, <2>2, <2>3
  <1>4. \A x \in S : m >= x
    BY <1>2
  <1> QED
    BY <1>3, <1>4 DEF Max

LEMMA AfterIsFinite ==
    ASSUME NEW rows \in Seq(Nat), NEW t \in Int
    PROVE  IsFiniteSet(After(rows, t)) /\ Cardinality(After(rows, t)) \in Nat
  <1>1. DOMAIN rows = 1..Len(rows) /\ Len(rows) \in Nat
    OBVIOUS
  <1>2. IsFiniteSet(1..Len(rows))
    BY <1>1, FS_Interval
  <1>3. IsFiniteSet(After(rows, t))
    BY <1>1, <1>2, FS_Subset DEF After
  <1> QED
    BY <1>3, FS_CardinalityType

\* One more row counts from the moments before it.
LEMMA AfterAppend ==
    ASSUME NEW rows \in Seq(Nat), NEW at \in Nat, NEW t \in Int
    PROVE  /\ Append(rows, at) \in Seq(Nat)
           /\ Cardinality(After(Append(rows, at), t)) =
                Cardinality(After(rows, t)) + IF at > t THEN 1 ELSE 0
  <1> PICK n, more : n = Len(rows) /\ more = Append(rows, at)
    OBVIOUS
  <1>1. /\ n \in Nat /\ DOMAIN rows = 1..n /\ more \in Seq(Nat) /\ DOMAIN more = 1..(n + 1)
        /\ more[n + 1] = at /\ \A i \in 1..n : more[i] = rows[i]
    OBVIOUS
  <1>2. IsFiniteSet(After(rows, t)) /\ Cardinality(After(rows, t)) \in Nat
    BY AfterIsFinite
  <1>3. n + 1 \notin After(rows, t)
    BY <1>1 DEF After
  <1>4. CASE at > t
    <2>1. After(more, t) = After(rows, t) \cup {n + 1}
      BY <1>1, <1>4 DEF After
    <2> QED
      BY <1>1, <1>2, <1>3, <1>4, <2>1, FS_AddElement
  <1>5. CASE ~(at > t)
    <2>1. After(more, t) = After(rows, t)
      BY <1>1, <1>5 DEF After
    <2> QED
      BY <1>1, <1>2, <1>5, <2>1
  <1> QED
    BY <1>4, <1>5

LEMMA RequestsAreFinite ==
    /\ IsFiniteSet(Writing) /\ Cardinality(Writing) \in Nat
    /\ IsFiniteSet(PastLock) /\ Cardinality(PastLock) \in Nat
    /\ Cardinality(Visits) \in Nat
    /\ Cardinality(PastLock) <= Cardinality(Visits)
    /\ Cardinality(Writing) <= Cardinality(Visits)
  <1>1. Writing \subseteq Visits /\ PastLock \subseteq Visits
    BY DEF Writing, PastLock
  <1> QED
    BY <1>1, VisitsAssumption, FS_Subset, FS_CardinalityType

\* A step of one request changes these sets by that request.
LEMMA OneRequest ==
    ASSUME visit \in [Visits -> Visit], NEW v \in Visits, NEW x, visit' = [visit EXCEPT ![v] = x]
    PROVE  /\ Writing' = IF x.pc = "wrong" THEN Writing \cup {v} ELSE Writing \ {v}
           /\ PastLock' = IF x.pc \in {"compare", "wrong"} THEN PastLock \cup {v}
                                                           ELSE PastLock \ {v}
  <1>1. visit'[v] = x /\ \A w \in Visits \ {v} : visit'[w] = visit[w]
    OBVIOUS
  <1> QED
    BY <1>1 DEF Writing, PastLock

LEMMA LeaveOrOnto ==
    ASSUME visit \in [Visits -> Visit], NEW v \in Visits
    PROVE  /\ Leave(v) => Writing' = Writing \ {v} /\ PastLock' = PastLock \ {v}
           /\ \A pc \in VisitPcs : Onto(v, pc) =>
                /\ Writing' = IF pc = "wrong" THEN Writing \cup {v} ELSE Writing \ {v}
                /\ PastLock' = IF pc \in {"compare", "wrong"} THEN PastLock \cup {v}
                                                              ELSE PastLock \ {v}
  <1>1. NoVisit.pc = "off"
    BY DEF NoVisit
  <1>2. ASSUME NEW pc \in VisitPcs, Onto(v, pc)
        PROVE  \E x : visit' = [visit EXCEPT ![v] = x] /\ x.pc = pc
    <2>1. PICK x : x = [visit[v] EXCEPT !.pc = pc]
      OBVIOUS
    <2>2. x.pc = pc
      BY <2>1 DEF Visit
    <2>3. visit' = [visit EXCEPT ![v] = x]
      BY <1>2, <2>1 DEF Onto
    <2> QED
      BY <2>2, <2>3
  <1>3. ASSUME NEW pc \in VisitPcs, Onto(v, pc)
        PROVE  /\ Writing' = IF pc = "wrong" THEN Writing \cup {v} ELSE Writing \ {v}
               /\ PastLock' = IF pc \in {"compare", "wrong"} THEN PastLock \cup {v}
                                                             ELSE PastLock \ {v}
    <2>1. PICK x : visit' = [visit EXCEPT ![v] = x] /\ x.pc = pc
      BY <1>2, <1>3
    <2> QED
      BY <2>1, OneRequest
  <1>4. Leave(v) => Writing' = Writing \ {v} /\ PastLock' = PastLock \ {v}
    BY <1>1, OneRequest DEF Leave
  <1> QED
    BY <1>3, <1>4

\* Nothing is attempted; the clock may go on, and requests may leave.
LEMMA LockQuiet ==
    ASSUME SignInInv, LockInv, UNCHANGED <<wrongs, guesses, lost, told>>,
           clock' \in Nat, clock <= clock',
           Writing' = Writing, PastLock' \subseteq PastLock
    PROVE  LockInv'
  <1>1. LockTyped /\ Matched /\ Bounded /\ ToldInv /\ clock \in Nat
    BY DEF LockInv, SignInInv, SignInTyped
  <1>2. LockTyped'
    BY <1>1 DEF LockTyped
  <1>3. Matched'
    BY <1>1 DEF Matched
  <1>4. Bounded'
    <2>1. wrongs \in Seq(Nat) /\ clock - LockTime \in Int
      BY <1>1, SignInLimits DEF LockTyped
    <2>2. recentFailures(wrongs, clock) = After(wrongs, clock - LockTime)
      BY DEF recentFailures, After
    <2>3. recentFailures(wrongs', clock') \subseteq recentFailures(wrongs, clock)
      BY <1>1, <2>1, SignInLimits DEF recentFailures
    <2>4. /\ Cardinality(recentFailures(wrongs', clock')) <= Cardinality(recentFailures(wrongs, clock))
          /\ IsFiniteSet(recentFailures(wrongs', clock'))
          /\ Cardinality(recentFailures(wrongs, clock)) \in Nat
      BY <2>1, <2>2, <2>3, AfterIsFinite, FS_Subset
    <2>5. /\ Cardinality(PastLock') <= Cardinality(PastLock) /\ IsFiniteSet(PastLock')
          /\ Cardinality(PastLock) \in Nat /\ Cardinality(Visits) \in Nat
      BY RequestsAreFinite, FS_Subset
    <2>6. /\ Cardinality(recentFailures(wrongs', clock')) \in Nat
          /\ Cardinality(PastLock') \in Nat
      BY <2>4, <2>5, FS_CardinalityType
    <2> QED
      BY <1>1, <2>4, <2>5, <2>6, SignInLimits DEF Bounded
  <1>5. ToldInv'
    BY <1>1 DEF ToldInv
  <1> QED
    BY <1>2, <1>3, <1>4, <1>5 DEF LockInv

\* An attempt that was compared is written, or is lost.
LEMMA AttemptEnds ==
    ASSUME SignInInv, LockInv, NEW v \in Writing, UNCHANGED <<clock, guesses>>,
           \/ wrongs' = Append(wrongs, clock) /\ told' = 0 /\ UNCHANGED lost
           \/ lost' = Append(lost, clock) /\ UNCHANGED <<wrongs, told>>,
           Writing' = Writing \ {v}, PastLock' = PastLock \ {v}
    PROVE  LockInv'
  <1>1. LockTyped /\ Matched /\ Bounded /\ ToldInv /\ clock \in Nat
    BY DEF LockInv, SignInInv, SignInTyped
  <1>2. /\ wrongs \in Seq(Nat) /\ guesses \in Seq(Nat) /\ lost \in Seq(Nat)
        /\ \A i \in DOMAIN guesses : guesses[i] <= clock
    BY <1>1 DEF LockTyped
  <1>3. LockTyped'
    <2>1. ASSUME NEW rows \in Seq(Nat), \A i \in DOMAIN rows : rows[i] <= clock
          PROVE  /\ Append(rows, clock) \in Seq(Nat)
                 /\ \A i \in DOMAIN Append(rows, clock) : Append(rows, clock)[i] <= clock
      BY <1>1, <2>1
    <2>2. \A rows \in {wrongs, guesses, lost} :
            rows \in Seq(Nat) /\ \A i \in DOMAIN rows : rows[i] <= clock
      BY <1>1 DEF LockTyped
    <2>3. \A rows \in {wrongs', guesses', lost'} :
            rows \in {wrongs, guesses, lost} \/ rows \in {Append(wrongs, clock), Append(lost, clock)}
      OBVIOUS
    <2>4. \A rows \in {wrongs', guesses', lost'} :
            rows \in Seq(Nat) /\ \A i \in DOMAIN rows : rows[i] <= clock
      BY <2>1, <2>2, <2>3
    <2>5. told' \in Nat
      BY <1>1 DEF LockTyped
    <2> QED
      BY <2>4, <2>5 DEF LockTyped
  <1>4. /\ Cardinality(Writing') = Cardinality(Writing) - 1 /\ Cardinality(Writing) \in Nat
        /\ Cardinality(PastLock') = Cardinality(PastLock) - 1 /\ Cardinality(PastLock) \in Nat
        /\ Cardinality(Visits) \in Nat
    <2>1. v \in PastLock
      BY DEF Writing, PastLock
    <2> QED
      BY <2>1, RequestsAreFinite, FS_RemoveElement
  <1>5. Matched'
    <2> SUFFICES ASSUME NEW t \in Int
                 PROVE  Cardinality(After(guesses', t))
                          <= Cardinality(After(wrongs', t)) + Cardinality(After(lost', t))
                               + Cardinality(Writing')
      BY DEF Matched
    <2>1. /\ Cardinality(After(wrongs, t)) \in Nat /\ Cardinality(After(lost, t)) \in Nat
          /\ Cardinality(After(guesses, t)) \in Nat
      BY <1>2, AfterIsFinite
    <2>2. Cardinality(After(guesses, t))
            <= Cardinality(After(wrongs, t)) + Cardinality(After(lost, t)) + Cardinality(Writing)
      BY <1>1 DEF Matched
    <2>3. Cardinality(After(wrongs', t)) + Cardinality(After(lost', t))
            = Cardinality(After(wrongs, t)) + Cardinality(After(lost, t)) + IF clock > t THEN 1 ELSE 0
      <3>1. CASE wrongs' = Append(wrongs, clock) /\ UNCHANGED lost
        <4>1. Cardinality(After(wrongs', t))
                = Cardinality(After(wrongs, t)) + IF clock > t THEN 1 ELSE 0
          BY <1>1, <1>2, <3>1, AfterAppend
        <4> QED
          BY <2>1, <3>1, <4>1
      <3>2. CASE lost' = Append(lost, clock) /\ UNCHANGED wrongs
        <4>1. Cardinality(After(lost', t))
                = Cardinality(After(lost, t)) + IF clock > t THEN 1 ELSE 0
          BY <1>1, <1>2, <3>2, AfterAppend
        <4> QED
          BY <2>1, <3>2, <4>1
      <3> QED
        BY <3>1, <3>2
    <2>4. CASE clock > t
      BY <1>4, <2>1, <2>2, <2>3, <2>4
    <2>5. CASE ~(clock > t)
      <3>1. After(guesses, t) = {}
        BY <1>1, <1>2, <2>5 DEF After
      <3>2. Cardinality(After(guesses', t)) = 0
        BY <3>1, FS_EmptySet
      <3>3. Cardinality(Writing') \in Nat
        BY RequestsAreFinite, FS_RemoveElement, FS_CardinalityType
      <3> QED
        BY <2>1, <2>3, <2>5, <3>2, <3>3
    <2> QED
      BY <2>4, <2>5
  <1>6. Bounded'
    <2> PICK t : t = clock - LockTime
      OBVIOUS
    <2>1. t \in Int
      BY <1>1, SignInLimits
    <2>2. /\ recentFailures(wrongs, clock) = After(wrongs, t)
          /\ recentFailures(wrongs', clock') = After(wrongs', t)
      BY DEF recentFailures, After
    <2>3. Cardinality(After(wrongs, t)) \in Nat
      BY <1>2, <2>1, AfterIsFinite
    <2>4. ASSUME wrongs' = Append(wrongs, clock)
          PROVE  /\ Cardinality(After(wrongs', t)) \in Nat
                 /\ Cardinality(After(wrongs', t)) <= Cardinality(After(wrongs, t)) + 1
      <3>1. Cardinality(After(wrongs', t)) = Cardinality(After(wrongs, t)) + IF clock > t THEN 1 ELSE 0
        BY <1>1, <1>2, <2>1, <2>4, AfterAppend
      <3> QED
        BY <2>3, <3>1
    <2>5. ASSUME UNCHANGED wrongs
          PROVE  /\ Cardinality(After(wrongs', t)) \in Nat
                 /\ Cardinality(After(wrongs', t)) <= Cardinality(After(wrongs, t)) + 1
      BY <2>3, <2>5
    <2>6. /\ Cardinality(After(wrongs', t)) \in Nat
          /\ Cardinality(After(wrongs', t)) <= Cardinality(After(wrongs, t)) + 1
      BY <2>4, <2>5
    <2>7. Cardinality(After(wrongs, t)) + Cardinality(PastLock) < MaxFailures + Cardinality(Visits)
      BY <1>1, <2>2 DEF Bounded
    <2>8. Cardinality(After(wrongs', t)) + Cardinality(PastLock') < MaxFailures + Cardinality(Visits)
      BY <1>4, <2>3, <2>6, <2>7, SignInLimits
    <2> QED
      BY <2>2, <2>8 DEF Bounded
  <1>7. ToldInv'
    BY <1>1 DEF ToldInv
  <1> QED
    BY <1>3, <1>5, <1>6, <1>7 DEF LockInv

\* A wrong password is compared, and will be written.
LEMMA AttemptBegins ==
    ASSUME SignInInv, LockInv, NEW v \in Visits, v \notin Writing,
           UNCHANGED <<clock, wrongs, lost, told>>,
           guesses' = Append(guesses, clock),
           Writing' = Writing \cup {v}, PastLock' = PastLock
    PROVE  LockInv'
  <1>1. LockTyped /\ Matched /\ Bounded /\ ToldInv /\ clock \in Nat
    BY DEF LockInv, SignInInv, SignInTyped
  <1>2. /\ wrongs \in Seq(Nat) /\ guesses \in Seq(Nat) /\ lost \in Seq(Nat)
        /\ \A i \in DOMAIN guesses : guesses[i] <= clock
    BY <1>1 DEF LockTyped
  <1>3. LockTyped'
    <2>1. guesses' \in Seq(Nat) /\ \A i \in DOMAIN guesses' : guesses'[i] <= clock
      BY <1>1, <1>2
    <2> QED
      BY <1>1, <2>1 DEF LockTyped
  <1>4. Cardinality(Writing') = Cardinality(Writing) + 1 /\ Cardinality(Writing) \in Nat
    BY RequestsAreFinite, FS_AddElement
  <1>5. Matched'
    <2> SUFFICES ASSUME NEW t \in Int
                 PROVE  Cardinality(After(guesses', t))
                          <= Cardinality(After(wrongs', t)) + Cardinality(After(lost', t))
                               + Cardinality(Writing')
      BY DEF Matched
    <2>1. /\ Cardinality(After(wrongs, t)) \in Nat /\ Cardinality(After(lost, t)) \in Nat
          /\ Cardinality(After(guesses, t)) \in Nat
      BY <1>2, AfterIsFinite
    <2>2. Cardinality(After(guesses, t))
            <= Cardinality(After(wrongs, t)) + Cardinality(After(lost, t)) + Cardinality(Writing)
      BY <1>1 DEF Matched
    <2>3. Cardinality(After(guesses', t))
            = Cardinality(After(guesses, t)) + IF clock > t THEN 1 ELSE 0
      BY <1>1, <1>2, AfterAppend
    <2> QED
      BY <1>4, <2>1, <2>2, <2>3
  <1>6. Bounded' /\ ToldInv'
    BY <1>1 DEF Bounded, ToldInv
  <1> QED
    BY <1>3, <1>5, <1>6 DEF LockInv

\* The wait of the page ends half a second too early at most: the age is rounded by no
\* more, and lockedFor and minutes only make the wait longer.
LEMMA WaitRounded ==
    ASSUME LockTime \in Nat, Second \in Nat, Minute \in Nat, NEW now \in Nat, NEW last \in Nat, last <= now,
           NEW wait \in retryAfter(now - last), NEW m \in minutes(wait)
    PROVE  now + m \in Nat /\ 2 * (last + LockTime) <= 2 * (now + m) + Second
  <1>1. PICK r \in NearestSecond(now - last) :
          wait = IF LockTime - r < Second THEN Second ELSE LockTime - r
    BY DEF retryAfter
  <1>2. PICK n \in 0..(now - last) : r = Second * n
    BY <1>1 DEF NearestSecond
  <1>3. r \in Nat /\ 2 * (r - (now - last)) <= Second
    BY <1>1, <1>2 DEF NearestSecond
  <1>4. wait \in Nat /\ LockTime - r <= wait
    BY <1>1, <1>3
  <1>5. PICK k \in 0..wait : m = Minute * k
    BY DEF minutes
  <1>6. m \in Nat /\ wait <= m
    BY <1>4, <1>5 DEF minutes
  <1> QED
    BY <1>3, <1>4, <1>6

\* The lockout lets a request pass, or says how long it lasts.
LEMMA ReadFailuresLock ==
    ASSUME SignInInv, LockInv, NEW v \in Visits, ReadFailures(v)
    PROVE  LockInv'
  <1>1. /\ LockTyped /\ Matched /\ Bounded /\ ToldInv /\ clock \in Nat
        /\ visit \in [Visits -> Visit]
    BY DEF LockInv, SignInInv, SignInTyped
  <1>2. /\ visit[v].pc = "lock" /\ UNCHANGED <<clock, wrongs, guesses, lost>>
        /\ v \notin Writing /\ v \notin PastLock
    BY DEF ReadFailures, Writing, PastLock
  <1> PICK failures : failures = recentFailures(wrongs, clock)
    OBVIOUS
  <1>3. /\ wrongs \in Seq(Nat) /\ \A i \in DOMAIN wrongs : wrongs[i] <= clock
        /\ LockTime \in Nat \ {0} /\ MaxFailures \in Nat \ {0}
        /\ Second \in Nat \ {0} /\ Minute \in Nat \ {0}
    BY <1>1, SignInLimits DEF LockTyped
  <1>4. /\ failures = After(wrongs, clock - LockTime) /\ clock - LockTime \in Int
        /\ failures \subseteq DOMAIN wrongs
    BY <1>1, <1>3 DEF recentFailures, After
  <1>5. IsFiniteSet(failures) /\ Cardinality(failures) \in Nat
    BY <1>3, <1>4, AfterIsFinite
  <1>6. CASE Locked(failures)
    <2> PICK ats : ats = {wrongs[i] : i \in failures}
      OBVIOUS
    <2> PICK last : last = Max(ats)
      OBVIOUS
    <2>1. Leave(v) /\ \E wait \in retryAfter(clock - last) : \E m \in minutes(wait) : told' = clock + m
      BY <1>6 DEF ReadFailures
    <2>2. failures # {}
      BY <1>3, <1>5, <1>6, FS_EmptySet DEF Locked
    <2>3. \A i \in DOMAIN wrongs : wrongs[i] \in Nat
      BY <1>3
    <2>4. ats \subseteq Nat /\ ats # {} /\ \A at \in ats : at <= clock
      BY <1>3, <1>4, <2>2, <2>3
    <2>5. last \in ats /\ \A at \in ats : at <= last
      BY <1>1, <2>4, MaxOfBounded
    <2>6. last \in Nat /\ last > clock - LockTime /\ last <= clock
      <3>1. \A i \in failures : wrongs[i] > clock - LockTime
        BY <1>4 DEF After
      <3> QED
        BY <2>4, <2>5, <3>1
    <2>12. told' \in Nat /\ 2 * (last + LockTime) <= 2 * told' + Second
      <3>0. PICK wait \in retryAfter(clock - last) : \E m \in minutes(wait) : told' = clock + m
        BY <2>1
      <3>1. PICK m \in minutes(wait) : told' = clock + m
        BY <3>0
      <3>2. clock + m \in Nat /\ 2 * (last + LockTime) <= 2 * (clock + m) + Second
        BY <1>1, <1>3, <2>6, WaitRounded
      <3> QED
        BY <3>1, <3>2
    <2>7. ASSUME NEW i \in DOMAIN wrongs PROVE 2 * (wrongs[i] + LockTime) <= 2 * told' + Second
      <3>1. CASE i \in failures
        <4>1. wrongs[i] <= last
          BY <2>5, <3>1
        <4> QED
          BY <1>3, <2>12, <2>3, <2>6, <4>1
      <3>2. CASE i \notin failures
        <4>1. wrongs[i] \in Nat /\ ~(wrongs[i] > clock - LockTime)
          BY <1>4, <2>3, <3>2 DEF After
        <4>2. wrongs[i] <= last
          BY <1>1, <1>3, <2>6, <4>1
        <4> QED
          BY <1>3, <2>12, <2>6, <4>1, <4>2
      <3> QED
        BY <3>1, <3>2
    <2>8. Writing' = Writing /\ PastLock' = PastLock
      <3>1. Writing' = Writing \ {v} /\ PastLock' = PastLock \ {v}
        BY <1>1, <2>1, LeaveOrOnto
      <3> QED
        BY <1>2, <3>1
    <2>9. LockTyped'
      BY <1>1, <1>2, <1>3, <2>12 DEF LockTyped
    <2>10. Matched' /\ Bounded'
      BY <1>1, <1>2, <2>8 DEF Matched, Bounded
    <2>11. ToldInv'
      BY <1>2, <2>7 DEF ToldInv
    <2> QED
      BY <2>9, <2>10, <2>11 DEF LockInv
  <1>7. CASE ~Locked(failures)
    <2>1. Onto(v, "compare") /\ UNCHANGED told
      BY <1>7 DEF ReadFailures
    <2>2. Writing' = Writing /\ PastLock' = PastLock \cup {v}
      BY <1>1, <1>2, <2>1, LeaveOrOnto DEF VisitPcs
    <2>3. Cardinality(PastLock') <= Cardinality(Visits) /\ Cardinality(PastLock') \in Nat
      <3>1. PastLock' \subseteq Visits /\ IsFiniteSet(Visits)
        BY VisitsAssumption DEF PastLock
      <3> QED
        BY <3>1, FS_Subset, FS_CardinalityType
    <2>4. Cardinality(failures) < MaxFailures
      BY <1>3, <1>5, <1>7 DEF Locked
    <2>5. Bounded'
      <3>1. Cardinality(Visits) \in Nat
        BY RequestsAreFinite
      <3> QED
        BY <1>2, <1>3, <1>5, <2>3, <2>4, <3>1 DEF Bounded
    <2>6. LockTyped' /\ Matched' /\ ToldInv'
      BY <1>1, <1>2, <2>1, <2>2 DEF LockTyped, Matched, ToldInv
    <2> QED
      BY <2>5, <2>6 DEF LockInv
  <1> QED
    BY <1>6, <1>7

LEMMA LockSteps ==
    ASSUME SignInInv, LockInv, NEW v \in Visits, SignInStep(v) PROVE LockInv'
  <1>1. /\ LockTyped /\ Matched /\ Bounded /\ ToldInv /\ clock \in Nat
        /\ visit \in [Visits -> Visit] /\ clock <= clock
    BY DEF LockInv, SignInInv, SignInTyped
  <1>2. ASSUME UNCHANGED <<clock, wrongs, guesses, lost, told>>, visit[v].pc # "wrong",
               \/ Leave(v)
               \/ \E pc \in VisitPcs \ {"compare", "wrong"} : Onto(v, pc)
               \/ \E x : visit' = [visit EXCEPT ![v] = x] /\ x.pc \notin {"compare", "wrong"}
        PROVE  LockInv'
    <2>1. v \notin Writing
      BY <1>2 DEF Writing
    <2>2. Writing' = Writing \ {v} /\ PastLock' = PastLock \ {v}
      <3>1. CASE Leave(v)
        BY <1>1, <3>1, LeaveOrOnto
      <3>2. CASE \E pc \in VisitPcs \ {"compare", "wrong"} : Onto(v, pc)
        BY <1>1, <3>2, LeaveOrOnto
      <3>3. CASE \E x : visit' = [visit EXCEPT ![v] = x] /\ x.pc \notin {"compare", "wrong"}
        BY <1>1, <3>3, OneRequest
      <3> QED
        BY <1>2, <3>1, <3>2, <3>3
    <2> QED
      BY <1>1, <1>2, <2>1, <2>2, LockQuiet
  <1>3. ASSUME NEW s, AfterPrimary(v, s) PROVE Leave(v)
    BY <1>3 DEF AfterPrimary, Answer
  <1>4. CASE VisitBegin(v)
    <2>1. PICK kind \in {"show", "login", "mfa"}, asks \in BOOLEAN, age \in AskedAges \cup {0} :
            /\ kind # "login" => core.id # 0
            /\ ~asks => age = 0
            /\ visit' = [visit EXCEPT ![v] =
                           [pc |-> "account", kind |-> kind, asks |-> asks,
                            age |-> age,
                            session |-> IF kind = "login" THEN NoSession ELSE core,
                            barred |-> FALSE, sawOpen |-> standing = "open", sawEligible |-> eligible]]
      BY <1>4 DEF VisitBegin
    <2>2. \E x : visit' = [visit EXCEPT ![v] = x] /\ x.pc \notin {"compare", "wrong"}
      <3> PICK n, s, op :
            /\ n = age /\ s = IF kind = "login" THEN NoSession ELSE core
            /\ op = (standing = "open")
        OBVIOUS
      <3> PICK x : x = [pc |-> "account", kind |-> kind, asks |-> asks, age |-> n, session |-> s,
                        barred |-> FALSE, sawOpen |-> op, sawEligible |-> eligible]
        OBVIOUS
      <3>1. visit' = [visit EXCEPT ![v] = x] /\ x.pc = "account"
        BY <2>1
      <3> QED
        BY <3>1
    <2>3. visit[v].pc = "off" /\ UNCHANGED <<clock, wrongs, guesses, lost, told>>
      BY <1>4 DEF VisitBegin
    <2> QED
      BY <1>2, <2>2, <2>3
  <1>5. CASE FindLoginAccount(v)
    <2>1. visit[v].pc = "account" /\ UNCHANGED <<clock, wrongs, guesses, lost, told>>
      BY <1>5 DEF FindLoginAccount
    <2>2. CASE visit[v].kind = "login" /\ standing # "gone"
      <3>1. visit' = [visit EXCEPT ![v].pc = "lock", ![v].barred = standing = "barred"]
        BY <1>5, <2>2 DEF FindLoginAccount
      <3>2. PICK b : b = (standing = "barred")
        OBVIOUS
      <3>3. PICK x : x = [visit[v] EXCEPT !.pc = "lock", !.barred = b]
        OBVIOUS
      <3>4. x.pc = "lock"
        BY <1>1, <3>3 DEF Visit
      <3>5. visit' = [visit EXCEPT ![v] = x]
        BY <1>1, <3>1, <3>2, <3>3
      <3> QED
        BY <1>2, <2>1, <3>4, <3>5
    <2>3. CASE ~(visit[v].kind = "login" /\ standing # "gone")
      <3>1. Onto(v, "eligible") \/ Leave(v)
        BY <1>5, <2>3 DEF FindLoginAccount, TurnAway
      <3> QED
        BY <1>2, <2>1, <3>1 DEF VisitPcs
    <2> QED
      BY <2>2, <2>3
  <1>6. CASE CheckEligible(v)
    <2>1. visit[v].pc = "eligible" /\ UNCHANGED <<clock, wrongs, guesses, lost, told>>
      BY <1>6 DEF CheckEligible
    <2>2. TurnAway(v) \/ Onto(v, "success") \/ Onto(v, "verify") \/ AfterPrimary(v, visit[v].session)
      BY <1>6 DEF CheckEligible
    <2>3. Leave(v) \/ \E pc \in VisitPcs \ {"compare", "wrong"} : Onto(v, pc)
      BY <1>3, <2>2 DEF TurnAway, VisitPcs
    <2> QED
      BY <1>2, <2>1, <2>3
  <1>7. CASE Compare(v)
    <2>1. visit[v].pc = "compare" /\ UNCHANGED <<clock, wrongs, lost, told>>
      BY <1>7 DEF Compare
    <2>2. v \notin Writing /\ v \in PastLock
      BY <2>1 DEF Writing, PastLock
    <2>3. CASE guesses' = Append(guesses, clock) /\ Onto(v, "wrong")
      <3>1. Writing' = Writing \cup {v} /\ PastLock' = PastLock
        <4>1. "wrong" \in VisitPcs
          BY DEF VisitPcs
        <4>2. Writing' = Writing \cup {v} /\ PastLock' = PastLock \cup {v}
          BY <1>1, <2>3, <4>1, LeaveOrOnto
        <4> QED
          BY <2>2, <4>2
      <3> QED
        BY <2>1, <2>2, <2>3, <3>1, AttemptBegins
    <2>4. CASE (Leave(v) \/ Onto(v, "eligible")) /\ UNCHANGED guesses
      BY <1>2, <2>1, <2>4 DEF VisitPcs
    <2> QED
      BY <1>7, <2>3, <2>4 DEF Compare
  <1>8. CASE RecordWrong(v)
    <2>1. /\ visit[v].pc = "wrong" /\ Leave(v) /\ UNCHANGED <<clock, guesses>>
          /\ \/ wrongs' = Append(wrongs, clock) /\ told' = 0 /\ UNCHANGED lost
             \/ lost' = Append(lost, clock) /\ UNCHANGED <<wrongs, told>>
      BY <1>8 DEF RecordWrong, Forgotten
    <2>2. v \in Writing /\ Writing' = Writing \ {v} /\ PastLock' = PastLock \ {v}
      BY <1>1, <2>1, LeaveOrOnto DEF Writing
    <2> QED
      BY <2>1, <2>2, AttemptEnds
  <1>9. CASE RecordSuccess(v)
    <2>1. visit[v].pc = "success" /\ Onto(v, "create") /\ UNCHANGED <<clock, told>>
      BY <1>9 DEF RecordSuccess
    <2>2. Writing' = Writing /\ PastLock' = PastLock
      BY <1>1, <2>1, LeaveOrOnto DEF VisitPcs, Writing, PastLock
    <2>3. CASE UNCHANGED <<wrongs, guesses, lost>>
      BY <1>1, <2>1, <2>2, <2>3, LockQuiet
    <2>4. CASE wrongs' = <<>> /\ guesses' = <<>> /\ lost' = <<>>
      <3>1. LockTyped'
        BY <1>1, <2>1, <2>4 DEF LockTyped
      <3>2. /\ Cardinality(Writing) \in Nat /\ Cardinality(PastLock) \in Nat
            /\ Cardinality(Visits) \in Nat /\ Cardinality(PastLock) <= Cardinality(Visits)
        BY RequestsAreFinite
      <3>3. \A t : After(<<>>, t) = {} /\ recentFailures(<<>>, t) = {}
        BY DEF After, recentFailures
      <3>4. Cardinality({}) = 0
        BY FS_EmptySet
      <3>5. Matched'
        <4>1. \A t : Cardinality(After(<<>>, t)) = 0
          BY <3>3, <3>4
        <4>2. \A t \in Int : 0 <= 0 + 0 + Cardinality(Writing)
          BY <3>2
        <4> QED
          BY <2>2, <2>4, <4>1, <4>2 DEF Matched
      <3>6. Bounded'
        <4>1. Cardinality(recentFailures(wrongs', clock')) = 0
          BY <2>4, <3>3, <3>4
        <4>2. 0 + Cardinality(PastLock') < MaxFailures + Cardinality(Visits)
          BY <2>2, <3>2, SignInLimits
        <4> QED
          BY <4>1, <4>2 DEF Bounded
      <3>7. ToldInv'
        BY <2>4 DEF ToldInv
      <3> QED
        BY <3>1, <3>5, <3>6, <3>7 DEF LockInv
    <2> QED
      BY <1>9, <2>3, <2>4 DEF RecordSuccess
  <1>10. CASE SignedIn(v)
    <2>1. visit[v].pc = "create" /\ UNCHANGED <<clock, wrongs, guesses, lost, told>> /\ Leave(v)
      BY <1>3, <1>10 DEF SignedIn
    <2> QED
      BY <1>2, <2>1
  <1>11. CASE VerifyCode(v)
    BY <1>2, <1>11 DEF VerifyCode, VisitPcs
  <1>12. CASE UpgradeSession(v)
    <2>1. visit[v].pc = "upgrade" /\ UNCHANGED <<clock, wrongs, guesses, lost, told>>
      BY <1>12 DEF UpgradeSession
    <2> PICK up : up = [visit[v].session EXCEPT !.aal = 2, !.mfaAt = clock]
      OBVIOUS
    <2>2. Leave(v) \/ visit' = [visit EXCEPT ![v].pc = "finish", ![v].session = up]
      BY <1>12 DEF UpgradeSession
    <2>3. CASE visit' = [visit EXCEPT ![v].pc = "finish", ![v].session = up]
      <3>1. PICK x : x = [visit[v] EXCEPT !.pc = "finish", !.session = up]
        OBVIOUS
      <3>2. x.pc = "finish"
        BY <1>1, <3>1 DEF Visit
      <3>3. visit' = [visit EXCEPT ![v] = x]
        BY <1>1, <2>3, <3>1
      <3> QED
        BY <1>2, <2>1, <3>2, <3>3
    <2> QED
      BY <1>2, <2>1, <2>2, <2>3
  <1>13. CASE Finish(v)
    BY <1>2, <1>13 DEF Finish, Answer
  <1>14. CASE VisitDies(v)
    <2>1. Leave(v) /\ UNCHANGED <<clock, wrongs, guesses, told>>
      BY <1>14 DEF VisitDies
    <2>2. CASE visit[v].pc = "wrong"
      <3>1. lost' = Append(lost, clock)
        BY <1>14, <2>2 DEF VisitDies, Forgotten
      <3>2. v \in Writing /\ Writing' = Writing \ {v} /\ PastLock' = PastLock \ {v}
        BY <1>1, <2>1, <2>2, LeaveOrOnto DEF Writing
      <3> QED
        BY <2>1, <3>1, <3>2, AttemptEnds
    <2>3. CASE visit[v].pc # "wrong"
      <3>1. UNCHANGED lost
        BY <1>14, <2>3 DEF VisitDies
      <3> QED
        BY <1>2, <2>1, <2>3, <3>1
    <2> QED
      BY <2>2, <2>3
  <1> QED
    BY <1>4, <1>5, <1>6, <1>7, <1>8, <1>9, <1>10, <1>11, <1>12, <1>13, <1>14, ReadFailuresLock
    DEF SignInStep

LEMMA LockNext == SignInInv /\ LockInv /\ [SignInNext]_signInVars => LockInv'
  <1> SUFFICES ASSUME SignInInv, LockInv, [SignInNext]_signInVars PROVE LockInv'
    OBVIOUS
  <1>1. clock \in Nat /\ visit \in [Visits -> Visit] /\ clock <= clock
    BY DEF SignInInv, SignInTyped
  <1>2. CASE UNCHANGED signInVars
    BY <1>1, <1>2, LockQuiet DEF signInVars, Writing, PastLock
  <1>3. CASE Sync
    <2>1. ASSUME NEW v \in Visits PROVE visit'[v].pc = visit[v].pc
      BY <1>1, <1>3 DEF Sync, Visit
    <2>2. Writing' = Writing /\ PastLock' = PastLock
      BY <2>1 DEF Writing, PastLock
    <2> QED
      BY <1>1, <1>3, <2>2, LockQuiet DEF Sync
  <1>4. CASE TimePasses
    <2>1. /\ clock' = clock + 1 /\ UNCHANGED <<wrongs, guesses, lost, told>>
          /\ Writing' = Writing /\ PastLock' = PastLock
      BY <1>4 DEF TimePasses, Writing, PastLock
    <2>2. clock' \in Nat /\ clock <= clock'
      BY <1>1, <2>1
    <2> QED
      BY <2>1, <2>2, LockQuiet
  <1> QED
    BY <1>2, <1>3, <1>4, LockSteps DEF SignInNext

LEMMA LockInitInv == SignInInit => LockInv
  <1> SUFFICES ASSUME SignInInit PROVE LockInv
    OBVIOUS
  <1>1. /\ wrongs = <<>> /\ guesses = <<>> /\ lost = <<>> /\ told = 0
        /\ visit = [v \in Visits |-> NoVisit] /\ NoVisit.pc = "off"
    BY DEF SignInInit, NoVisit
  <1>2. Writing = {} /\ PastLock = {}
    BY <1>1 DEF Writing, PastLock
  <1>3. \A t : After(<<>>, t) = {} /\ recentFailures(<<>>, t) = {}
    BY DEF After, recentFailures
  <1>4. Cardinality({}) = 0 /\ Cardinality(Visits) \in Nat
    BY FS_EmptySet, RequestsAreFinite
  <1>5. LockTyped /\ ToldInv
    BY <1>1 DEF LockTyped, ToldInv
  <1>6. Matched
    <2>1. \A t : Cardinality(After(<<>>, t)) = 0
      BY <1>3, <1>4
    <2>2. Cardinality(Writing) = 0
      BY <1>2, <1>4
    <2> QED
      BY <1>1, <2>1, <2>2 DEF Matched
  <1>7. Bounded
    <2>1. Cardinality(recentFailures(wrongs, clock)) = 0 /\ Cardinality(PastLock) = 0
      BY <1>1, <1>2, <1>3, <1>4
    <2> QED
      BY <1>4, <2>1, SignInLimits DEF Bounded
  <1> QED
    BY <1>5, <1>6, <1>7 DEF LockInv

\* Each guess of a window is a failure that was written, is being written, or was lost.
THEOREM LockInvariance == SignInSpec => []LockInv
  BY SignInInvariance, LockInitInv, LockNext, PTL DEF SignInSpec

LEMMA GuessesFollow == ASSUME SignInInv, LockInv PROVE GuessesNearLimit
  <1>1. LockTyped /\ Matched /\ Bounded /\ clock \in Nat
    BY DEF LockInv, SignInInv, SignInTyped
  <1> PICK t : t = clock - LockTime
    OBVIOUS
  <1>2. t \in Int
    BY <1>1, SignInLimits
  <1>3. \A rows : recentFailures(rows, clock) = After(rows, t)
    BY DEF recentFailures, After
  <1>4. /\ Cardinality(After(wrongs, t)) \in Nat /\ Cardinality(After(lost, t)) \in Nat
        /\ Cardinality(After(guesses, t)) \in Nat
    BY <1>1, <1>2, AfterIsFinite DEF LockTyped
  <1>5. Cardinality(Writing) <= Cardinality(PastLock)
    <2>1. Writing \subseteq PastLock
      BY DEF Writing, PastLock
    <2> QED
      BY <2>1, RequestsAreFinite, FS_Subset
  <1>6. Cardinality(After(guesses, t))
          <= Cardinality(After(wrongs, t)) + Cardinality(After(lost, t)) + Cardinality(Writing)
    BY <1>1, <1>2 DEF Matched
  <1>7. Cardinality(After(wrongs, t)) + Cardinality(PastLock) < MaxFailures + Cardinality(Visits)
    BY <1>1, <1>3 DEF Bounded
  <1>8. Cardinality(After(guesses, t)) < MaxFailures + Cardinality(Visits) + Cardinality(After(lost, t))
    BY <1>4, <1>5, <1>6, <1>7, RequestsAreFinite, SignInLimits
  <1> QED
    BY <1>3, <1>8 DEF GuessesNearLimit

\* However many requests guess at once, in any LockTime they guess as often as the lockout
\* allows, plus once for each other request, plus the attempts whose write failed.
THEOREM GuessesAreLimited == SignInSpec => []GuessesNearLimit
  <1>1. SignInInv /\ LockInv => GuessesNearLimit
    BY GuessesFollow
  <1> QED
    BY <1>1, SignInInvariance, LockInvariance, PTL

\* Every variable of SignIn stays in its domain.
THEOREM SignInTypeCorrect == SignInSpec => []SignInTypeOK
  <1>1. SignInInv /\ LockInv => SignInTypeOK
    BY DEF SignInInv, SignInTyped, LockInv, LockTyped, SignInTypeOK
  <1> QED
    BY <1>1, SignInInvariance, LockInvariance, PTL

LEMMA WaitFollows == ASSUME SignInInv, LockInv PROVE ToldWaitSuffices
  <1> SUFFICES ASSUME told # 0, 2 * (clock - told) >= Second PROVE ~Locked(recentFailures(wrongs, clock))
    BY DEF ToldWaitSuffices
  <1>1. /\ clock \in Nat /\ told \in Nat /\ wrongs \in Seq(Nat)
        /\ \A i \in DOMAIN wrongs : 2 * (wrongs[i] + LockTime) <= 2 * told + Second
    BY DEF LockInv, LockTyped, ToldInv, SignInInv, SignInTyped
  <1>2. \A i \in DOMAIN wrongs : wrongs[i] \in Nat
    BY <1>1
  <1>3. LockTime \in Nat /\ Second \in Nat
    BY SignInLimits
  <1>4. \A i \in DOMAIN wrongs : ~(wrongs[i] > clock - LockTime)
    BY <1>1, <1>2, <1>3
  <1>5. recentFailures(wrongs, clock) = {}
    BY <1>4 DEF recentFailures
  <1> QED
    BY <1>5, FS_EmptySet, SignInLimits DEF Locked

\* Who waits as long as the locked page says, and half a second, is not locked out any
\* more, whatever the seconds are rounded to.
THEOREM WaitsSuffice == SignInSpec => []ToldWaitSuffices
  <1>1. SignInInv /\ LockInv => ToldWaitSuffices
    BY WaitFollows
  <1> QED
    BY <1>1, SignInInvariance, LockInvariance, PTL

-----------------------------------------------------------------------------
(* Factors.                                                                *)

\* A command's factor is its own, and is not there before its COMMIT.
Own(a) ==
    adding[a].pc # "off" =>
      /\ adding[a].fid \in 1..begun
      /\ ~factor[adding[a].fid].isDefault
      /\ \A b \in Adders \ {a} : adding[b].pc # "off" => adding[b].fid # adding[a].fid

\* A command without --default clears nothing; one with it that may commit has cleared
\* every default there is, and no other such command may commit before it.
Clearing(a) ==
    /\ adding[a].pc # "off" /\ ~adding[a].new.isDefault => adding[a].cleared = {}
    /\ adding[a].pc = "commit" /\ adding[a].new.isDefault =>
         /\ Defaults \subseteq adding[a].cleared
         /\ \A b \in Adders \ {a} : ~(adding[b].pc = "commit" /\ adding[b].new.isDefault)

FactorsTypeOK ==
    /\ factor \in [Fids -> UserMfaFactor]
    /\ begun \in 0..MaxFactors
    /\ adding \in [Adders -> Adding]
    /\ lastDefault \in Fids \cup {0}

FactorsInv ==
    /\ FactorsTypeOK
    /\ \A f \in Fids : f > begun => ~factor[f].isDefault
    /\ \A a \in Adders : Own(a) /\ Clearing(a)
    /\ Defaults = {lastDefault} \ {0}

LEMMA FactorsInitInv == FactorsInit => FactorsInv
  <1> SUFFICES ASSUME FactorsInit PROVE FactorsInv
    OBVIOUS
  <1>1. /\ factor = [f \in Fids |-> NoFactor] /\ begun = 0 /\ lastDefault = 0
        /\ adding = [a \in Adders |-> NotAdding]
    BY DEF FactorsInit
  <1>2. NoFactor \in UserMfaFactor /\ ~NoFactor.isDefault
    BY DEF NoFactor, UserMfaFactor, MfaMethod
  <1>3. NotAdding \in Adding /\ NotAdding.pc = "off"
    BY <1>2 DEF NotAdding, Adding
  <1>4. FactorsTypeOK
    BY <1>1, <1>2, <1>3, FactorAssumption DEF FactorsTypeOK
  <1>5. \A f \in Fids : ~factor[f].isDefault
    BY <1>1, <1>2
  <1>6. \A a \in Adders : Own(a) /\ Clearing(a)
    BY <1>1, <1>3 DEF Own, Clearing
  <1>7. Defaults = {}
    BY <1>5 DEF Defaults
  <1> QED
    BY <1>1, <1>4, <1>5, <1>6, <1>7 DEF FactorsInv

\* One command goes on with the factor it has, or stops.
LEMMA AdderMoves ==
    ASSUME FactorsInv, NEW a \in Adders, NEW n \in Adding, adding' = [adding EXCEPT ![a] = n],
           UNCHANGED <<factor, begun, lastDefault>>,
           n.pc # "off" => adding[a].pc # "off" /\ n.fid = adding[a].fid,
           n.pc # "off" /\ ~n.new.isDefault => n.cleared = {},
           n.pc = "commit" /\ n.new.isDefault =>
             /\ Defaults \subseteq n.cleared
             /\ \A b \in Adders \ {a} : ~(adding[b].pc = "commit" /\ adding[b].new.isDefault)
    PROVE  FactorsInv'
  <1>1. /\ FactorsTypeOK /\ adding \in [Adders -> Adding]
        /\ \A b \in Adders : Own(b) /\ Clearing(b)
        /\ \A f \in Fids : f > begun => ~factor[f].isDefault
        /\ Defaults = {lastDefault} \ {0}
    BY DEF FactorsInv, FactorsTypeOK
  <1>2. adding'[a] = n /\ adding' \in [Adders -> Adding]
    BY <1>1
  <1>3. \A b \in Adders \ {a} : adding'[b] = adding[b]
    BY <1>1
  <1>4. Defaults' = Defaults
    BY DEF Defaults
  <1>5. ASSUME NEW b \in Adders PROVE Own(b)'
    <2>1. CASE b = a
      BY <1>1, <1>2, <1>3, <2>1 DEF Own
    <2>2. CASE b # a
      BY <1>1, <1>2, <1>3, <2>2 DEF Own
    <2> QED
      BY <2>1, <2>2
  <1>6. ASSUME NEW b \in Adders PROVE Clearing(b)'
    <2>1. CASE b = a
      BY <1>2, <1>3, <1>4, <2>1 DEF Clearing
    <2>2. CASE b # a
      <3>1. Clearing(b) /\ adding'[b] = adding[b]
        BY <1>1, <1>3, <2>2
      <3>2. ASSUME adding[b].pc = "commit", adding[b].new.isDefault, NEW c \in Adders \ {b}
            PROVE  ~(adding'[c].pc = "commit" /\ adding'[c].new.isDefault)
        BY <1>2, <1>3, <2>2, <3>1, <3>2 DEF Clearing
      <3> QED
        BY <1>4, <3>1, <3>2 DEF Clearing
    <2> QED
      BY <2>1, <2>2
  <1> QED
    BY <1>1, <1>2, <1>4, <1>5, <1>6 DEF FactorsInv, FactorsTypeOK

LEMMA AddBeginsInv == ASSUME FactorsInv, NEW a \in Adders, AddBegins(a) PROVE FactorsInv'
  <1>1. /\ FactorsTypeOK /\ adding \in [Adders -> Adding] /\ begun \in 0..MaxFactors
        /\ \A b \in Adders : Own(b) /\ Clearing(b)
        /\ \A f \in Fids : f > begun => ~factor[f].isDefault
        /\ Defaults = {lastDefault} \ {0}
    BY DEF FactorsInv, FactorsTypeOK
  <1>2. PICK new \in [made : {TRUE}, method : MfaMethod, isDefault : BOOLEAN, readable : BOOLEAN] :
          adding' = [adding EXCEPT ![a] =
                      [pc |-> IF new.isDefault THEN "update" ELSE "save", fid |-> begun + 1,
                       new |-> new, cleared |-> IF new.isDefault THEN Defaults ELSE {}]]
    BY DEF AddBegins
  <1> PICK p, cl : /\ p = IF new.isDefault THEN "update" ELSE "save"
                   /\ cl = IF new.isDefault THEN Defaults ELSE {}
    OBVIOUS
  <1> PICK n : n = [pc |-> p, fid |-> begun + 1, new |-> new, cleared |-> cl]
    OBVIOUS
  <1>3. begun < MaxFactors /\ begun' = begun + 1 /\ UNCHANGED <<factor, lastDefault>>
    BY DEF AddBegins
  <1>4. begun + 1 \in Fids /\ begun' \in 0..MaxFactors
    BY <1>1, <1>3, FactorAssumption DEF Fids
  <1>5. n \in Adding
    BY <1>4 DEF Adding, Defaults, UserMfaFactor
  <1>6. /\ n.fid = begun + 1 /\ n.pc # "off" /\ n.pc # "commit"
        /\ ~n.new.isDefault => n.cleared = {}
    OBVIOUS
  <1>7. adding' = [adding EXCEPT ![a] = n]
    BY <1>2
  <1>8. adding'[a] = n /\ adding' \in [Adders -> Adding]
    BY <1>1, <1>5, <1>7
  <1>9. \A b \in Adders \ {a} : adding'[b] = adding[b]
    BY <1>1, <1>7
  <1>10. Defaults' = Defaults
    BY <1>3 DEF Defaults
  <1>11. ~factor[begun + 1].isDefault /\ begun + 1 \in 1..begun'
    BY <1>1, <1>3, <1>4
  <1>12. ASSUME NEW b \in Adders PROVE Own(b)'
    <2>1. \A c \in Adders \ {a} : adding[c].pc # "off" => adding[c].fid \in 1..begun
      BY <1>1 DEF Own
    <2>2. \A c \in Adders \ {a} : adding[c].pc # "off" => adding[c].fid # begun + 1
      BY <1>1, <2>1
    <2>3. CASE b = a
      BY <1>3, <1>6, <1>8, <1>9, <1>11, <2>2, <2>3 DEF Own
    <2>4. CASE b # a
      <3>1. Own(b) /\ adding'[b] = adding[b]
        BY <1>1, <1>9, <2>4
      <3>2. 1..begun \subseteq 1..begun'
        BY <1>1, <1>3
      <3> QED
        BY <1>3, <1>6, <1>8, <1>9, <2>2, <2>4, <3>1, <3>2 DEF Own
    <2> QED
      BY <2>3, <2>4
  <1>13. ASSUME NEW b \in Adders PROVE Clearing(b)'
    <2>1. CASE b = a
      BY <1>6, <1>8, <2>1 DEF Clearing
    <2>2. CASE b # a
      <3>1. Clearing(b) /\ adding'[b] = adding[b]
        BY <1>1, <1>9, <2>2
      <3> QED
        BY <1>6, <1>8, <1>9, <1>10, <3>1 DEF Clearing
    <2> QED
      BY <2>1, <2>2
  <1>14. \A f \in Fids : f > begun' => ~factor'[f].isDefault
    BY <1>1, <1>3 DEF Fids
  <1> QED
    BY <1>1, <1>3, <1>4, <1>8, <1>10, <1>12, <1>13, <1>14 DEF FactorsInv, FactorsTypeOK

\* A COMMIT: a default factor takes the place of the one before, another leaves it alone.
LEMMA AddedFactorInv == ASSUME FactorsInv, NEW a \in Adders, AddedFactor(a) PROVE FactorsInv'
  <1>1. /\ FactorsTypeOK /\ adding \in [Adders -> Adding] /\ factor \in [Fids -> UserMfaFactor]
        /\ begun \in 0..MaxFactors
        /\ \A b \in Adders : Own(b) /\ Clearing(b)
        /\ \A f \in Fids : f > begun => ~factor[f].isDefault
        /\ Defaults = {lastDefault} \ {0}
    BY DEF FactorsInv, FactorsTypeOK
  <1> PICK d : d = adding[a]
    OBVIOUS
  <1>2. d \in Adding /\ d.pc = "commit" /\ d.fid \in 1..begun /\ begun' = begun
    BY <1>1 DEF AddedFactor, Own
  <1>3. d.fid \in Fids /\ d.fid # 0 /\ d.new \in UserMfaFactor /\ d.cleared \subseteq Fids
    BY <1>1, <1>2, FactorAssumption DEF Fids, Adding
  <1>4. /\ factor' = [f \in Fids |-> IF f = d.fid THEN d.new
                                     ELSE IF f \in d.cleared
                                     THEN [factor[f] EXCEPT !.isDefault = FALSE]
                                     ELSE factor[f]]
        /\ lastDefault' = IF d.new.isDefault THEN d.fid ELSE lastDefault
        /\ adding' = [adding EXCEPT ![a] = NotAdding]
    BY DEF AddedFactor
  <1>5. NotAdding \in Adding /\ NotAdding.pc = "off"
    BY DEF NotAdding, Adding, NoFactor, UserMfaFactor, MfaMethod
  <1>6. adding'[a] = NotAdding /\ adding' \in [Adders -> Adding]
    BY <1>1, <1>4, <1>5
  <1>7. \A b \in Adders \ {a} : adding'[b] = adding[b]
    BY <1>1, <1>4
  <1>8. ASSUME NEW f \in Fids
        PROVE  /\ factor'[f] \in UserMfaFactor
               /\ f = d.fid => factor'[f].isDefault = d.new.isDefault
               /\ f # d.fid /\ f \in d.cleared => ~factor'[f].isDefault
               /\ f # d.fid /\ f \notin d.cleared => factor'[f] = factor[f]
    <2>1. CASE f = d.fid
      BY <1>3, <1>4, <2>1
    <2>2. CASE f # d.fid /\ f \in d.cleared
      <3>1. factor'[f] = [factor[f] EXCEPT !.isDefault = FALSE] /\ factor[f] \in UserMfaFactor
        BY <1>1, <1>4, <2>2
      <3> QED
        BY <2>2, <3>1 DEF UserMfaFactor
    <2>3. CASE f # d.fid /\ f \notin d.cleared
      BY <1>1, <1>4, <2>3
    <2> QED
      BY <2>1, <2>2, <2>3
  <1>9. Own(a) /\ Clearing(a)
    BY <1>1
  <1>10. ASSUME d.new.isDefault PROVE Defaults' = {d.fid} /\ lastDefault' = d.fid
    <2>1. Defaults \subseteq d.cleared
      BY <1>2, <1>9, <1>10 DEF Clearing
    <2>2. ASSUME NEW f \in Fids, f # d.fid PROVE ~factor'[f].isDefault
      BY <1>8, <2>1, <2>2 DEF Defaults
    <2>3. factor'[d.fid].isDefault
      BY <1>3, <1>8, <1>10
    <2>4. Defaults' = {d.fid}
      BY <1>3, <2>2, <2>3 DEF Defaults
    <2> QED
      BY <1>4, <1>10, <2>4
  <1>11. ASSUME ~d.new.isDefault PROVE Defaults' = Defaults /\ lastDefault' = lastDefault
    <2>1. d.cleared = {} /\ ~factor[d.fid].isDefault
      BY <1>2, <1>9, <1>11 DEF Clearing, Own
    <2>2. \A f \in Fids : factor'[f].isDefault <=> factor[f].isDefault
      BY <1>8, <1>11, <2>1
    <2> QED
      BY <1>4, <1>11, <2>2 DEF Defaults
  <1>12. Defaults' = {lastDefault'} \ {0} /\ lastDefault' \in Fids \cup {0}
    BY <1>1, <1>3, <1>10, <1>11 DEF FactorsTypeOK
  <1>13. ASSUME NEW b \in Adders, b # a, adding[b].pc # "off"
         PROVE  ~factor'[adding[b].fid].isDefault
    <2>1. adding[b].fid \in 1..begun /\ ~factor[adding[b].fid].isDefault /\ adding[b].fid # d.fid
      BY <1>1, <1>2, <1>13 DEF Own
    <2>2. adding[b].fid \in Fids
      BY <1>1, <2>1, FactorAssumption DEF Fids
    <2> QED
      BY <1>8, <2>1, <2>2
  <1>14. ASSUME NEW b \in Adders PROVE Own(b)'
    <2>1. CASE b = a
      BY <1>5, <1>6, <2>1 DEF Own
    <2>2. CASE b # a
      <3>1. Own(b) /\ adding'[b] = adding[b]
        BY <1>1, <1>7, <2>2
      <3> QED
        BY <1>2, <1>5, <1>6, <1>7, <1>13, <2>2, <3>1 DEF Own
    <2> QED
      BY <2>1, <2>2
  <1>15. ASSUME NEW b \in Adders PROVE Clearing(b)'
    <2>1. CASE b = a
      BY <1>5, <1>6, <2>1 DEF Clearing
    <2>2. CASE b # a
      <3>1. Clearing(b) /\ adding'[b] = adding[b]
        BY <1>1, <1>7, <2>2
      <3>2. CASE adding[b].pc = "commit" /\ adding[b].new.isDefault
        <4>1. ~d.new.isDefault
          BY <1>2, <2>2, <3>1, <3>2 DEF Clearing
        <4>2. Defaults' = Defaults
          BY <1>11, <4>1
        <4> QED
          BY <1>5, <1>6, <1>7, <3>1, <3>2, <4>2 DEF Clearing
      <3>3. CASE ~(adding[b].pc = "commit" /\ adding[b].new.isDefault)
        BY <3>1, <3>3 DEF Clearing
      <3> QED
        BY <3>2, <3>3
    <2> QED
      BY <2>1, <2>2
  <1>16. ASSUME NEW f \in Fids, f > begun PROVE ~factor'[f].isDefault
    <2>1. f # d.fid /\ ~factor[f].isDefault
      BY <1>1, <1>2, <1>16 DEF Fids
    <2> QED
      BY <1>8, <2>1
  <1>17. factor' \in [Fids -> UserMfaFactor]
    BY <1>4, <1>8
  <1> QED
    BY <1>1, <1>2, <1>6, <1>12, <1>14, <1>15, <1>16, <1>17 DEF FactorsInv, FactorsTypeOK

LEMMA FactorsNextInv == FactorsInv /\ [FactorsNext]_factorVars => FactorsInv'
  <1> SUFFICES ASSUME FactorsInv, [FactorsNext]_factorVars PROVE FactorsInv'
    OBVIOUS
  <1>1. adding \in [Adders -> Adding] /\ \A b \in Adders : Own(b) /\ Clearing(b)
    BY DEF FactorsInv, FactorsTypeOK
  <1>2. NotAdding \in Adding /\ NotAdding.pc = "off"
    BY DEF NotAdding, Adding, NoFactor, UserMfaFactor, MfaMethod
  <1>3. CASE UNCHANGED factorVars
    BY <1>3 DEF factorVars, FactorsInv, FactorsTypeOK, Own, Clearing, Defaults
  <1>4. ASSUME NEW a \in Adders, ClearDefaults(a) PROVE FactorsInv'
    <2> PICK d : d = adding[a]
      OBVIOUS
    <2> PICK n : n = [d EXCEPT !.pc = "save", !.cleared = d.cleared \cap Defaults]
      OBVIOUS
    <2>1. /\ d \in Adding /\ d.pc = "update" /\ adding' = [adding EXCEPT ![a] = n]
          /\ UNCHANGED <<factor, begun, lastDefault>>
      BY <1>1, <1>4 DEF ClearDefaults
    <2>2. /\ n \in Adding /\ n.pc = "save" /\ n.fid = d.fid /\ n.new = d.new
          /\ n.cleared = d.cleared \cap Defaults
      BY <2>1 DEF Adding
    <2>3. ~d.new.isDefault => d.cleared = {}
      BY <1>1, <2>1 DEF Clearing
    <2> QED
      BY <2>1, <2>2, <2>3, AdderMoves
  <1>5. ASSUME NEW a \in Adders, SaveFactor(a) PROVE FactorsInv'
    <2> PICK d : d = adding[a]
      OBVIOUS
    <2>1. /\ d \in Adding /\ d.pc = "save" /\ ~SaveWaits(a) /\ UNCHANGED <<factor, begun, lastDefault>>
          /\ adding' = [adding EXCEPT ![a] = IF d.new.isDefault /\ Defaults \ d.cleared # {}
                                               THEN NotAdding ELSE [d EXCEPT !.pc = "commit"]]
      BY <1>1, <1>5 DEF SaveFactor
    <2>2. CASE d.new.isDefault /\ Defaults \ d.cleared # {}
      <3>1. adding' = [adding EXCEPT ![a] = NotAdding]
        BY <2>1, <2>2
      <3> QED
        BY <1>2, <2>1, <3>1, AdderMoves
    <2>3. CASE ~(d.new.isDefault /\ Defaults \ d.cleared # {})
      <3>1. PICK n : n = [d EXCEPT !.pc = "commit"]
        OBVIOUS
      <3>2. adding' = [adding EXCEPT ![a] = n]
        BY <2>1, <2>3, <3>1
      <3>3. /\ n \in Adding /\ n.pc = "commit" /\ n.fid = d.fid /\ n.new = d.new
            /\ n.cleared = d.cleared
        BY <2>1, <3>1 DEF Adding
      <3>4. ~d.new.isDefault => d.cleared = {}
        BY <1>1, <2>1 DEF Clearing
      <3>5. ASSUME d.new.isDefault
            PROVE  /\ Defaults \subseteq d.cleared
                   /\ \A b \in Adders \ {a} : ~(adding[b].pc = "commit" /\ adding[b].new.isDefault)
        BY <2>1, <2>3, <3>5 DEF SaveWaits, Others
      <3> QED
        BY <2>1, <3>2, <3>3, <3>4, <3>5, AdderMoves
    <2> QED
      BY <2>2, <2>3
  <1>6. ASSUME NEW a \in Adders, AdderDies(a) PROVE FactorsInv'
    BY <1>2, <1>6, AdderMoves DEF AdderDies
  <1> QED
    BY <1>3, <1>4, <1>5, <1>6, AddBeginsInv, AddedFactorInv DEF FactorsNext

\* The one default factor is the last one a completed --default command added.
THEOREM FactorsInvariance == FactorsSpec => []FactorsInv
  BY FactorsInitInv, FactorsNextInv, PTL DEF FactorsSpec

LEMMA DefaultFollows == ASSUME FactorsInv PROVE LastDefaultIsAsked
  <1> SUFFICES ASSUME lastDefault # 0, Usable(lastDefault) PROVE preferred = lastDefault
    BY DEF LastDefaultIsAsked
  <1>1. /\ lastDefault \in Fids /\ Defaults = {lastDefault} /\ Mail \notin Fids
    BY FactorAssumption DEF FactorsInv, FactorsTypeOK, Mail, Fids
  <1>2. lastDefault \in options
    BY <1>1 DEF options
  <1>3. ASSUME NEW o \in options PROVE isDefault(o) <=> o = lastDefault
    <2>1. o \in Fids \cup {Mail}
      BY <1>3 DEF options
    <2> QED
      BY <1>1, <2>1 DEF isDefault, Defaults
  <1>4. {o \in options : isDefault(o)} = {lastDefault}
    BY <1>2, <1>3
  <1>5. FirstOf({lastDefault}) = lastDefault
    BY DEF FirstOf
  <1> QED
    BY <1>4, <1>5 DEF preferred

\* What the last completed --default command added is what the member is challenged with
\* while it can be used, however commands overlap, wait for each other, fail or die.
THEOREM LastDefaultAsked == FactorsSpec => []LastDefaultIsAsked
  <1>1. FactorsInv => LastDefaultIsAsked
    BY DefaultFollows
  <1> QED
    BY <1>1, FactorsInvariance, PTL
=============================================================================
