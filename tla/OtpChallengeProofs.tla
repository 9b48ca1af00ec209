------------------------- MODULE OtpChallengeProofs -------------------------
(***************************************************************************)
(* Proofs about OtpChallenge, for any number of requests, interactions,    *)
(* challenges and faults.                                                  *)
(***************************************************************************)
EXTENDS OtpChallenge, FiniteSetTheorems, TLAPS

\* A request is for an interaction, and names the challenge it sends or verifies.
NamingOf(r) ==
    /\ req[r].pc # "off" => req[r].uid \in Uids
    /\ req[r].pc \in {"sending", "spend", "consume"} => req[r].id \in Made
Naming == \A r \in Requests : NamingOf(r)

\* A row that was not made is blank.
Blank == \A i \in Ids \ Made : challenge[i] = NoChallenge

\* Each comparison spent an attempt, and no more were spent than there are.
Counted == \A i \in Ids : compared[i] = challenge[i].attempts /\ challenge[i].attempts <= MaxAttempts

\* A challenge that verified a request is used.
Closed == \A i \in Ids : won[i] > 0 => challenge[i].used

Inv == TypeOK /\ Naming /\ Blank /\ Counted /\ Closed /\ OneWinPerCode

\* A request that goes on or ends stays a request, and leaves the others alone.
LEMMA Moves ==
    ASSUME TypeOK, NEW r \in Requests, NEW pc \in Pcs, Go(r, pc) \/ End(r)
    PROVE  /\ req' \in [Requests -> Request]
           /\ req'[r].pc \in {pc, "off"}
           /\ req'[r].pc = pc /\ pc # "off" => req'[r].id = req[r].id /\ req'[r].uid = req[r].uid
           /\ \A p \in Requests \ {r} : req'[p] = req[p]
  <1>1. CASE Go(r, pc)
    <2>1. req' = [req EXCEPT ![r] = [req[r] EXCEPT !.pc = pc]] /\ req[r] \in Request
      BY <1>1 DEF Go, TypeOK
    <2>2. /\ [req[r] EXCEPT !.pc = pc] \in Request
          /\ [req[r] EXCEPT !.pc = pc].pc = pc
          /\ [req[r] EXCEPT !.pc = pc].id = req[r].id
          /\ [req[r] EXCEPT !.pc = pc].uid = req[r].uid
      BY <2>1 DEF Request
    <2> QED
      BY <2>1, <2>2 DEF TypeOK
  <1>2. CASE End(r)
    <2>1. NoRequest \in Request /\ NoRequest.pc = "off"
      BY DEF Request, NoRequest, Pcs
    <2> QED
      BY <1>2, <2>1 DEF End, TypeOK
  <1> QED
    BY <1>1, <1>2

\* Initially there is no challenge.
LEMMA InitInv == Init => Inv
  <1> SUFFICES ASSUME Init PROVE Inv
    OBVIOUS
  <1>1. TypeOK
    BY DEF Init, TypeOK, Challenge, NoChallenge, Request, NoRequest, Pcs
  <1>2. Naming /\ Blank /\ Counted /\ Closed /\ OneWinPerCode
    BY LimitAssumption DEF Init, Naming, NamingOf, Made, Blank, Counted, Closed, OneWinPerCode, NoChallenge, NoRequest
  <1> QED
    BY <1>1, <1>2 DEF Inv

\* A step that changes requests only, to ones that name their challenge.
LEMMA RequestStep ==
    ASSUME Inv, UNCHANGED <<challenge, faults, compared, won>>, now' \in Nat,
           cooldown' \in [Uids -> Nat], req' \in [Requests -> Request], Naming'
    PROVE  Inv'
  BY DEF Inv, TypeOK, Blank, Made, Counted, Closed, OneWinPerCode

\* A request in progress that goes on with its challenge, or ends.
LEMMA RequestMoves ==
    ASSUME Inv, Made' = Made, NEW r \in Requests, NEW pc \in Pcs \ {"off"},
           Go(r, pc) \/ End(r), req[r].pc # "off",
           pc \in {"sending", "spend", "consume"} => req[r].id \in Made
    PROVE  req' \in [Requests -> Request] /\ Naming'
  <1>1. TypeOK /\ Naming
    BY DEF Inv
  <1>2. /\ req' \in [Requests -> Request]
        /\ \A p \in Requests \ {r} : req'[p] = req[p]
        /\ req'[r].pc \in {pc, "off"}
        /\ req'[r].pc = pc => req'[r].id = req[r].id /\ req'[r].uid = req[r].uid
    BY <1>1, Moves
  <1>3. NamingOf(r)'
    BY <1>1, <1>2 DEF Naming, NamingOf
  <1>4. ASSUME NEW p \in Requests \ {r} PROVE NamingOf(p)'
    BY <1>1, <1>2 DEF Naming, NamingOf
  <1> QED
    BY <1>2, <1>3, <1>4 DEF Naming

\* A change of a row that was made keeps the rows in their types.
LEMMA RowStep ==
    ASSUME Inv, NEW i \in Made, NEW c \in Challenge, c.uid = challenge[i].uid,
           challenge' = [challenge EXCEPT ![i] = c]
    PROVE  /\ challenge' \in [Ids -> Challenge] /\ Made' = Made /\ Blank'
           /\ i \in Ids /\ challenge'[i] = c
           /\ \A j \in Ids \ {i} : challenge'[j] = challenge[j]
  <1>1. challenge \in [Ids -> Challenge] /\ i \in Ids
    BY DEF Inv, TypeOK, Made
  <1>2. /\ challenge' \in [Ids -> Challenge] /\ challenge'[i] = c
        /\ \A j \in Ids \ {i} : challenge'[j] = challenge[j]
    BY <1>1
  <1>3. Made' = Made
    BY <1>1, <1>2 DEF Made
  <1> QED
    BY <1>1, <1>2, <1>3 DEF Inv, Blank

\* Every step keeps the invariant.
LEMMA NextInv == Inv /\ [Next]_vars => Inv'
  <1> SUFFICES ASSUME Inv, [Next]_vars PROVE Inv'
    OBVIOUS
  <1> USE LimitAssumption
  <1>0. TypeOK /\ Naming
    BY DEF Inv
  <1>1. CASE UNCHANGED vars
    BY <1>1 DEF vars, Inv, TypeOK, Naming, NamingOf, Blank, Made, Counted, Closed, OneWinPerCode
  <1>2. CASE Tick
    <2>1. now' \in Nat /\ cooldown' \in [Uids -> Nat]
      BY <1>0, <1>2 DEF Tick, TypeOK
    <2>2. req' \in [Requests -> Request] /\ Naming'
      BY <1>0, <1>2 DEF Tick, TypeOK, Naming, NamingOf, Made
    <2> QED
      BY <1>2, <2>1, <2>2, RequestStep DEF Tick
  <1>3. ASSUME NEW r \in Requests, Step(r) PROVE Inv'
    <2>1. CASE SendBegin(r)
      <3>1. PICK u \in Uids, pc \in {"cool", "count"} :
              req' = [req EXCEPT ![r] = [NoRequest EXCEPT !.pc = pc, !.uid = u]]
        BY <2>1 DEF SendBegin
      <3>2. [NoRequest EXCEPT !.pc = pc, !.uid = u] \in Request
        BY DEF Request, NoRequest, Pcs
      <3>3. req' \in [Requests -> Request] /\ Naming'
        BY <1>0, <2>1, <3>1, <3>2 DEF SendBegin, TypeOK, Naming, NamingOf, Made, NoRequest
      <3> QED
        BY <1>0, <2>1, <3>3, RequestStep DEF SendBegin, TypeOK
    <2>2. CASE Cool(r) \/ CountSent(r) \/ Sent(r)
      <3>1. cooldown' \in [Uids -> Nat]
        BY <1>0, <2>2 DEF Cool, CountSent, Sent, TypeOK
      <3>2. Made' = Made
        BY <2>2 DEF Cool, CountSent, Sent, Made
      <3>3. req' \in [Requests -> Request] /\ Naming'
        <4>1. CASE Cool(r)
          BY <3>2, <4>1, RequestMoves DEF Cool, Pcs
        <4>2. CASE CountSent(r)
          BY <3>2, <4>2, RequestMoves DEF CountSent, Pcs
        <4>3. CASE Sent(r)
          BY <3>2, <4>3, RequestMoves DEF Sent, Pcs
        <4> QED
          BY <2>2, <4>1, <4>2, <4>3
      <3> QED
        BY <1>0, <2>2, <3>1, <3>3, RequestStep DEF Cool, CountSent, Sent, TypeOK
    <2>3. CASE Create(r)
      <3> DEFINE c == [NoChallenge EXCEPT !.uid = req[r].uid, !.created = now,
                                          !.expires = now + OtpTtl]
      <3>1. PICK i \in Ids \ Made :
              /\ challenge' = [challenge EXCEPT ![i] = c]
              /\ req' = [req EXCEPT ![r] = [@ EXCEPT !.pc = "sending", !.id = i]]
        BY <2>3 DEF Create
      <3>2. req[r].uid \in Uids /\ NoUid \notin Uids /\ Made \subseteq Ids
        BY <1>0, <2>3, SentinelAssumption DEF Create, Naming, NamingOf, Made
      <3>3. c \in Challenge /\ c.uid = req[r].uid /\ c.attempts = 0
        <4>1. now \in Nat /\ now + OtpTtl \in Nat
          BY <1>0 DEF TypeOK
        <4> QED
          BY <3>2, <4>1 DEF Challenge, NoChallenge
      <3> HIDE DEF c
      <3>4. challenge[i] = NoChallenge
        BY <3>1 DEF Inv, Blank
      <3>5. /\ Made' = Made \cup {i}
            /\ challenge' \in [Ids -> Challenge] /\ challenge'[i] = c
            /\ \A j \in Ids \ {i} : challenge'[j] = challenge[j]
        BY <1>0, <3>1, <3>2, <3>3 DEF TypeOK, Made
      <3>6. req' \in [Requests -> Request] /\ Naming'
        <4> DEFINE q == [req[r] EXCEPT !.pc = "sending", !.id = i]
        <4>1. q \in Request /\ q.uid = req[r].uid /\ q.id = i
          BY <1>0, <3>1 DEF TypeOK, Request, Pcs
        <4>2. req' = [req EXCEPT ![r] = q]
          BY <3>1
        <4> HIDE DEF q
        <4> QED
          BY <1>0, <3>1, <3>2, <3>5, <4>1, <4>2 DEF TypeOK, Naming, NamingOf
      <3>7. compared[i] = 0 /\ won[i] = 0
        BY <1>0, <3>1, <3>4 DEF Inv, TypeOK, Counted, Closed, NoChallenge
      <3>8. Blank'
        BY <3>5 DEF Inv, Blank
      <3>9. Counted' /\ Closed'
        <4>1. compared' = compared /\ won' = won /\ ~(won[i] > 0) /\ 0 <= MaxAttempts
          BY <2>3, <3>7 DEF Create
        <4>2. ASSUME NEW j \in Ids \ {i}
              PROVE  /\ compared'[j] = challenge'[j].attempts /\ challenge'[j].attempts <= MaxAttempts
                     /\ won'[j] > 0 => challenge'[j].used
          BY <3>5, <4>1 DEF Inv, Counted, Closed
        <4> QED
          BY <3>3, <3>5, <3>7, <4>1, <4>2 DEF Counted, Closed
      <3> QED
        BY <1>0, <2>3, <3>5, <3>6, <3>8, <3>9 DEF Create, Inv, TypeOK, OneWinPerCode
    <2>4. CASE SendFails(r)
      <3> DEFINE i == req[r].id
      <3>1. i \in Made /\ i \in Ids
        BY <1>0, <2>4 DEF SendFails, Naming, NamingOf, Made
      <3>2. challenge' = [challenge EXCEPT ![i] = [challenge[i] EXCEPT !.used = TRUE]]
        BY <2>4 DEF SendFails
      <3> DEFINE c == [challenge[i] EXCEPT !.used = TRUE]
      <3>3. /\ c \in Challenge /\ c.uid = challenge[i].uid /\ c.used
            /\ c.attempts = challenge[i].attempts
        BY <1>0, <3>1 DEF TypeOK, Challenge
      <3> HIDE DEF c, i
      <3>4. /\ challenge' \in [Ids -> Challenge] /\ Made' = Made /\ Blank'
            /\ challenge'[i] = c /\ \A j \in Ids \ {i} : challenge'[j] = challenge[j]
        BY <3>1, <3>2, <3>3, RowStep DEF c
      <3>5. req' \in [Requests -> Request] /\ Naming'
        BY <2>4, <3>4, RequestMoves DEF SendFails, Pcs
      <3>6. Counted' /\ Closed'
        BY <2>4, <3>1, <3>3, <3>4 DEF SendFails, Inv, Counted, Closed
      <3> QED
        BY <1>0, <2>4, <3>4, <3>5, <3>6 DEF SendFails, Inv, TypeOK, OneWinPerCode
    <2>5. CASE Find(r)
      <3>1. PICK i \in Made :
              req' = [req EXCEPT ![r] =
                        [NoRequest EXCEPT !.pc = "spend", !.uid = challenge[i].uid, !.id = i,
                                          !.seen = challenge[i].attempts]]
        BY <2>5 DEF Find
      <3> DEFINE q == [NoRequest EXCEPT !.pc = "spend", !.uid = challenge[i].uid, !.id = i,
                                        !.seen = challenge[i].attempts]
      <3>2. i \in Ids /\ challenge[i].uid \in Uids /\ challenge[i].attempts \in Nat
        BY <1>0 DEF Made, TypeOK, Challenge
      <3>3. q \in Request /\ q.uid \in Uids /\ q.id = i
        BY <3>2 DEF Request, NoRequest, Pcs
      <3>4. req' = [req EXCEPT ![r] = q]
        BY <3>1
      <3> HIDE DEF q
      <3>5. req' \in [Requests -> Request] /\ Naming'
        BY <1>0, <2>5, <3>3, <3>4 DEF Find, TypeOK, Naming, NamingOf, Made
      <3> QED
        BY <1>0, <2>5, <3>5, RequestStep DEF Find, TypeOK
    <2>6. CASE Spend(r)
      <3> DEFINE i == req[r].id
      <3>1. i \in Made /\ i \in Ids
        BY <1>0, <2>6 DEF Spend, Naming, NamingOf, Made
      <3>2. CASE ~(~challenge[i].used /\ now < challenge[i].expires
                   /\ challenge[i].attempts < MaxAttempts)
        <4>1. End(r) /\ UNCHANGED <<challenge, compared>>
          BY <2>6, <3>2 DEF Spend
        <4> QED
          <5>1. Made' = Made
            BY <4>1 DEF Made
          <5>2. req' \in [Requests -> Request] /\ Naming'
            BY <2>6, <4>1, <5>1, RequestMoves DEF Spend, Pcs
          <5> QED
            BY <1>0, <2>6, <4>1, <5>2, RequestStep DEF Spend, TypeOK
      <3>3. CASE ~challenge[i].used /\ now < challenge[i].expires
                 /\ challenge[i].attempts < MaxAttempts
        <4> DEFINE c == [challenge[i] EXCEPT !.attempts = @ + 1]
        <4>1. /\ challenge' = [challenge EXCEPT ![i] = c]
              /\ compared' = [compared EXCEPT ![i] = @ + 1]
              /\ Go(r, "consume") \/ End(r)
          BY <2>6, <3>3 DEF Spend
        <4>2. /\ c \in Challenge /\ c.uid = challenge[i].uid /\ c.used = challenge[i].used
              /\ c.attempts = challenge[i].attempts + 1
              /\ challenge[i].attempts \in Nat
          BY <1>0, <3>1 DEF TypeOK, Challenge
        <4> HIDE DEF c, i
        <4>3. /\ challenge' \in [Ids -> Challenge] /\ Made' = Made /\ Blank'
              /\ challenge'[i] = c /\ \A j \in Ids \ {i} : challenge'[j] = challenge[j]
          BY <3>1, <4>1, <4>2, RowStep
        <4>4. req' \in [Requests -> Request] /\ Naming'
          <5>1. req[r].pc # "off" /\ req[r].id \in Made
            BY <2>6, <3>1 DEF Spend, i
          <5> QED
            BY <4>1, <4>3, <5>1, RequestMoves DEF Pcs
        <4>5. /\ compared' \in [Ids -> Nat] /\ compared'[i] = compared[i] + 1
              /\ \A j \in Ids \ {i} : compared'[j] = compared[j]
          BY <1>0, <3>1, <4>1 DEF TypeOK
        <4>6. Counted'
          <5> SUFFICES ASSUME NEW j \in Ids
                       PROVE compared'[j] = challenge'[j].attempts
                             /\ challenge'[j].attempts <= MaxAttempts
            BY DEF Counted
          <5>1. CASE j = i
            BY <3>1, <3>3, <4>2, <4>3, <4>5, <5>1 DEF Inv, Counted
          <5>2. CASE j # i
            BY <4>3, <4>5, <5>2 DEF Inv, Counted
          <5> QED
            BY <5>1, <5>2
        <4>7. Closed'
          BY <2>6, <3>1, <4>2, <4>3 DEF Spend, Inv, Closed
        <4> QED
          BY <1>0, <2>6, <4>3, <4>4, <4>5, <4>6, <4>7 DEF Spend, Inv, TypeOK, OneWinPerCode
      <3> QED
        BY <3>2, <3>3
    <2>7. CASE Consume(r)
      <3> DEFINE i == req[r].id
                 c == [challenge[i] EXCEPT !.used = TRUE]
      <3>1. i \in Made /\ i \in Ids
        BY <1>0, <2>7 DEF Consume, Naming, NamingOf, Made
      <3>2. /\ challenge' = [challenge EXCEPT ![i] = c] /\ End(r) /\ req[r].pc # "off"
            /\ won' = IF challenge[i].used THEN won ELSE [won EXCEPT ![i] = @ + 1]
        BY <2>7 DEF Consume
      <3>3. /\ c \in Challenge /\ c.uid = challenge[i].uid /\ c.used
            /\ c.attempts = challenge[i].attempts
        BY <1>0, <3>1 DEF TypeOK, Challenge
      <3> HIDE DEF c, i
      <3>4. /\ challenge' \in [Ids -> Challenge] /\ Made' = Made /\ Blank'
            /\ challenge'[i] = c /\ \A j \in Ids \ {i} : challenge'[j] = challenge[j]
        BY <3>1, <3>2, <3>3, RowStep
      <3>5. req' \in [Requests -> Request] /\ Naming'
        <4>1. "cool" \in Pcs \ {"off"} /\ "cool" \notin {"sending", "spend", "consume"}
          BY DEF Pcs
        <4> QED
          BY <3>2, <3>4, <4>1, RequestMoves
      <3>6. Counted'
        BY <2>7, <3>3, <3>4 DEF Consume, Inv, Counted
      <3>7. /\ won' \in [Ids -> Nat] /\ won'[i] <= 1
            /\ \A j \in Ids \ {i} : won'[j] = won[j]
        <4>1. won \in [Ids -> Nat] /\ won[i] <= 1 /\ (~challenge[i].used => won[i] = 0)
          BY <3>1 DEF Inv, TypeOK, OneWinPerCode, Closed
        <4> QED
          BY <3>1, <3>2, <4>1
      <3>8. Closed' /\ OneWinPerCode'
        BY <3>3, <3>4, <3>7 DEF Inv, Closed, OneWinPerCode
      <3> QED
        BY <1>0, <2>7, <3>4, <3>5, <3>6, <3>7, <3>8 DEF Consume, Inv, TypeOK
    <2>8. CASE Dies(r)
      <3>1. Made' = Made
        BY <2>8 DEF Dies, Made
      <3>2. req' \in [Requests -> Request] /\ Naming'
        <4>1. "cool" \in Pcs \ {"off"} /\ "cool" \notin {"sending", "spend", "consume"}
          BY DEF Pcs
        <4> QED
          BY <2>8, <3>1, <4>1, RequestMoves DEF Dies
      <3> QED
        BY <1>0, <2>8, <3>1, <3>2
           DEF Dies, Inv, TypeOK, Blank, Counted, Closed, OneWinPerCode
    <2> QED
      BY <1>3, <2>1, <2>2, <2>3, <2>4, <2>5, <2>6, <2>7, <2>8 DEF Step
  <1> QED
    BY <1>1, <1>2, <1>3 DEF Next

\* What a request knows of its challenge holds in every reachable state.
THEOREM Invariance == Spec => []Inv
  BY InitInv, NextInv, PTL DEF Spec

\* TypeOK holds in every reachable state.
THEOREM TypeCorrect == Spec => []TypeOK
  BY Invariance, PTL DEF Inv

\* However many requests submit a code that was sent, it verifies at most one.
THEOREM CodesWinOnce == Spec => []OneWinPerCode
  BY Invariance, PTL DEF Inv

\* However many guesses run in parallel, a challenge is compared with at most
\* MaxAttempts of them.
THEOREM GuessesBounded == Spec => []GuessesWithinLimit
  <1>1. Inv => GuessesWithinLimit
    BY DEF Inv, Counted, GuessesWithinLimit
  <1> QED
    BY <1>1, Invariance, PTL
-----------------------------------------------------------------------------
(* The cap on the codes sent.                                              *)

\* The requests that were let through by countSentSince and have no row yet.
Creating == {r \in Requests : req[r].pc = "create"}

\* Each of them still adds to the codes of the hour.
Sending == IsFiniteSet(Recent) /\ Cardinality(Recent) + Cardinality(Creating) < Cap + Cardinality(Requests)

\* A step after which neither is larger.
LEMMA NoMoreSent ==
    ASSUME IsFiniteSet(Requests), Sending, Recent' \subseteq Recent, Creating' \subseteq Creating
    PROVE  Sending'
  <1>1. /\ IsFiniteSet(Recent') /\ Cardinality(Recent') \in Nat /\ Cardinality(Recent) \in Nat
        /\ Cardinality(Recent') <= Cardinality(Recent)
    BY FS_Subset, FS_CardinalityType DEF Sending
  <1>2. IsFiniteSet(Creating)
    BY FS_Subset DEF Creating
  <1>3. /\ Cardinality(Creating') \in Nat /\ Cardinality(Creating) \in Nat
        /\ Cardinality(Creating') <= Cardinality(Creating)
    BY <1>2, FS_Subset, FS_CardinalityType
  <1>4. Cap \in Nat /\ Cardinality(Requests) \in Nat
    BY LimitAssumption, FS_CardinalityType
  <1> QED
    BY <1>1, <1>3, <1>4 DEF Sending

\* A request that goes on, but not to make a row.
LEMMA NotCreating ==
    ASSUME TypeOK, NEW r \in Requests, NEW q, q.pc # "create", req' = [req EXCEPT ![r] = q]
    PROVE  Creating' \subseteq Creating
  BY DEF Creating, TypeOK

LEMMA GoesOn ==
    ASSUME TypeOK, NEW r \in Requests, NEW pc \in Pcs \ {"create"}, Go(r, pc) \/ End(r)
    PROVE  Creating' \subseteq Creating
  <1>1. NoRequest.pc # "create"
    BY DEF NoRequest
  <1>2. req[r] \in Request
    BY DEF TypeOK
  <1>3. [req[r] EXCEPT !.pc = pc].pc # "create"
    BY <1>2 DEF Request
  <1> QED
    BY <1>1, <1>3, NotCreating DEF Go, End

\* The codes of the last hour, and those about to be made, stay near the cap.
LEMMA NextSending ==
    ASSUME IsFiniteSet(Requests), Inv, Sending, [Next]_vars PROVE Sending'
  <1> USE LimitAssumption
  <1>1. TypeOK /\ Blank
    BY DEF Inv
  <1>2. CASE UNCHANGED vars
    <2>1. Recent' = Recent /\ Creating' = Creating
      BY <1>2 DEF vars, Recent, Made, Creating
    <2> QED
      BY <2>1, NoMoreSent
  <1>3. CASE Tick
    <2>1. Recent' \subseteq Recent
      BY <1>1, <1>3 DEF Tick, Recent, Made, TypeOK, Challenge
    <2>2. Creating' = Creating
      BY <1>3 DEF Tick, Creating
    <2> QED
      BY <2>1, <2>2, NoMoreSent
  <1>4. ASSUME NEW r \in Requests, Step(r) PROVE Sending'
    <2>1. CASE SendBegin(r) \/ Cool(r) \/ Sent(r) \/ Find(r) \/ Dies(r)
      <3>1. challenge' = challenge /\ now' = now
        BY <2>1 DEF SendBegin, Cool, Sent, Find, Dies
      <3>2. Recent' = Recent
        BY <3>1 DEF Recent, Made
      <3>3. Creating' \subseteq Creating
        <4>1. CASE SendBegin(r)
          <5>1. PICK u \in Uids, pc \in {"cool", "count"} :
                  req' = [req EXCEPT ![r] = [NoRequest EXCEPT !.pc = pc, !.uid = u]]
            BY <4>1 DEF SendBegin
          <5>2. [NoRequest EXCEPT !.pc = pc, !.uid = u].pc # "create"
            BY DEF NoRequest
          <5> QED
            BY <1>1, <5>1, <5>2, NotCreating
        <4>2. CASE Cool(r) \/ Sent(r) \/ Dies(r)
          <5>1. Go(r, "count") \/ End(r)
            BY <4>2 DEF Cool, Sent, Dies
          <5> QED
            BY <1>1, <5>1, GoesOn DEF Pcs
        <4>3. CASE Find(r)
          <5>1. PICK i \in Made :
                  req' = [req EXCEPT ![r] =
                            [NoRequest EXCEPT !.pc = "spend", !.uid = challenge[i].uid, !.id = i,
                                              !.seen = challenge[i].attempts]]
            BY <4>3 DEF Find
          <5>2. [NoRequest EXCEPT !.pc = "spend", !.uid = challenge[i].uid, !.id = i,
                                  !.seen = challenge[i].attempts].pc # "create"
            BY DEF NoRequest
          <5> QED
            BY <1>1, <5>1, <5>2, NotCreating
        <4> QED
          BY <2>1, <4>1, <4>2, <4>3
      <3> QED
        BY <3>2, <3>3, NoMoreSent
    <2>2. CASE SendFails(r) \/ Spend(r) \/ Consume(r)
      <3>1. /\ now' = now
            /\ \A i \in Ids : /\ challenge'[i].uid = challenge[i].uid
                              /\ challenge'[i].created = challenge[i].created
        BY <1>1, <2>2 DEF SendFails, Spend, Consume, TypeOK, Challenge
      <3>2. Recent' = Recent
        BY <3>1 DEF Recent, Made
      <3>3. Creating' \subseteq Creating
        <4>1. Go(r, "consume") \/ End(r)
          BY <2>2 DEF SendFails, Spend, Consume
        <4> QED
          BY <1>1, <4>1, GoesOn DEF Pcs
      <3> QED
        BY <3>2, <3>3, NoMoreSent
    <2>3. CASE CountSent(r)
      <3>1. Recent' = Recent
        BY <2>3 DEF CountSent, Recent, Made
      <3>2. CASE Cardinality(Recent) >= Cap
        <4>1. Creating' \subseteq Creating
          BY <1>1, <2>3, <3>2 DEF CountSent, Creating, TypeOK, End, NoRequest
        <4> QED
          BY <3>1, <4>1, NoMoreSent
      <3>3. CASE ~(Cardinality(Recent) >= Cap)
        <4>1. Cardinality(Recent) \in Nat /\ Cardinality(Requests) \in Nat
          BY FS_CardinalityType DEF Sending
        <4>2. Cardinality(Creating') \in Nat /\ Cardinality(Creating') <= Cardinality(Requests)
          BY FS_Subset, FS_CardinalityType DEF Creating
        <4> QED
          BY <3>1, <3>3, <4>1, <4>2 DEF Sending
      <3> QED
        BY <3>2, <3>3
    <2>4. CASE Create(r)
      <3>1. PICK i \in Ids \ Made :
              /\ challenge' = [challenge EXCEPT ![i] =
                                 [NoChallenge EXCEPT !.uid = req[r].uid, !.created = now,
                                                     !.expires = now + OtpTtl]]
              /\ req' = [req EXCEPT ![r] = [@ EXCEPT !.pc = "sending", !.id = i]]
        BY <2>4 DEF Create
      <3>2. now' = now /\ req[r].pc = "create"
        BY <2>4 DEF Create
      <3>3. Recent' \subseteq Recent \cup {i}
        BY <1>1, <3>1, <3>2 DEF Recent, Made, TypeOK
      <3>4. Creating' = Creating \ {r} /\ r \in Creating
        BY <1>1, <3>1, <3>2 DEF Creating, TypeOK, Request
      <3>5. /\ IsFiniteSet(Recent') /\ Cardinality(Recent') \in Nat /\ Cardinality(Recent) \in Nat
            /\ Cardinality(Recent') <= Cardinality(Recent) + 1
        <4>1. /\ IsFiniteSet(Recent) /\ IsFiniteSet(Recent \cup {i}) /\ Cardinality(Recent) \in Nat
              /\ Cardinality(Recent \cup {i}) <= Cardinality(Recent) + 1
          <5>1. IsFiniteSet(Recent)
            BY DEF Sending
          <5>2. Cardinality(Recent) \in Nat
            BY <5>1, FS_CardinalityType
          <5>3. /\ IsFiniteSet(Recent \cup {i})
                /\ Cardinality(Recent \cup {i}) =
                     IF i \in Recent THEN Cardinality(Recent) ELSE Cardinality(Recent) + 1
            BY <5>1, FS_AddElement
          <5> QED
            BY <5>1, <5>2, <5>3
        <4>2. /\ IsFiniteSet(Recent')
              /\ Cardinality(Recent') <= Cardinality(Recent \cup {i})
              /\ Cardinality(Recent \cup {i}) \in Nat /\ Cardinality(Recent') \in Nat
          BY <3>3, <4>1, FS_Subset, FS_CardinalityType
        <4> QED
          BY <4>1, <4>2
      <3>6. /\ Cardinality(Creating) \in Nat /\ Cardinality(Creating') \in Nat
            /\ Cardinality(Creating') = Cardinality(Creating) - 1
        <4>1. IsFiniteSet(Creating)
          BY FS_Subset DEF Creating
        <4> QED
          BY <3>4, <4>1, FS_RemoveElement, FS_CardinalityType
      <3>7. Cardinality(Requests) \in Nat
        BY FS_CardinalityType
      <3> QED
        BY <3>5, <3>6, <3>7 DEF Sending
    <2> QED
      BY <1>4, <2>1, <2>2, <2>3, <2>4 DEF Step
  <1> QED
    BY <1>2, <1>3, <1>4 DEF Next

\* However many requests send at once, and however often, the codes of an hour
\* exceed the cap by fewer than there are requests.
THEOREM SendsNearCap ==
    ASSUME IsFiniteSet(Requests) PROVE Spec => []SentNearCap
  <1> USE LimitAssumption
  <1>1. Init => Sending
    <2> SUFFICES ASSUME Init PROVE Sending
      OBVIOUS
    <2>1. Recent = {} /\ Creating = {}
      BY DEF Init, Recent, Made, Creating, NoChallenge, NoRequest
    <2>2. Cardinality(Requests) \in Nat
      BY FS_CardinalityType
    <2> QED
      BY <2>1, <2>2, FS_EmptySet DEF Sending
  <1>2. Inv /\ Sending /\ [Next]_vars => Sending'
    BY NextSending
  <1>3. Sending => SentNearCap
    <2>1. IsFiniteSet(Creating)
      BY FS_Subset DEF Creating
    <2> QED
      BY <2>1, FS_CardinalityType DEF Sending, SentNearCap
  <1> QED
    BY <1>1, <1>2, <1>3, Invariance, PTL DEF Spec
=============================================================================
