-------------------------- MODULE TotpFactorProofs --------------------------
(***************************************************************************)
(* Proofs about TotpFactor, for any number of requests, interactions, hits *)
(* and faults.                                                             *)
(***************************************************************************)
EXTENDS TotpFactor, FiniteSetTheorems, TLAPS

\* Every step that verified a request is at or below the last step used.
Spent == \A s \in Steps : accepted[s] > 0 => s <= lastStep

Inv == TotpTypeOK /\ OneWinPerStep /\ Spent

\* A request that goes on or ends stays a request, and leaves the others alone.
LEMMA Moves ==
    ASSUME TotpTypeOK, NEW r \in Submits, NEW pc \in SubmitPcs, GoOn(r, pc) \/ Done(r)
    PROVE  /\ submit' \in [Submits -> Submit]
           /\ submit'[r].pc \in {pc, "off"}
           /\ \A p \in Submits \ {r} : submit'[p] = submit[p]
  <1>1. CASE GoOn(r, pc)
    <2>1. submit' = [submit EXCEPT ![r] = [submit[r] EXCEPT !.pc = pc]] /\ submit[r] \in Submit
      BY <1>1 DEF GoOn, TotpTypeOK
    <2>2. [submit[r] EXCEPT !.pc = pc] \in Submit /\ [submit[r] EXCEPT !.pc = pc].pc = pc
      BY <2>1 DEF Submit
    <2> QED
      BY <2>1, <2>2 DEF TotpTypeOK
  <1>2. CASE Done(r)
    <2>1. NoSubmit \in Submit /\ NoSubmit.pc = "off"
      BY DEF Submit, NoSubmit, SubmitPcs
    <2> QED
      BY <1>2, <2>1 DEF Done, TotpTypeOK
  <1> QED
    BY <1>1, <1>2

\* Initially nothing was verified.
LEMMA InitInv == TotpInit => Inv
  <1> SUFFICES ASSUME TotpInit PROVE Inv
    OBVIOUS
  <1>1. TotpTypeOK
    BY TriesAssumption DEF TotpInit, TotpTypeOK, FirstStep, Steps, Counter, NoCounter, Submit, NoSubmit, SubmitPcs
  <1>2. OneWinPerStep /\ Spent
    BY DEF TotpInit, OneWinPerStep, Spent
  <1> QED
    BY <1>1, <1>2 DEF Inv

\* Every step keeps the invariant.
LEMMA NextInv == Inv /\ [TotpNext]_totpVars => Inv'
  <1> SUFFICES ASSUME Inv, [TotpNext]_totpVars PROVE Inv'
    OBVIOUS
  <1> USE TriesAssumption DEF Inv
  <1>0. Steps \subseteq Nat
    BY DEF Steps, FirstStep
  <1>1. CASE UNCHANGED totpVars
    BY <1>1 DEF totpVars, TotpTypeOK, OneWinPerStep, Spent
  <1>2. CASE StepPasses
    <2>1. TotpTypeOK'
      BY <1>2 DEF StepPasses, TotpTypeOK, Counter, NoCounter
    <2> QED
      BY <1>2, <2>1 DEF StepPasses, OneWinPerStep, Spent
  <1>3. ASSUME NEW r \in Submits, SubmitStep(r) PROVE Inv'
    <2>1. CASE Hit(r)
      <3>1. PICK u \in Pages, s \in Steps :
              LET n == tries[u].count + 1
                  q == [pc |-> "check", page |-> u, step |-> s, allowed |-> n <= MaxTries]
              IN  /\ tries' = [tries EXCEPT ![u].count = n]
                  /\ submit' = [submit EXCEPT ![r] =
                               IF tries[u].ends = 0 THEN [q EXCEPT !.pc = "expire"]
                               ELSE IF q.allowed THEN q ELSE NoSubmit]
        BY <2>1 DEF Hit
      <3>2. tries' \in [Pages -> Counter]
        BY <3>1 DEF TotpTypeOK, Counter
      <3>3. submit' \in [Submits -> Submit]
        <4> DEFINE q == [pc |-> "check", page |-> u, step |-> s,
                         allowed |-> tries[u].count + 1 <= MaxTries]
        <4>1. (tries[u].count + 1 <= MaxTries) \in BOOLEAN
          OBVIOUS
        <4>2. q \in Submit /\ [q EXCEPT !.pc = "expire"] \in Submit /\ NoSubmit \in Submit
          BY <4>1 DEF Submit, NoSubmit, SubmitPcs
        <4> QED
          BY <3>1, <4>2 DEF TotpTypeOK
      <3> QED
        BY <2>1, <3>2, <3>3 DEF Hit, TotpTypeOK, OneWinPerStep, Spent
    <2>2. CASE Expire(r)
      <3>1. submit' \in [Submits -> Submit]
        BY <2>2, Moves DEF Expire, SubmitPcs
      <3>2. tries' \in [Pages -> Counter]
        <4>1. CASE submit[r].page \in Pages
          BY <2>2, <4>1 DEF Expire, TotpTypeOK, Counter
        <4>2. CASE submit[r].page \notin Pages
          BY <2>2, <4>2 DEF Expire, TotpTypeOK
        <4> QED
          BY <4>1, <4>2
      <3> QED
        BY <2>2, <3>1, <3>2 DEF Expire, TotpTypeOK, OneWinPerStep, Spent
    <2>3. CASE Check(r)
      <3>1. submit' \in [Submits -> Submit]
        BY <2>3, Moves DEF Check, SubmitPcs
      <3> QED
        BY <2>3, <3>1 DEF Check, TotpTypeOK, OneWinPerStep, Spent
    <2>4. CASE Accept(r)
      <3>1. submit' \in [Submits -> Submit]
        BY <2>4, Moves DEF Accept, SubmitPcs
      <3>2. CASE lastStep < submit[r].step
        <4> DEFINE s == submit[r].step
        <4>1. s \in Steps /\ lastStep' = s /\ accepted' = [accepted EXCEPT ![s] = @ + 1]
          BY <1>0, <2>4, <3>2 DEF Accept, TotpTypeOK, Submit
        <4> HIDE DEF s
        <4>2. s \in Nat /\ lastStep \in Nat /\ lastStep < s /\ accepted[s] = 0
          <5>1. s \in Nat /\ lastStep \in Nat /\ accepted[s] \in Nat
            BY <1>0, <4>1 DEF TotpTypeOK
          <5>2. lastStep < s
            BY <3>2 DEF s
          <5> QED
            BY <4>1, <5>1, <5>2 DEF Spent
        <4>3. TotpTypeOK'
          BY <2>4, <3>1, <4>1 DEF Accept, TotpTypeOK
        <4>4. OneWinPerStep'
          BY <4>1, <4>2 DEF TotpTypeOK, OneWinPerStep
        <4>5. Spent'
          BY <1>0, <4>1, <4>2 DEF TotpTypeOK, Spent
        <4> QED
          BY <4>3, <4>4, <4>5
      <3>3. CASE ~(lastStep < submit[r].step)
        BY <2>4, <3>1, <3>3 DEF Accept, TotpTypeOK, OneWinPerStep, Spent
      <3> QED
        BY <3>2, <3>3
    <2>5. CASE SubmitDies(r)
      <3>1. submit' \in [Submits -> Submit]
        BY <2>5, Moves DEF SubmitDies, SubmitPcs
      <3> QED
        BY <2>5, <3>1 DEF SubmitDies, TotpTypeOK, OneWinPerStep, Spent
    <2> QED
      BY <1>3, <2>1, <2>2, <2>3, <2>4, <2>5 DEF SubmitStep
  <1> QED
    BY <1>1, <1>2, <1>3 DEF TotpNext

\* No step of the app that verified a request lies ahead of the last step used.
THEOREM Invariance == TotpSpec => []Inv
  BY InitInv, NextInv, PTL DEF TotpSpec

\* TypeOK holds in every reachable state.
THEOREM TypeCorrect == TotpSpec => []TotpTypeOK
  BY Invariance, PTL DEF Inv

\* Whatever the interleaving, the tabs and the order of the codes, a code of the
\* authenticator app verifies at most one request.
THEOREM StepsWinOnce == TotpSpec => []OneWinPerStep
  BY Invariance, PTL DEF Inv

-----------------------------------------------------------------------------
(* The counter of an interaction is timed.                                 *)

\* The requests between INCR and EXPIRE are finitely many, before and after.
LEMMA ExpiringFinite ==
    ASSUME NEW u \in Pages
    PROVE  /\ IsFiniteSet(Expiring(u)) /\ Cardinality(Expiring(u)) \in Nat
           /\ IsFiniteSet(Expiring(u)') /\ Cardinality(Expiring(u)') \in Nat
  <1>1. Expiring(u) \subseteq Submits /\ Expiring(u)' \subseteq Submits
    BY DEF Expiring
  <1> QED
    BY <1>1, SubmitsAssumption, FS_Subset, FS_CardinalityType

\* Every step keeps LimitIsTimed.
LEMMA NextTimed == Inv /\ LimitIsTimed /\ [TotpNext]_totpVars => LimitIsTimed'
  <1> SUFFICES ASSUME Inv, LimitIsTimed, [TotpNext]_totpVars, NEW u \in Pages, tries'[u].ends = 0
               PROVE  tries'[u].count <= dead' + Cardinality(Expiring(u)')
    BY DEF LimitIsTimed
  <1> USE DEF Inv
  <1>0. /\ dead \in Nat /\ tries \in [Pages -> Counter] /\ tries[u].count \in Nat
        /\ tries[u].ends \in Nat /\ currentStep \in Nat /\ Window \in Nat \ {0}
        /\ Cardinality(Expiring(u)) \in Nat
    BY TriesAssumption, ExpiringFinite DEF TotpTypeOK, Counter
  <1>1. ASSUME tries'[u] = tries[u] PROVE tries[u].count <= dead + Cardinality(Expiring(u))
    BY <1>1 DEF LimitIsTimed
  <1>2. CASE UNCHANGED totpVars
    BY <1>1, <1>2 DEF totpVars, Expiring
  <1>3. CASE StepPasses
    <2>1. Expiring(u)' = Expiring(u) /\ dead' = dead
      BY <1>3 DEF StepPasses, Expiring
    <2>2. CASE tries[u].ends \in 1..(currentStep + 1)
      BY <1>0, <1>3, <2>1, <2>2 DEF StepPasses, NoCounter
    <2>3. CASE tries[u].ends \notin 1..(currentStep + 1)
      BY <1>1, <1>3, <2>1, <2>3 DEF StepPasses
    <2> QED
      BY <2>2, <2>3
  <1>4. ASSUME NEW r \in Submits, SubmitStep(r)
        PROVE  tries'[u].count <= dead' + Cardinality(Expiring(u)')
    <2>1. CASE Hit(r)
      <3>1. PICK v \in Pages, s \in Steps :
              LET n == tries[v].count + 1
                  q == [pc |-> "check", page |-> v, step |-> s, allowed |-> n <= MaxTries]
              IN  /\ tries' = [tries EXCEPT ![v].count = n]
                  /\ submit' = [submit EXCEPT ![r] =
                               IF tries[v].ends = 0 THEN [q EXCEPT !.pc = "expire"]
                               ELSE IF q.allowed THEN q ELSE NoSubmit]
        BY <2>1 DEF Hit
      <3>2. r \notin Expiring(u) /\ dead' = dead
        BY <2>1 DEF Hit, Expiring
      <3>3. CASE u = v
        <4>1. tries[u].ends = 0 /\ tries'[u].count = tries[u].count + 1
          BY <1>0, <3>1, <3>3 DEF Counter
        <4>2. submit'[r].pc = "expire" /\ submit'[r].page = u
              /\ \A p \in Submits \ {r} : submit'[p] = submit[p]
          BY <3>1, <3>3, <4>1 DEF TotpTypeOK
        <4>3. Expiring(u)' = Expiring(u) \cup {r}
          BY <4>2 DEF Expiring
        <4>4. Cardinality(Expiring(u)') = Cardinality(Expiring(u)) + 1
          BY <3>2, <4>3, ExpiringFinite, FS_AddElement
        <4>5. tries[u].count <= dead + Cardinality(Expiring(u))
          BY <4>1 DEF LimitIsTimed
        <4> QED
          BY <1>0, <3>2, <4>1, <4>4, <4>5
      <3>4. CASE u # v
        <4>1. tries'[u] = tries[u]
          BY <1>0, <3>1, <3>4
        <4>2. submit'[r].pc # "expire" \/ submit'[r].page # u
          BY <3>1, <3>4 DEF TotpTypeOK, NoSubmit
        <4>3. \A p \in Submits \ {r} : submit'[p] = submit[p]
          BY <3>1 DEF TotpTypeOK
        <4>4. Expiring(u)' = Expiring(u)
          BY <3>2, <4>2, <4>3 DEF Expiring
        <4> QED
          BY <1>1, <3>2, <4>1, <4>4
      <3> QED
        BY <3>3, <3>4
    <2>2. CASE Expire(r)
      <3>1. dead' = dead
        BY <2>2 DEF Expire
      <3>2. CASE u = submit[r].page
        <4>1. tries[u].count = 0 /\ tries' = tries
          <5> SUFFICES ASSUME tries[u].count # 0 PROVE FALSE
            BY <2>2, <3>2 DEF Expire
          <5>1. tries'[u].ends = currentStep + Window
            BY <1>0, <2>2, <3>2 DEF Expire, Counter
          <5> QED
            BY <1>0, <5>1
        <4> QED
          BY <1>0, <3>1, <4>1, ExpiringFinite
      <3>3. CASE u # submit[r].page
        <4>1. tries'[u] = tries[u]
          BY <1>0, <2>2, <3>3 DEF Expire
        <4>2. \A p \in Submits \ {r} : submit'[p] = submit[p]
          BY <2>2, Moves DEF Expire, SubmitPcs
        <4>3. submit'[r].pc # "expire"
          BY <2>2, Moves DEF Expire, SubmitPcs
        <4>4. Expiring(u)' = Expiring(u)
          BY <3>3, <4>2, <4>3 DEF Expiring
        <4> QED
          BY <1>1, <3>1, <4>1, <4>4
      <3> QED
        BY <3>2, <3>3
    <2>3. CASE Check(r) \/ Accept(r)
      <3>1. tries' = tries /\ dead' = dead
        BY <2>3 DEF Check, Accept
      <3>2. submit[r].pc # "expire" /\ submit'[r].pc # "expire"
        BY <2>3, Moves DEF Check, Accept, SubmitPcs
      <3>3. \A p \in Submits \ {r} : submit'[p] = submit[p]
        BY <2>3, Moves DEF Check, Accept, SubmitPcs
      <3>4. Expiring(u)' = Expiring(u)
        BY <3>2, <3>3 DEF Expiring
      <3> QED
        BY <1>1, <3>1, <3>4
    <2>4. CASE SubmitDies(r)
      <3>1. tries' = tries /\ dead' = dead + 1
        BY <2>4 DEF SubmitDies
      <3>2. submit'[r].pc = "off" /\ \A p \in Submits \ {r} : submit'[p] = submit[p]
        BY <2>4, Moves DEF SubmitDies, SubmitPcs
      <3>3. Expiring(u)' = Expiring(u) \ {r}
        BY <3>2 DEF Expiring
      <3>4. Cardinality(Expiring(u)') >= Cardinality(Expiring(u)) - 1
        BY <1>0, <3>3, ExpiringFinite, FS_RemoveElement
      <3>5. Cardinality(Expiring(u)') \in Nat
        BY ExpiringFinite
      <3> QED
        BY <1>0, <1>1, <3>1, <3>4, <3>5
    <2> QED
      BY <1>4, <2>1, <2>2, <2>3, <2>4 DEF SubmitStep
  <1> QED
    BY <1>2, <1>3, <1>4 DEF TotpNext

\* A request that dies between INCR and EXPIRE leaves a counter that the next
\* try sets a time for.
THEOREM LimitsAreTimed == TotpSpec => []LimitIsTimed
  <1>1. TotpInit => LimitIsTimed
    <2> SUFFICES ASSUME TotpInit, NEW u \in Pages PROVE tries[u].count <= dead + Cardinality(Expiring(u))
      BY DEF LimitIsTimed
    <2> QED
      BY ExpiringFinite DEF TotpInit, NoCounter
  <1> QED
    BY <1>1, Invariance, NextTimed, PTL DEF TotpSpec
=============================================================================
