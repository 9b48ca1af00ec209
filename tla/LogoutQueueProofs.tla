-------------------------- MODULE LogoutQueueProofs --------------------------
(***************************************************************************)
(* Proofs about LogoutQueue, for any clients, instances, retry schedule,   *)
(* lease, batch and faults; among them that it implements LogoutDelivery.  *)
(***************************************************************************)
EXTENDS LogoutQueue, TLAPS

\* An attempt whose outcome is not recorded holds the lease of an open delivery;
\* once it is recorded, the delivery is settled for good.
Leasing(f) ==
    /\ Unrecorded(f) => delivery[f.client].status \in Open /\ delivery[f.client].wait > 0
    /\ ~Unrecorded(f) => f.out \in Final /\ delivery[f.client].status = f.out

\* A retry is only recorded while the schedule has an entry for it.
Retriable(f) == f.pc = "record" /\ f.out = "RETRY" => f.n < Len(Schedule)

\* A message that was answered has reached its client.
Reached(f) ==
    f.pc = "posted" \/ (f.pc = "record" /\ f.out = "SUCCEEDED") => f.client \in told

FlightInv(f) == Leasing(f) /\ Retriable(f) /\ Reached(f)

\* Recorded or not, a delivery has one attempt.
Alone == \A f, g \in flights : f.client = g.client => f = g

\* Before the job there are no deliveries.
Unopened == job = "NONE" => \A c \in Clients : delivery[c] = NoDelivery

\* The status of a participant whose delivery was settled as s.
PartOf(s) == IF s = "DEAD" THEN "FAILED" ELSE s

\* Without a fault, a settled client has its status or an attempt that will set it.
Agreeing ==
    faults = 0 =>
      \A c \in Clients : delivery[c].status \in Final =>
        \/ part[c] = PartOf(delivery[c].status)
        \/ \E f \in flights : f.client = c /\ f.pc = "part"

Inv == TypeOK /\ (\A f \in flights : FlightInv(f)) /\ Alone /\ Unopened /\ Agreeing

-----------------------------------------------------------------------------
(* Steps that change attempts.                                             *)

\* Before the job there are no attempts either.
LEMMA NoFlights ==
    ASSUME Inv, job = "NONE" PROVE flights = {}
  <1> SUFFICES ASSUME NEW f \in flights PROVE FALSE
    OBVIOUS
  <1>1. delivery[f.client].status = "NONE"
    BY DEF Inv, TypeOK, Flight, Unopened, NoDelivery
  <1> QED
    BY <1>1 DEF Inv, FlightInv, Leasing, Open, Final

\* An attempt that goes on as g leaves the others alone.
LEMMA Replaced ==
    ASSUME Inv, NEW f \in flights, NEW g \in Flight, g.client = f.client, flights' = Replace(f, g)
    PROVE  /\ flights' \subseteq Flight
           /\ Alone'
           /\ \A h \in flights' : h = g \/ (h \in flights /\ h.client # f.client)
           /\ g \in flights'
           /\ \A h \in flights : h.client # f.client => h \in flights'
  BY DEF Inv, TypeOK, Alone, Replace

\* An attempt that ends.
LEMMA Removed ==
    ASSUME Inv, NEW f \in flights, flights' = flights \ {f}
    PROVE  /\ flights' \subseteq Flight
           /\ Alone'
           /\ \A h \in flights' : h \in flights /\ h.client # f.client
           /\ \A h \in flights : h.client # f.client => h \in flights'
  BY DEF Inv, TypeOK, Alone

\* An attempt goes on, and nothing changes but the messages that were sent.
LEMMA GoesOn ==
    ASSUME Inv, NEW f \in flights, Unrecorded(f),
           NEW g \in Flight, g.client = f.client, flights' = Replace(f, g), Unrecorded(g),
           UNCHANGED <<job, delivery, part, inst, faults>>,
           told \subseteq told', told' \subseteq Clients,
           Retriable(g), Reached(g)'
    PROVE  Inv'
  <1>1. /\ flights' \subseteq Flight
        /\ Alone'
        /\ \A h \in flights' : h = g \/ (h \in flights /\ h.client # f.client)
        /\ g \in flights'
        /\ \A h \in flights : h.client # f.client => h \in flights'
    BY Replaced
  <1>2. TypeOK' /\ Unopened'
    BY <1>1 DEF Inv, TypeOK, Unopened
  <1>3. Leasing(g)' /\ Retriable(g)'
    BY DEF Inv, FlightInv, Leasing, Unrecorded, Retriable
  <1>4. ASSUME NEW h \in flights, h.client # f.client PROVE FlightInv(h)'
    BY DEF Inv, FlightInv, Leasing, Unrecorded, Retriable, Reached
  <1>5. \A h \in flights' : FlightInv(h)'
    BY <1>1, <1>3, <1>4 DEF FlightInv
  <1>6. Agreeing'
    <2> SUFFICES ASSUME faults' = 0, NEW c \in Clients, delivery'[c].status \in Final
                 PROVE  \/ part'[c] = PartOf(delivery'[c].status)
                        \/ \E h \in flights' : h.client = c /\ h.pc = "part"
      BY DEF Agreeing
    <2>1. f.pc # "part"
      BY DEF Unrecorded
    <2>2. c # f.client
      BY DEF Inv, FlightInv, Leasing, Open, Final
    <2> QED
      BY <1>1, <2>1, <2>2 DEF Inv, Agreeing
  <1> QED
    BY <1>1, <1>2, <1>5, <1>6 DEF Inv

\* Attempts end in a fault, and nothing changes but the workers.
LEMMA Faulty ==
    ASSUME Inv, Fault, flights' \subseteq flights, UNCHANGED <<job, delivery, part, told>>,
           inst' \in [Instances -> Worker]
    PROVE  Inv'
  <1>1. faults' \in Nat /\ faults' # 0
    BY FaultAssumption DEF Inv, TypeOK, Fault
  <1>2. TypeOK' /\ Alone' /\ Unopened' /\ Agreeing'
    BY <1>1 DEF Inv, TypeOK, Alone, Unopened, Agreeing
  <1>3. ASSUME NEW h \in flights' PROVE FlightInv(h)'
    BY <1>3 DEF Inv, FlightInv, Leasing, Unrecorded, Retriable, Reached
  <1> QED
    BY <1>2, <1>3 DEF Inv

\* A worker's flags change, and nothing else.
LEMMA WorkerMoves ==
    ASSUME Inv, UNCHANGED <<job, delivery, part, flights, told, faults>>, inst' \in [Instances -> Worker]
    PROVE  Inv'
  BY DEF Inv, TypeOK, FlightInv, Leasing, Unrecorded, Retriable, Reached, Alone, Unopened, Agreeing

-----------------------------------------------------------------------------
(* One lemma for each of the larger actions.                               *)

LEMMA CreateJobInv ==
    ASSUME Inv, CreateJob PROVE Inv'
  <1>1. flights = {} /\ flights' = {} /\ job' # "NONE"
    BY NoFlights DEF CreateJob
  <1>2. PICK cs \in SUBSET Clients :
          /\ job' = IF cs = {} THEN "COMPLETED" ELSE "PENDING"
          /\ delivery' = [c \in Clients |->
                            IF c \in cs THEN [NoDelivery EXCEPT !.status = "PENDING"] ELSE NoDelivery]
          /\ part' = [c \in Clients |-> IF c \in cs THEN "PENDING" ELSE "NONE"]
    BY DEF CreateJob
  <1>3. /\ NoDelivery \in Delivery /\ [NoDelivery EXCEPT !.status = "PENDING"] \in Delivery
        /\ NoDelivery.status \notin Final
        /\ [NoDelivery EXCEPT !.status = "PENDING"].status \notin Final
    BY DEF Delivery, NoDelivery, Open, Final
  <1>4. delivery' \in [Clients -> Delivery] /\ \A c \in Clients : delivery'[c].status \notin Final
    BY <1>2, <1>3
  <1>5. TypeOK'
    BY <1>1, <1>2, <1>4 DEF CreateJob, Inv, TypeOK, LogoutJob
  <1> QED
    BY <1>1, <1>4, <1>5 DEF Inv, Alone, Unopened, Agreeing

LEMMA ClaimInv ==
    ASSUME Inv, NEW i \in Instances, Claim(i) PROVE Inv'
  <1>1. PICK cs \in SUBSET Due :
          /\ delivery' = [c \in Clients |->
                            IF c \in cs
                              THEN [delivery[c] EXCEPT !.wait = Lease, !.attempts = @ + 1]
                              ELSE delivery[c]]
          /\ flights' = flights \cup
               {[client |-> c, n |-> delivery[c].attempts + 1, by |-> i,
                 pc |-> "lookup", out |-> "RETRY"] : c \in cs}
          /\ inst' = [inst EXCEPT
                        ![i] = [pc |-> "wait",
                                again |-> inst[i].again \/ Cardinality(cs) = Batch,
                                batch |-> {<<c, delivery[c].attempts + 1>> : c \in cs}]]
    BY DEF Claim
  <1> DEFINE new(c) == [client |-> c, n |-> delivery[c].attempts + 1, by |-> i,
                        pc |-> "lookup", out |-> "RETRY"]
  <1>2. UNCHANGED <<job, part, told, faults>>
    BY DEF Claim
  <1>3. ASSUME NEW c \in cs
        PROVE  /\ c \in Clients /\ delivery[c].status \in Open /\ delivery[c].wait = 0
               /\ delivery[c].attempts + 1 \in Nat
               /\ delivery'[c] \in Delivery
               /\ delivery'[c].status \in Open /\ delivery'[c].wait > 0
               /\ delivery'[c] # NoDelivery
    <2>1. c \in Clients /\ delivery[c].status \in Open /\ delivery[c].wait = 0
      BY DEF Due
    <2>2. delivery[c] \in Delivery /\ delivery[c].attempts + 1 \in Nat
      BY <2>1 DEF Inv, TypeOK, Delivery
    <2>3. delivery'[c] = [delivery[c] EXCEPT !.wait = Lease, !.attempts = @ + 1]
      BY <1>1, <2>1
    <2>4. /\ delivery'[c] \in Delivery /\ delivery'[c].status = delivery[c].status
          /\ delivery'[c].wait = Lease
      BY <2>2, <2>3, LeaseAssumption DEF Delivery
    <2>5. Lease > 0
      BY LeaseAssumption
    <2> QED
      BY <2>1, <2>2, <2>4, <2>5 DEF Open, NoDelivery
  <1>4. \A c \in Clients \ cs : delivery'[c] = delivery[c]
    BY <1>1
  <1>5. delivery' \in [Clients -> Delivery]
    <2>1. \A c \in Clients : delivery'[c] \in Delivery
      BY <1>3, <1>4 DEF Inv, TypeOK
    <2> QED
      BY <1>1, <2>1
  <1>6. ASSUME NEW f \in flights, f.client \in cs PROVE FALSE
    BY <1>3, <1>6 DEF Inv, FlightInv, Leasing, Open, Final
  <1>7. ASSUME NEW h \in flights' PROVE h \in flights \/ \E c \in cs : h = new(c)
    BY <1>1
  <1>8. ASSUME NEW c \in cs, NEW h, h = new(c)
        PROVE  h \in Flight /\ h.client = c /\ FlightInv(h)'
    <2>1. h \in Flight /\ h.client = c /\ h.pc = "lookup"
      BY <1>3, <1>8 DEF Flight
    <2> QED
      BY <1>3, <2>1 DEF FlightInv, Leasing, Unrecorded, Retriable, Reached
  <1>9. ASSUME NEW h \in flights PROVE FlightInv(h)'
    <2>1. h.client \in Clients \ cs
      BY <1>6 DEF Inv, TypeOK, Flight
    <2> QED
      BY <1>2, <1>4, <2>1 DEF Inv, FlightInv, Leasing, Unrecorded, Retriable, Reached
  <1>10. Alone'
    <2> SUFFICES ASSUME NEW f \in flights', NEW g \in flights', f.client = g.client
                 PROVE  f = g
      BY DEF Alone
    <2>1. CASE f \in flights /\ g \in flights
      BY <2>1 DEF Inv, Alone
    <2>2. CASE f \notin flights /\ g \notin flights
      BY <1>7, <1>8, <2>2
    <2>3. CASE f \in flights /\ g \notin flights
      BY <1>6, <1>7, <1>8, <2>3
    <2>4. CASE f \notin flights /\ g \in flights
      BY <1>6, <1>7, <1>8, <2>4
    <2> QED
      BY <2>1, <2>2, <2>3, <2>4
  <1>11. inst' \in [Instances -> Worker]
    <2> DEFINE w == [pc |-> "wait", again |-> inst[i].again \/ Cardinality(cs) = Batch,
                     batch |-> {<<c, delivery[c].attempts + 1>> : c \in cs}]
    <2>1. inst[i].again \in BOOLEAN
      BY DEF Inv, TypeOK, Worker
    <2>2. {<<c, delivery[c].attempts + 1>> : c \in cs} \in SUBSET (Clients \X Nat)
      BY <1>3
    <2>3. w \in Worker
      BY <2>1, <2>2 DEF Worker
    <2> HIDE DEF w
    <2>4. inst' = [inst EXCEPT ![i] = w]
      BY <1>1 DEF w
    <2> QED
      BY <2>3, <2>4 DEF Inv, TypeOK
  <1>12. TypeOK'
    <2>1. flights' \subseteq Flight
      BY <1>7, <1>8 DEF Inv, TypeOK
    <2> QED
      BY <1>2, <1>5, <1>11, <2>1 DEF Inv, TypeOK
  <1>13. Unopened'
    <2> SUFFICES ASSUME job = "NONE" PROVE \A c \in Clients : delivery'[c] = NoDelivery
      BY <1>2 DEF Unopened
    <2>1. cs = {}
      BY <1>3 DEF Inv, Unopened, NoDelivery, Open
    <2> QED
      BY <1>4, <2>1 DEF Inv, Unopened
  <1>14. Agreeing'
    <2> SUFFICES ASSUME faults' = 0, NEW c \in Clients, delivery'[c].status \in Final
                 PROVE  \/ part'[c] = PartOf(delivery'[c].status)
                        \/ \E h \in flights' : h.client = c /\ h.pc = "part"
      BY DEF Agreeing
    <2>1. c \notin cs
      BY <1>3 DEF Open, Final
    <2> QED
      BY <1>1, <1>2, <1>4, <2>1 DEF Inv, Agreeing
  <1> HIDE DEF new
  <1>15. \A h \in flights' : FlightInv(h)'
    BY <1>7, <1>8, <1>9
  <1> QED
    BY <1>10, <1>12, <1>13, <1>14, <1>15 DEF Inv

\* The first four steps of deliver.
LEMMA DeliverInv ==
    ASSUME Inv, NEW f \in flights, LookUp(f) \/ Post(f) \/ Answered(f) \/ Unanswered(f)
    PROVE  Inv'
  <1>0. f \in Flight /\ f.client \in Clients
    BY DEF Inv, TypeOK, Flight
  <1>1. CASE LookUp(f)
    <2>1. PICK g \in {[f EXCEPT !.pc = "record", !.out = "NO_ENDPOINT"],
                      [f EXCEPT !.pc = "record", !.out = "FAILED"],
                      [f EXCEPT !.pc = "send"]} : flights' = Replace(f, g)
      BY <1>1 DEF LookUp
    <2>2. /\ g \in Flight /\ g.client = f.client
          /\ g.pc = "send" \/ (g.pc = "record" /\ g.out \in {"NO_ENDPOINT", "FAILED"})
      BY <1>0, <2>1 DEF Flight, Final
    <2>3. Unrecorded(f) /\ Unrecorded(g) /\ Retriable(g) /\ Reached(g)'
      BY <1>1, <2>2 DEF LookUp, Unrecorded, Retriable, Reached
    <2> QED
      BY <1>1, <2>1, <2>2, <2>3, GoesOn DEF LookUp, Inv, TypeOK
  <1>2. CASE Post(f)
    <2> DEFINE g == [f EXCEPT !.pc = "posted"]
    <2>1. g \in Flight /\ g.client = f.client /\ g.pc = "posted"
      BY <1>0 DEF Flight
    <2>2. flights' = Replace(f, g) /\ told' = told \cup {f.client}
      BY <1>2 DEF Post
    <2> HIDE DEF g
    <2>3. Unrecorded(f) /\ Unrecorded(g) /\ Retriable(g) /\ Reached(g)'
      BY <1>2, <2>1, <2>2 DEF Post, Unrecorded, Retriable, Reached
    <2> QED
      BY <1>0, <1>2, <2>1, <2>2, <2>3, GoesOn DEF Post, Inv, TypeOK
  <1>3. CASE Answered(f)
    <2>1. PICK o \in {"SUCCEEDED", "FAILED"} :
            flights' = Replace(f, [f EXCEPT !.pc = "record", !.out = o])
      BY <1>3 DEF Answered
    <2> DEFINE g == [f EXCEPT !.pc = "record", !.out = o]
    <2>2. g \in Flight /\ g.client = f.client /\ g.pc = "record" /\ g.out = o
      BY <1>0 DEF Flight, Final
    <2>3. flights' = Replace(f, g)
      BY <2>1
    <2> HIDE DEF g
    <2>4. Unrecorded(f) /\ Unrecorded(g) /\ Retriable(g)
      BY <1>3, <2>2 DEF Answered, Unrecorded, Retriable
    <2>5. Reached(g)'
      BY <1>3, <2>2 DEF Answered, Inv, FlightInv, Reached
    <2> QED
      BY <1>3, <2>2, <2>3, <2>4, <2>5, GoesOn DEF Answered, Inv, TypeOK
  <1>4. CASE Unanswered(f)
    <2> DEFINE g == [f EXCEPT !.pc = "record", !.out = AfterFailure(f.n)]
    <2>1. AfterFailure(f.n) \in {"RETRY", "DEAD"} /\ (AfterFailure(f.n) = "RETRY" => f.n < Len(Schedule))
      BY DEF AfterFailure
    <2>2. /\ g \in Flight /\ g.client = f.client /\ g.n = f.n
          /\ g.pc = "record" /\ g.out = AfterFailure(f.n)
      BY <1>0, <2>1 DEF Flight, Final
    <2>3. flights' = Replace(f, g)
      BY <1>4 DEF Unanswered
    <2> HIDE DEF g
    <2>4. Unrecorded(f) /\ Unrecorded(g) /\ Retriable(g) /\ Reached(g)'
      BY <1>4, <2>1, <2>2 DEF Unanswered, Unrecorded, Retriable, Reached
    <2> QED
      BY <1>4, <2>2, <2>3, <2>4, GoesOn DEF Unanswered, Inv, TypeOK
  <1> QED
    BY <1>1, <1>2, <1>3, <1>4

LEMMA RecordRetryInv ==
    ASSUME Inv, NEW f \in flights, RecordRetry(f) PROVE Inv'
  <1>1. f \in Flight /\ f.client \in Clients /\ Unrecorded(f) /\ f.n < Len(Schedule)
    BY DEF Inv, TypeOK, Flight, FlightInv, Retriable, RecordRetry, Unrecorded
  <1> DEFINE d == [delivery[f.client] EXCEPT !.status = "RETRY", !.wait = Schedule[f.n + 1]]
  <1>2. Schedule[f.n + 1] \in Nat
    <2>1. f.n \in Nat /\ Len(Schedule) \in Nat /\ f.n + 1 \in 1..Len(Schedule)
      BY <1>1, ScheduleAssumption DEF Flight
    <2> QED
      BY <2>1, ScheduleAssumption
  <1>3. delivery[f.client] \in Delivery
    BY <1>1 DEF Inv, TypeOK
  <1>4. d \in Delivery /\ d.status = "RETRY"
    BY <1>2, <1>3 DEF Delivery, Open
  <1>5. delivery' = [delivery EXCEPT ![f.client] = d]
    BY <1>1 DEF RecordRetry, Inv, TypeOK
  <1> HIDE DEF d
  <1>6. /\ delivery' \in [Clients -> Delivery] /\ delivery'[f.client] = d
        /\ \A c \in Clients \ {f.client} : delivery'[c] = delivery[c]
    BY <1>1, <1>4, <1>5 DEF Inv, TypeOK
  <1>7. UNCHANGED <<job, part, inst, told, faults>> /\ flights' = flights \ {f}
    BY DEF RecordRetry
  <1>8. /\ flights' \subseteq Flight /\ Alone'
        /\ \A h \in flights' : h \in flights /\ h.client # f.client
        /\ \A h \in flights : h.client # f.client => h \in flights'
    BY <1>7, Removed
  <1>9. ASSUME NEW h \in flights' PROVE FlightInv(h)'
    <2>1. h \in flights /\ h.client \in Clients \ {f.client}
      BY <1>8 DEF Flight
    <2> QED
      BY <1>6, <1>7, <2>1 DEF Inv, FlightInv, Leasing, Unrecorded, Retriable, Reached
  <1>10. job # "NONE"
    BY NoFlights
  <1>11. Agreeing'
    <2> SUFFICES ASSUME faults = 0, NEW c \in Clients, delivery'[c].status \in Final
                 PROVE  \/ part[c] = PartOf(delivery'[c].status)
                        \/ \E h \in flights' : h.client = c /\ h.pc = "part"
      BY <1>7 DEF Agreeing
    <2>1. c # f.client
      BY <1>4, <1>6 DEF Final
    <2> QED
      BY <1>6, <1>8, <2>1 DEF Inv, Agreeing
  <1> QED
    BY <1>6, <1>7, <1>8, <1>9, <1>10, <1>11 DEF Inv, TypeOK, Unopened

LEMMA RecordFinalInv ==
    ASSUME Inv, NEW f \in flights, RecordFinal(f) PROVE Inv'
  <1>1. f \in Flight /\ f.client \in Clients /\ Unrecorded(f) /\ f.out \in Final
    BY DEF Inv, TypeOK, Flight, RecordFinal, Unrecorded
  <1> DEFINE d == [delivery[f.client] EXCEPT !.status = f.out]
             g == [f EXCEPT !.pc = "part"]
  <1>2. delivery[f.client] \in Delivery
    BY <1>1 DEF Inv, TypeOK
  <1>3. d \in Delivery /\ d.status = f.out
    BY <1>1, <1>2 DEF Delivery
  <1>4. g \in Flight /\ g.client = f.client /\ g.pc = "part" /\ g.out = f.out
    BY <1>1 DEF Flight
  <1>5. /\ delivery' = [delivery EXCEPT ![f.client] = d] /\ flights' = Replace(f, g)
        /\ UNCHANGED <<job, part, inst, told, faults>>
    BY <1>1 DEF RecordFinal, Inv, TypeOK
  <1> HIDE DEF d, g
  <1>6. /\ delivery' \in [Clients -> Delivery] /\ delivery'[f.client] = d
        /\ \A c \in Clients \ {f.client} : delivery'[c] = delivery[c]
    BY <1>1, <1>3, <1>5 DEF Inv, TypeOK
  <1>7. /\ flights' \subseteq Flight /\ Alone'
        /\ \A h \in flights' : h = g \/ (h \in flights /\ h.client # f.client)
        /\ g \in flights'
        /\ \A h \in flights : h.client # f.client => h \in flights'
    BY <1>4, <1>5, Replaced
  <1>8. FlightInv(g)'
    BY <1>1, <1>3, <1>4, <1>6 DEF FlightInv, Leasing, Unrecorded, Retriable, Reached
  <1>9. ASSUME NEW h \in flights, h.client # f.client PROVE FlightInv(h)'
    <2>1. h.client \in Clients \ {f.client}
      BY <1>9 DEF Inv, TypeOK, Flight
    <2> QED
      BY <1>5, <1>6, <2>1 DEF Inv, FlightInv, Leasing, Unrecorded, Retriable, Reached
  <1>10. job # "NONE"
    BY NoFlights
  <1>11. Agreeing'
    <2> SUFFICES ASSUME faults = 0, NEW c \in Clients, delivery'[c].status \in Final
                 PROVE  \/ part[c] = PartOf(delivery'[c].status)
                        \/ \E h \in flights' : h.client = c /\ h.pc = "part"
      BY <1>5 DEF Agreeing
    <2>1. CASE c = f.client
      BY <1>4, <1>7, <2>1
    <2>2. CASE c # f.client
      BY <1>6, <1>7, <2>2 DEF Inv, Agreeing
    <2> QED
      BY <2>1, <2>2
  <1> QED
    BY <1>5, <1>6, <1>7, <1>8, <1>9, <1>10, <1>11 DEF Inv, TypeOK, Unopened

LEMMA RecordPartInv ==
    ASSUME Inv, NEW f \in flights, RecordPart(f) PROVE Inv'
  <1>1. /\ f \in Flight /\ f.client \in Clients /\ ~Unrecorded(f)
        /\ f.out \in Final /\ delivery[f.client].status = f.out
    BY DEF Inv, TypeOK, Flight, FlightInv, Leasing, RecordPart, Unrecorded
  <1> DEFINE g == [f EXCEPT !.pc = "job"]
  <1>2. g \in Flight /\ g.client = f.client /\ g.pc = "job" /\ g.out = f.out
    BY <1>1 DEF Flight
  <1>3. /\ flights' = Replace(f, g) /\ part' = [part EXCEPT ![f.client] = PartOf(f.out)]
        /\ UNCHANGED <<job, delivery, inst, told, faults>>
    BY DEF RecordPart, PartOf
  <1> HIDE DEF g
  <1>4. /\ part' \in [Clients -> {"NONE", "PENDING", "SUCCEEDED", "FAILED", "NO_ENDPOINT"}]
        /\ part'[f.client] = PartOf(f.out)
        /\ \A c \in Clients \ {f.client} : part'[c] = part[c]
    BY <1>1, <1>3 DEF Inv, TypeOK, PartOf, Final
  <1>5. /\ flights' \subseteq Flight /\ Alone'
        /\ \A h \in flights' : h = g \/ (h \in flights /\ h.client # f.client)
        /\ \A h \in flights : h.client # f.client => h \in flights'
    BY <1>2, <1>3, Replaced
  <1>6. FlightInv(g)'
    BY <1>1, <1>2, <1>3 DEF FlightInv, Leasing, Unrecorded, Retriable, Reached
  <1>7. ASSUME NEW h \in flights PROVE FlightInv(h)'
    BY <1>3 DEF Inv, FlightInv, Leasing, Unrecorded, Retriable, Reached
  <1>8. Agreeing'
    <2> SUFFICES ASSUME faults = 0, NEW c \in Clients, delivery[c].status \in Final
                 PROVE  \/ part'[c] = PartOf(delivery[c].status)
                        \/ \E h \in flights' : h.client = c /\ h.pc = "part"
      BY <1>3 DEF Agreeing
    <2>1. CASE c = f.client
      BY <1>1, <1>4, <2>1
    <2>2. CASE c # f.client
      BY <1>4, <1>5, <2>2 DEF Inv, Agreeing
    <2> QED
      BY <2>1, <2>2
  <1> QED
    BY <1>3, <1>4, <1>5, <1>6, <1>7, <1>8 DEF Inv, TypeOK, Unopened

LEMMA RecordJobInv ==
    ASSUME Inv, NEW f \in flights, RecordJob(f) PROVE Inv'
  <1>1. job # "NONE" /\ f.pc = "job"
    BY NoFlights DEF RecordJob
  <1>2. /\ flights' = flights \ {f} /\ UNCHANGED <<delivery, part, inst, told, faults>>
        /\ job' \in LogoutJob /\ job' # "NONE"
    BY <1>1 DEF RecordJob, Inv, TypeOK, LogoutJob
  <1>3. /\ flights' \subseteq Flight /\ Alone'
        /\ \A h \in flights' : h \in flights
    BY <1>2, Removed
  <1>4. ASSUME NEW h \in flights' PROVE FlightInv(h)'
    BY <1>2, <1>3 DEF Inv, FlightInv, Leasing, Unrecorded, Retriable, Reached
  <1>5. Agreeing'
    BY <1>1, <1>2 DEF Inv, Agreeing
  <1> QED
    BY <1>2, <1>3, <1>4, <1>5 DEF Inv, TypeOK, Unopened

LEMMA ElapseInv ==
    ASSUME Inv, Elapse PROVE Inv'
  <1> DEFINE d(c) == [delivery[c] EXCEPT !.wait = IF @ > 0 THEN @ - 1 ELSE 0]
  <1>1. /\ UNCHANGED <<job, part, flights, inst, told, faults>>
        /\ delivery' = [c \in Clients |-> d(c)]
    BY DEF Elapse
  <1>2. ASSUME NEW c \in Clients
        PROVE  /\ d(c) \in Delivery /\ d(c).status = delivery[c].status
               /\ delivery[c].wait > 1 => d(c).wait > 0
    <2>1. delivery[c] \in Delivery /\ delivery[c].wait \in Nat
      BY DEF Inv, TypeOK, Delivery
    <2> QED
      BY <2>1 DEF Delivery
  <1>3. ASSUME NEW c \in Clients, delivery[c] = NoDelivery PROVE d(c) = NoDelivery
    BY <1>3 DEF NoDelivery
  <1> HIDE DEF d
  <1>4. delivery' \in [Clients -> Delivery] /\ \A c \in Clients : delivery'[c].status = delivery[c].status
    BY <1>1, <1>2
  <1>5. Unopened'
    BY <1>1, <1>3 DEF Inv, Unopened
  <1>6. ASSUME NEW h \in flights PROVE FlightInv(h)'
    <2>1. h.client \in Clients
      BY DEF Inv, TypeOK, Flight
    <2>2. Unrecorded(h) => delivery'[h.client].wait > 0
      BY <1>1, <1>2, <2>1 DEF Elapse
    <2> QED
      BY <1>1, <1>4, <2>1, <2>2 DEF Inv, FlightInv, Leasing, Unrecorded, Retriable, Reached
  <1> QED
    BY <1>1, <1>4, <1>5, <1>6 DEF Inv, TypeOK, Alone, Agreeing

-----------------------------------------------------------------------------
(* The invariant.                                                          *)

LEMMA InitInv == Init => Inv
  <1> SUFFICES ASSUME Init PROVE Inv
    OBVIOUS
  <1>1. NoDelivery \in Delivery /\ NoDelivery.status \notin Final
    BY DEF Delivery, NoDelivery, Final
  <1>2. [pc |-> "idle", again |-> FALSE, batch |-> {}] \in Worker
    BY DEF Worker
  <1>3. TypeOK
    BY <1>1, <1>2 DEF Init, TypeOK, LogoutJob
  <1> QED
    BY <1>1, <1>3 DEF Init, Inv, Alone, Unopened, Agreeing

LEMMA NextInv == Inv /\ [Next]_vars => Inv'
  <1> SUFFICES ASSUME Inv, [Next]_vars PROVE Inv'
    OBVIOUS
  <1>1. CASE UNCHANGED vars
    BY <1>1, WorkerMoves DEF vars, Inv, TypeOK
  <1>2. CASE CreateJob
    BY <1>2, CreateJobInv
  <1>3. ASSUME NEW i \in Instances, Pass(i) \/ TickBusy(i) PROVE Inv'
    <2>0. inst[i] \in Worker
      BY DEF Inv, TypeOK
    <2>1. CASE TickIdle(i)
      <3>1. [pc |-> "claim", again |-> FALSE, batch |-> {}] \in Worker
        BY DEF Worker
      <3> QED
        BY <2>1, <3>1, WorkerMoves DEF TickIdle, Inv, TypeOK
    <2>2. CASE Claim(i)
      BY <2>2, ClaimInv
    <2>3. CASE PassEnds(i)
      <3>1. [pc |-> IF inst[i].again THEN "claim" ELSE "idle", again |-> FALSE, batch |-> {}] \in Worker
        BY DEF Worker
      <3> QED
        BY <2>3, <3>1, WorkerMoves DEF PassEnds, Inv, TypeOK
    <2>4. CASE TickBusy(i)
      <3>1. [inst[i] EXCEPT !.again = TRUE] \in Worker
        BY <2>0 DEF Worker
      <3> QED
        BY <2>4, <3>1, WorkerMoves DEF TickBusy, Inv, TypeOK
    <2> QED
      BY <1>3, <2>1, <2>2, <2>3, <2>4 DEF Pass
  <1>4. ASSUME NEW i \in Instances, ClaimFails(i) \/ Crash(i) PROVE Inv'
    <2>1. /\ [inst[i] EXCEPT !.pc = "idle", !.batch = {}] \in Worker
          /\ [pc |-> "idle", again |-> FALSE, batch |-> {}] \in Worker
      BY DEF Inv, TypeOK, Worker
    <2>2. inst' \in [Instances -> Worker]
      BY <1>4, <2>1 DEF ClaimFails, Crash, Inv, TypeOK
    <2> QED
      BY <1>4, <2>2, Faulty DEF ClaimFails, Crash
  <1>5. ASSUME NEW f \in flights, AttemptFails(f) PROVE Inv'
    <2>1. f.by \in Instances
      BY DEF Inv, TypeOK, Flight
    <2>2. [inst[f.by] EXCEPT !.pc = "idle", !.batch = {}] \in Worker
      BY <2>1 DEF Inv, TypeOK, Worker
    <2>3. inst' \in [Instances -> Worker]
      BY <1>5, <2>1, <2>2 DEF AttemptFails, Inv, TypeOK
    <2> QED
      BY <1>5, <2>3, Faulty DEF AttemptFails
  <1>6. ASSUME NEW f \in flights, Attempt(f) PROVE Inv'
    BY <1>6, DeliverInv, RecordRetryInv, RecordFinalInv, RecordPartInv, RecordJobInv DEF Attempt
  <1>7. CASE Elapse
    BY <1>7, ElapseInv
  <1> QED
    BY <1>1, <1>2, <1>3, <1>4, <1>5, <1>6, <1>7 DEF Next

\* The worker's attempts, deliveries and participants agree in every reachable state.
THEOREM Invariance == Spec => []Inv
  BY InitInv, NextInv, PTL DEF Spec

\* TypeOK holds in every reachable state.
THEOREM TypeCorrect == Spec => []TypeOK
  BY Invariance, PTL DEF Inv

\* A delivery has one attempt at a time, over any number of instances, crashes and
\* failed calls.
THEOREM AttemptsAreAlone == Spec => []OneAttemptAtATime
  <1>1. Inv => OneAttemptAtATime
    BY DEF Inv, Alone, OneAttemptAtATime
  <1> QED
    BY <1>1, Invariance, PTL

\* Without a fault, the participant of a settled delivery says what the delivery says.
THEOREM ParticipantsAgree == Spec => []ParticipantAgrees
  <1>1. Inv => ParticipantAgrees
    BY DEF Inv, Agreeing, ParticipantAgrees, PartOf
  <1> QED
    BY <1>1, Invariance, PTL

-----------------------------------------------------------------------------
(* LogoutQueue implements LogoutDelivery.                                  *)

\* What LogoutDelivery sees of a delivery.
Outcome == [c \in Clients |-> IF delivery[c].status = "RETRY" THEN "PENDING" ELSE delivery[c].status]

LEMMA SameOutcome ==
    ASSUME \A c \in Clients : delivery'[c].status = delivery[c].status
    PROVE  Outcome' = Outcome
  BY DEF Outcome

LEMMA InitImplements == Init => Abstract!AInit
  BY DEF Init, NoDelivery, Abstract!AInit

LEMMA NextImplements == Inv /\ [Next]_vars => [Abstract!ANext]_(Abstract!avars)
  <1> SUFFICES ASSUME Inv, [Next]_vars
               PROVE  Abstract!ANext \/ UNCHANGED <<Outcome, told, job>>
    BY DEF Abstract!avars, Outcome
  <1>1. CASE UNCHANGED vars
    BY <1>1 DEF vars, Outcome
  <1>2. CASE CreateJob
    <2>1. PICK cs \in SUBSET Clients :
            /\ job' = IF cs = {} THEN "COMPLETED" ELSE "PENDING"
            /\ delivery' = [c \in Clients |->
                              IF c \in cs THEN [NoDelivery EXCEPT !.status = "PENDING"] ELSE NoDelivery]
      BY <1>2 DEF CreateJob
    <2>2. Outcome' = [c \in Clients |-> IF c \in cs THEN "PENDING" ELSE "NONE"]
      BY <2>1 DEF Outcome, NoDelivery
    <2>3. Abstract!Open(cs)
      BY <1>2, <2>1, <2>2 DEF CreateJob, Abstract!Open, Outcome
    <2> QED
      BY <2>3 DEF Abstract!ANext
  <1>3. ASSUME NEW i \in Instances, Pass(i) \/ TickBusy(i) \/ ClaimFails(i) \/ Crash(i)
        PROVE  UNCHANGED <<Outcome, told, job>>
    <2>1. told' = told /\ job' = job
      BY <1>3 DEF Pass, TickIdle, Claim, PassEnds, TickBusy, ClaimFails, Crash
    <2>2. CASE Claim(i)
      <3>1. PICK cs \in SUBSET Due :
              delivery' = [c \in Clients |->
                             IF c \in cs
                               THEN [delivery[c] EXCEPT !.wait = Lease, !.attempts = @ + 1]
                               ELSE delivery[c]]
        BY <2>2 DEF Claim
      <3>2. \A c \in Clients : delivery'[c].status = delivery[c].status
        BY <3>1 DEF Inv, TypeOK, Delivery
      <3> QED
        BY <2>1, <3>2, SameOutcome
    <2>3. CASE TickIdle(i) \/ PassEnds(i) \/ TickBusy(i) \/ ClaimFails(i) \/ Crash(i)
      <3>1. delivery' = delivery
        BY <2>3 DEF TickIdle, PassEnds, TickBusy, ClaimFails, Crash
      <3> QED
        BY <2>1, <3>1 DEF Outcome
    <2> QED
      BY <1>3, <2>2, <2>3 DEF Pass
  <1>4. CASE Elapse
    <2>1. \A c \in Clients : delivery'[c].status = delivery[c].status
      BY <1>4 DEF Elapse, Inv, TypeOK, Delivery
    <2> QED
      BY <1>4, <2>1, SameOutcome DEF Elapse
  <1>5. ASSUME NEW f \in flights, AttemptFails(f) PROVE UNCHANGED <<Outcome, told, job>>
    BY <1>5 DEF AttemptFails, Outcome
  <1>6. ASSUME NEW f \in flights, Attempt(f)
        PROVE  Abstract!ANext \/ UNCHANGED <<Outcome, told, job>>
    <2>0. f.client \in Clients /\ FlightInv(f) /\ delivery \in [Clients -> Delivery]
      BY DEF Inv, TypeOK, Flight
    <2>1. Unrecorded(f) => Outcome[f.client] = "PENDING"
      BY <2>0 DEF FlightInv, Leasing, Outcome, Open
    <2>2. CASE LookUp(f) \/ Answered(f) \/ Unanswered(f) \/ RecordPart(f)
      BY <2>2 DEF LookUp, Answered, Unanswered, RecordPart, Outcome
    <2>3. CASE Post(f)
      <3>1. Abstract!Tell(f.client)
        BY <2>0, <2>1, <2>3 DEF Post, Unrecorded, Abstract!Tell, Outcome
      <3> QED
        BY <2>0, <3>1 DEF Abstract!ANext
    <2>4. CASE RecordRetry(f)
      <3>1. Unrecorded(f)
        BY <2>4 DEF RecordRetry, Unrecorded
      <3>2. /\ delivery'[f.client].status = "RETRY"
            /\ \A c \in Clients \ {f.client} : delivery'[c] = delivery[c]
        BY <2>0, <2>4 DEF RecordRetry, Delivery
      <3>3. Outcome' = Outcome
        BY <2>0, <2>1, <3>1, <3>2 DEF Outcome
      <3> QED
        BY <2>4, <3>3 DEF RecordRetry
    <2>5. CASE RecordFinal(f)
      <3>1. Unrecorded(f) /\ f.out \in Abstract!Settled /\ f.out # "RETRY"
        BY <2>5 DEF RecordFinal, Unrecorded, Final, Abstract!Settled
      <3>2. /\ delivery'[f.client].status = f.out
            /\ \A c \in Clients \ {f.client} : delivery'[c] = delivery[c]
        BY <2>0, <2>5 DEF RecordFinal, Delivery
      <3>3. Outcome' = [Outcome EXCEPT ![f.client] = f.out]
        BY <2>0, <3>1, <3>2 DEF Outcome
      <3>4. f.out = "SUCCEEDED" => f.client \in told
        BY <2>0, <2>5 DEF FlightInv, Reached, RecordFinal
      <3>5. Abstract!Settle(f.client, f.out)
        BY <2>1, <2>5, <3>1, <3>3, <3>4 DEF RecordFinal, Abstract!Settle, Outcome
      <3> QED
        BY <2>0, <3>1, <3>5 DEF Abstract!ANext
    <2>6. CASE RecordJob(f)
      <3>1. delivery' = delivery /\ told' = told
        BY <2>6 DEF RecordJob
      <3>2. CASE ~(job = "PENDING" /\ \A c \in Clients : delivery[c].status \notin Open)
        BY <2>6, <3>1, <3>2 DEF RecordJob, Outcome
      <3>3. CASE job = "PENDING" /\ \A c \in Clients : delivery[c].status \notin Open
        <4>1. \A c \in Clients : Outcome[c] = delivery[c].status
          BY <3>3 DEF Outcome, Open
        <4>2. \A c \in Clients : Outcome[c] # "PENDING"
          BY <3>3, <4>1 DEF Open
        <4>3. Abstract!Close
          BY <2>6, <3>1, <3>3, <4>1, <4>2 DEF RecordJob, Abstract!Close, Outcome
        <4> QED
          BY <4>3 DEF Abstract!ANext
      <3> QED
        BY <3>2, <3>3
    <2> QED
      BY <1>6, <2>2, <2>3, <2>4, <2>5, <2>6 DEF Attempt
  <1> QED
    BY <1>1, <1>2, <1>3, <1>4, <1>5, <1>6 DEF Next

\* The queue settles each client once, never as told when it was not, and closes
\* the job with the verdict of its deliveries.
THEOREM QueueImplements == Spec => Implements
  <1>1. Spec => Abstract!ASpec
    BY InitImplements, NextImplements, Invariance, PTL DEF Spec, Abstract!ASpec
  <1> QED
    BY <1>1 DEF Implements
=============================================================================
