----------------------------- MODULE LogoutQueue -----------------------------
(***************************************************************************)
(* The back-channel logout of one ended session: the durable queue         *)
(* logout_jobs / logout_deliveries (LogoutRepository) and the workers of   *)
(* several service instances that lease, send and record its deliveries    *)
(* (LogoutDeliveryWorker).  Every await is a step; an instance may crash   *)
(* and every call of the database may fail, MaxFaults times in all.        *)
(*                                                                         *)
(* next_attempt_at is modelled by the time left until it: 0 means due.     *)
(***************************************************************************)
EXTENDS Integers, Sequences, FiniteSets

CONSTANTS
    Clients,      \* clients that may have joined the session
    Instances,    \* service instances, each with one worker
    Schedule,     \* LOGOUT_RETRY_SCHEDULE_SECONDS
    Lease,        \* LEASE_SECONDS
    Batch,        \* BATCH
    MaxFaults,    \* bound on crashes and failed calls
    MaxAttempts   \* bound on attempt_count

ASSUME ScheduleAssumption == Schedule \in Seq(Nat) /\ Len(Schedule) > 0
ASSUME LeaseAssumption == Lease \in Nat \ {0} /\ Batch \in Nat \ {0}
ASSUME FaultAssumption == MaxFaults \in Nat /\ MaxAttempts \in Nat

VARIABLES
    job,        \* logout_jobs.status; "NONE": no job yet
    delivery,   \* logout_deliveries, by client
    part,       \* auth_session_clients.logout_status, by client
    flights,    \* the attempts in progress: running deliver(d)
    inst,       \* the worker of each instance
    told,       \* the clients a message has reached
    faults      \* how many faults happened

vars == <<job, delivery, part, flights, inst, told, faults>>

Open == {"PENDING", "RETRY"}
Final == {"SUCCEEDED", "FAILED", "NO_ENDPOINT", "DEAD"}

\* The status of logout_jobs.
LogoutJob == {"NONE", "PENDING", "COMPLETED", "COMPLETED_WITH_FAILURES"}

Delivery == [status : {"NONE"} \cup Open \cup Final, attempts : Nat, wait : Nat]
NoDelivery == [status |-> "NONE", attempts |-> 0, wait |-> 0]

\* Where deliver(d) is: looking the client up, sending, with the message at the
\* client, about to record its outcome, or in one of the two follow-up updates.
Flight == [client : Clients, n : Nat, by : Instances,
           pc : {"lookup", "send", "posted", "record", "part", "job"},
           out : {"RETRY"} \cup Final]

\* batch: the attempts the pass waits for (Promise.all).
Worker == [pc : {"idle", "claim", "wait"}, again : BOOLEAN, batch : SUBSET (Clients \X Nat)]

Init ==
    /\ job = "NONE"
    /\ delivery = [c \in Clients |-> NoDelivery]
    /\ part = [c \in Clients |-> "NONE"]
    /\ flights = {}
    /\ inst = [i \in Instances |-> [pc |-> "idle", again |-> FALSE, batch |-> {}]]
    /\ told = {}
    /\ faults = 0

Replace(f, g) == (flights \ {f}) \cup {g}
Unrecorded(f) == f.pc \in {"lookup", "send", "posted", "record"}
Fault == faults < MaxFaults /\ faults' = faults + 1

-----------------------------------------------------------------------------
(* createJob: one transaction.                                             *)

CreateJob ==
    /\ job = "NONE"
    /\ \E cs \in SUBSET Clients :
         /\ job' = IF cs = {} THEN "COMPLETED" ELSE "PENDING"
         /\ delivery' = [c \in Clients |->
                           IF c \in cs THEN [NoDelivery EXCEPT !.status = "PENDING"] ELSE NoDelivery]
         /\ part' = [c \in Clients |-> IF c \in cs THEN "PENDING" ELSE "NONE"]
    /\ UNCHANGED <<flights, inst, told, faults>>

-----------------------------------------------------------------------------
(* tick, started by the timer or by kick; a running pass is asked to go on *)
(* once more.                                                              *)

TickIdle(i) ==
    /\ inst[i].pc = "idle"
    /\ inst' = [inst EXCEPT ![i] = [pc |-> "claim", again |-> FALSE, batch |-> {}]]
    /\ UNCHANGED <<job, delivery, part, flights, told, faults>>

TickBusy(i) ==
    /\ inst[i].pc # "idle" /\ ~inst[i].again
    /\ inst' = [inst EXCEPT ![i].again = TRUE]
    /\ UNCHANGED <<job, delivery, part, flights, told, faults>>

\* Mutant: a delivery to be retried is never due.
DuePending == {c \in Clients : delivery[c].status = "PENDING" /\ delivery[c].wait = 0}

Due == {c \in Clients : delivery[c].status \in Open /\ delivery[c].wait = 0}

\* Mutant: the claim does not lease.
ClaimUnleased(i) ==
    /\ inst[i].pc = "claim"
    /\ \E cs \in SUBSET Due :
         /\ Cardinality(cs) <= Batch
         /\ cs = Due \/ Cardinality(cs) = Batch
         /\ \A c \in cs : delivery[c].attempts < MaxAttempts
         /\ delivery' = [c \in Clients |->
                           IF c \in cs THEN [delivery[c] EXCEPT !.attempts = @ + 1] ELSE delivery[c]]
         /\ flights' = flights \cup
              {[client |-> c, n |-> delivery[c].attempts + 1, by |-> i,
                pc |-> "lookup", out |-> "RETRY"] : c \in cs}
         /\ inst' = [inst EXCEPT
                       ![i] = [pc |-> "wait",
                               again |-> inst[i].again \/ Cardinality(cs) = Batch,
                               batch |-> {<<c, delivery[c].attempts + 1>> : c \in cs}]]
    /\ UNCHANGED <<job, part, told, faults>>

\* claimDue: one statement that takes up to Batch due rows no other claim has
\* locked, leases them and counts the attempt.
Claim(i) ==
    /\ inst[i].pc = "claim"
    /\ \E cs \in SUBSET Due :
         /\ Cardinality(cs) <= Batch
         /\ cs = Due \/ Cardinality(cs) = Batch
         /\ \A c \in cs : delivery[c].attempts < MaxAttempts
         /\ delivery' = [c \in Clients |->
                           IF c \in cs
                             THEN [delivery[c] EXCEPT !.wait = Lease, !.attempts = @ + 1]
                             ELSE delivery[c]]
         /\ flights' = flights \cup
              {[client |-> c, n |-> delivery[c].attempts + 1, by |-> i,
                pc |-> "lookup", out |-> "RETRY"] : c \in cs}
         /\ inst' = [inst EXCEPT
                       ![i] = [pc |-> "wait",
                               again |-> inst[i].again \/ Cardinality(cs) = Batch,
                               batch |-> {<<c, delivery[c].attempts + 1>> : c \in cs}]]
    /\ UNCHANGED <<job, part, told, faults>>

Running(i) == {f \in flights : f.by = i /\ <<f.client, f.n>> \in inst[i].batch}

PassEnds(i) ==
    /\ inst[i].pc = "wait"
    /\ Running(i) = {}
    /\ inst' = [inst EXCEPT ![i] = [pc |-> IF inst[i].again THEN "claim" ELSE "idle",
                                    again |-> FALSE, batch |-> {}]]
    /\ UNCHANGED <<job, delivery, part, flights, told, faults>>

-----------------------------------------------------------------------------
(* deliver(d).                                                             *)

\* The client has no BACK_CHANNEL_LOGOUT uri, or an insecure one in production.
LookUp(f) ==
    /\ f.pc = "lookup"
    /\ flights' \in {Replace(f, [f EXCEPT !.pc = "record", !.out = "NO_ENDPOINT"]),
                     Replace(f, [f EXCEPT !.pc = "record", !.out = "FAILED"]),
                     Replace(f, [f EXCEPT !.pc = "send"])}
    /\ UNCHANGED <<job, delivery, part, inst, told, faults>>

Post(f) ==
    /\ f.pc = "send"
    /\ told' = told \cup {f.client}
    /\ flights' = Replace(f, [f EXCEPT !.pc = "posted"])
    /\ UNCHANGED <<job, delivery, part, inst, faults>>

\* A 2xx answer; a 4xx answer other than 408 and 429.
Answered(f) ==
    /\ f.pc = "posted"
    /\ \E o \in {"SUCCEEDED", "FAILED"} :
         flights' = Replace(f, [f EXCEPT !.pc = "record", !.out = o])
    /\ UNCHANGED <<job, delivery, part, inst, told, faults>>

AfterFailure(n) == IF n < Len(Schedule) THEN "RETRY" ELSE "DEAD"

\* Signing failed, no connection, timeout, 5xx, 408 or 429: the message may
\* have reached the client all the same.
Unanswered(f) ==
    /\ f.pc \in {"send", "posted"}
    /\ flights' = Replace(f, [f EXCEPT !.pc = "record", !.out = AfterFailure(f.n)])
    /\ UNCHANGED <<job, delivery, part, inst, told, faults>>

-----------------------------------------------------------------------------
(* record: the delivery by its key, whatever became of it meanwhile; then, *)
(* for a final outcome, the participant and the job, in statements of      *)
(* their own.                                                              *)

RecordRetry(f) ==
    /\ f.pc = "record" /\ f.out = "RETRY"
    /\ delivery' = [delivery EXCEPT ![f.client].status = "RETRY",
                                    ![f.client].wait = Schedule[f.n + 1]]
    /\ flights' = flights \ {f}
    /\ UNCHANGED <<job, part, inst, told, faults>>

RecordFinal(f) ==
    /\ f.pc = "record" /\ f.out \in Final
    /\ delivery' = [delivery EXCEPT ![f.client].status = f.out]
    /\ flights' = Replace(f, [f EXCEPT !.pc = "part"])
    /\ UNCHANGED <<job, part, inst, told, faults>>

\* Mutant: whatever is not a success is a failure.
RecordPartTwoWay(f) ==
    /\ f.pc = "part"
    /\ part' = [part EXCEPT ![f.client] = IF f.out = "SUCCEEDED" THEN "SUCCEEDED" ELSE "FAILED"]
    /\ flights' = Replace(f, [f EXCEPT !.pc = "job"])
    /\ UNCHANGED <<job, delivery, inst, told, faults>>

RecordPart(f) ==
    /\ f.pc = "part"
    /\ part' = [part EXCEPT ![f.client] = IF f.out = "DEAD" THEN "FAILED" ELSE f.out]
    /\ flights' = Replace(f, [f EXCEPT !.pc = "job"])
    /\ UNCHANGED <<job, delivery, inst, told, faults>>

\* Mutant: a dead delivery is no failure.
RecordJobDeadCompletes(f) ==
    /\ f.pc = "job"
    /\ job' = IF job = "PENDING" /\ \A c \in Clients : delivery[c].status \notin Open
                THEN IF \E c \in Clients : delivery[c].status = "FAILED"
                       THEN "COMPLETED_WITH_FAILURES" ELSE "COMPLETED"
                ELSE job
    /\ flights' = flights \ {f}
    /\ UNCHANGED <<delivery, part, inst, told, faults>>

RecordJob(f) ==
    /\ f.pc = "job"
    /\ job' = IF job = "PENDING" /\ \A c \in Clients : delivery[c].status \notin Open
                THEN IF \E c \in Clients : delivery[c].status \in {"FAILED", "DEAD"}
                       THEN "COMPLETED_WITH_FAILURES" ELSE "COMPLETED"
                ELSE job
    /\ flights' = flights \ {f}
    /\ UNCHANGED <<delivery, part, inst, told, faults>>

-----------------------------------------------------------------------------
(* Faults.                                                                 *)

\* claimDue throws: the pass ends, whatever was asked meanwhile.
ClaimFails(i) ==
    /\ inst[i].pc = "claim"
    /\ Fault
    /\ inst' = [inst EXCEPT ![i].pc = "idle", ![i].batch = {}]
    /\ UNCHANGED <<job, delivery, part, flights, told>>

\* A call of the database in deliver throws: the attempt ends where it is, and
\* so does the pass that waits for it, without its other attempts.
AttemptFails(f) ==
    /\ f.pc \in {"lookup", "record", "part", "job"}
    /\ Fault
    /\ flights' = flights \ {f}
    /\ inst' = IF f \in Running(f.by)
                 THEN [inst EXCEPT ![f.by].pc = "idle", ![f.by].batch = {}] ELSE inst
    /\ UNCHANGED <<job, delivery, part, told>>

Crash(i) ==
    /\ Fault
    /\ flights' = {f \in flights : f.by # i}
    /\ inst' = [inst EXCEPT ![i] = [pc |-> "idle", again |-> FALSE, batch |-> {}]]
    /\ UNCHANGED <<job, delivery, part, told>>

\* Time passes.  The lease is longer than the HTTP timeout: it does not run out
\* while its attempt has an outcome to record, unless a crash ended the attempt.
Elapse ==
    /\ \E c \in Clients : delivery[c].wait > 0
    /\ \A f \in flights : Unrecorded(f) => delivery[f.client].wait > 1
    /\ delivery' = [c \in Clients |->
                      [delivery[c] EXCEPT !.wait = IF @ > 0 THEN @ - 1 ELSE 0]]
    /\ UNCHANGED <<job, part, flights, inst, told, faults>>

Attempt(f) ==
    \/ LookUp(f) \/ Post(f) \/ Answered(f) \/ Unanswered(f)
    \/ RecordRetry(f) \/ RecordFinal(f) \/ RecordPart(f) \/ RecordJob(f)

Pass(i) == TickIdle(i) \/ Claim(i) \/ PassEnds(i)

Next ==
    \/ CreateJob
    \/ \E i \in Instances : Pass(i) \/ TickBusy(i) \/ ClaimFails(i) \/ Crash(i)
    \/ \E f \in flights : Attempt(f) \/ AttemptFails(f)
    \/ Elapse

Spec == Init /\ [][Next]_vars

\* The timer fires, the database answers, fetch gives up at its timeout, and
\* time passes; nothing makes a fault happen or a session end.
Fairness ==
    /\ \A i \in Instances : WF_vars(Pass(i))
    /\ \A c \in Clients : WF_vars(\E f \in flights : f.client = c /\ Attempt(f))
    /\ WF_vars(Elapse)

FairSpec == Spec /\ Fairness

-----------------------------------------------------------------------------
(* Properties.                                                             *)

\* Every variable stays in its domain.
TypeOK ==
    /\ job \in LogoutJob
    /\ delivery \in [Clients -> Delivery]
    /\ part \in [Clients -> {"NONE", "PENDING", "SUCCEEDED", "FAILED", "NO_ENDPOINT"}]
    /\ flights \subseteq Flight
    /\ inst \in [Instances -> Worker]
    /\ told \subseteq Clients
    /\ faults \in Nat

\* SKIP LOCKED and the lease keep a delivery to one attempt at a time, over
\* crashes, failed calls and any number of instances.
OneAttemptAtATime ==
    \A f, g \in flights : Unrecorded(f) /\ Unrecorded(g) /\ f.client = g.client => f = g

\* What auth_session_clients says of a client once no attempt of it is in
\* progress is what its delivery says, unless a fault came between the updates.
ParticipantAgrees ==
    faults = 0 =>
      \A c \in Clients :
        delivery[c].status \in Final /\ (\A f \in flights : f.client # c)
          => part[c] = IF delivery[c].status = "DEAD" THEN "FAILED" ELSE delivery[c].status

Abstract == INSTANCE LogoutDelivery WITH
    outcome <- [c \in Clients |-> IF delivery[c].status = "RETRY" THEN "PENDING"
                                  ELSE delivery[c].status],
    told <- told,
    verdict <- job

\* The queue settles each client once, never as told when it was not, and
\* closes the job with the verdict of its deliveries.
Implements == Abstract!ASpec

\* Every delivery of a session that ended is settled in the end, whatever faults
\* happened on the way, and then its job is closed, whichever delivery is recorded
\* last and by whichever instance; only a fault after that record leaves it open.
JobSettles ==
    job = "PENDING" ~>
      /\ \A c \in Clients : delivery[c].status \notin Open
      /\ job # "PENDING" \/ faults > 0
=============================================================================
