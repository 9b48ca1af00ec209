--------------------------- MODULE LogoutDelivery ---------------------------
(***************************************************************************)
(* What the back-channel logout promises, without its queue: each client   *)
(* that joined the ended session is settled once, as told only when it was *)
(* told, and the job closes with the verdict its deliveries add up to.     *)
(* LogoutQueue implements this.                                            *)
(***************************************************************************)
CONSTANTS Clients

VARIABLES
    outcome,   \* of each client: "NONE", "PENDING" or how it was settled
    told,      \* the clients a logout message has reached
    verdict    \* of the job

avars == <<outcome, told, verdict>>

Settled == {"SUCCEEDED", "FAILED", "NO_ENDPOINT", "DEAD"}

AInit ==
    /\ outcome = [c \in Clients |-> "NONE"]
    /\ told = {}
    /\ verdict = "NONE"

Open(cs) ==
    /\ verdict = "NONE"
    /\ outcome' = [c \in Clients |-> IF c \in cs THEN "PENDING" ELSE "NONE"]
    /\ verdict' = IF cs = {} THEN "COMPLETED" ELSE "PENDING"
    /\ UNCHANGED told

Tell(c) ==
    /\ outcome[c] = "PENDING"
    /\ told' = told \cup {c}
    /\ UNCHANGED <<outcome, verdict>>

Settle(c, o) ==
    /\ outcome[c] = "PENDING"
    /\ o = "SUCCEEDED" => c \in told
    /\ outcome' = [outcome EXCEPT ![c] = o]
    /\ UNCHANGED <<told, verdict>>

Close ==
    /\ verdict = "PENDING"
    /\ \A c \in Clients : outcome[c] # "PENDING"
    /\ verdict' = IF \E c \in Clients : outcome[c] \in {"FAILED", "DEAD"}
                    THEN "COMPLETED_WITH_FAILURES" ELSE "COMPLETED"
    /\ UNCHANGED <<outcome, told>>

ANext ==
    \/ \E cs \in SUBSET Clients : Open(cs)
    \/ \E c \in Clients : Tell(c) \/ \E o \in Settled : Settle(c, o)
    \/ Close

ASpec == AInit /\ [][ANext]_avars
=============================================================================
