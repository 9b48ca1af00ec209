--------------------------- MODULE MCSecondFactor ---------------------------
(* Small instances of OtpChallenge, TotpFactor, Factors and SignIn, in one run: in *)
(* each behaviour one of them runs, and part says which and how far.               *)
EXTENDS OtpChallenge, TotpFactor, Factors, SignIn, TLC

VARIABLE part    \* what runs

allVars == <<vars, totpVars, factorVars, signInVars, part>>

MCInit ==
    /\ Init /\ TotpInit /\ FactorsInit /\ SignInInit
    /\ part \in {"otp", "totp", "factors", "lockout", "assurance", "sync"}

\* Guesses at the password, of a member who stays.
Guessing ==
    /\ SignInNext
    /\ standing' = "open" /\ eligible' /\ code' = NoCode
    /\ \A v \in Visits : visit'[v].kind \in {"off", "login"} /\ ~visit'[v].asks

\* Sign-ins without a wrong password, up to the first answer: code is history, so
\* an answer changes nothing that a later one depends on.
Assuring ==
    /\ SignInNext
    /\ standing' = "open" /\ eligible' /\ guesses' = <<>>
    /\ ~code.given

\* One request at a time, while the member's rows change.
Syncing ==
    /\ SignInNext
    /\ guesses' = <<>> /\ clock' = 1
    /\ Cardinality({v \in Visits : visit'[v].pc # "off"}) <= 1

MCNext ==
    /\ \/ part = "otp" /\ Next /\ UNCHANGED <<totpVars, factorVars, signInVars>>
       \/ part = "totp" /\ TotpNext /\ UNCHANGED <<vars, factorVars, signInVars>>
       \/ part = "factors" /\ FactorsNext /\ UNCHANGED <<vars, totpVars, signInVars>>
       \/ part = "lockout" /\ Guessing /\ UNCHANGED <<vars, totpVars, factorVars>>
       \/ part = "assurance" /\ Assuring /\ UNCHANGED <<vars, totpVars, factorVars>>
       \/ part = "sync" /\ Syncing /\ UNCHANGED <<vars, totpVars, factorVars>>
    /\ UNCHANGED part

MCSpec == MCInit /\ [][MCNext]_allVars

\* The .cfg names the slots of all parts alike, and the interactions.
Symmetry == Permutations(Requests) \cup Permutations(Uids) \cup Permutations(Ids)
=============================================================================
