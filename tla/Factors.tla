------------------------------- MODULE Factors ------------------------------
(***************************************************************************)
(* The second factors of one member: the script mfa:add-factor, which adds *)
(* a row of user_mfa_factors in a transaction, and MfaService.options,     *)
(* which says what the member is challenged with.  Commands overlap and    *)
(* may die.  PostgreSQL runs them at READ COMMITTED: a statement sees what *)
(* was committed when it began, waits for the row locks of others and then *)
(* looks at the row again; the unique index uq_user_mfa_factors_one_default*)
(* makes an INSERT wait for, or fail on, another default factor.           *)
(***************************************************************************)
EXTENDS Integers, FiniteSets

CONSTANTS
    Adders,            \* slots for mfa:add-factor commands that overlap
    MaxFactors,        \* bound on the commands
    Channels,          \* channels whose delivery adapter is enabled
    DefaultMethod,     \* MFA_DEFAULT_METHOD
    HasEmail           \* mumin_master.email is there

MfaMethod == {"EMAIL_OTP", "SMS_OTP", "TOTP"}

ASSUME FactorAssumption ==
    /\ MaxFactors \in Nat /\ HasEmail \in BOOLEAN
    /\ Channels \subseteq {"EMAIL", "SMS"} /\ DefaultMethod \in MfaMethod

VARIABLES
    factor,     \* user_mfa_factors, by the order in which their transactions began
    begun,      \* how many began
    adding,     \* the commands in progress
    lastDefault \* history: the factor of the last --default command; 0: none

factorVars == <<factor, begun, adding, lastDefault>>

Fids == 1..MaxFactors
\* readable: its destination was encrypted with the service's DATA_ENCRYPTION_KEY.
UserMfaFactor == [made : BOOLEAN, method : MfaMethod, isDefault : BOOLEAN, readable : BOOLEAN]
NoFactor == [made |-> FALSE, method |-> "TOTP", isDefault |-> FALSE, readable |-> FALSE]

\* The row to save; the default rows the UPDATE saw, then those it locked and cleared.
Adding == [pc : {"off", "update", "save", "commit"}, fid : Fids \cup {0}, new : UserMfaFactor,
           cleared : SUBSET Fids]
NotAdding == [pc |-> "off", fid |-> 0, new |-> NoFactor, cleared |-> {}]

FactorsInit ==
    /\ factor = [f \in Fids |-> NoFactor]
    /\ begun = 0
    /\ adding = [a \in Adders |-> NotAdding]
    /\ lastDefault = 0

Defaults == {f \in Fids : factor[f].isDefault}
Others(a) == {b \in Adders \ {a} : adding[b].pc \in {"save", "commit"}}

-----------------------------------------------------------------------------
(* mfa:add-factor.                                                         *)

\* The transaction begins; with --default its UPDATE takes its snapshot.
AddBegins(a) ==
    /\ adding[a].pc = "off"
    /\ begun < MaxFactors
    /\ begun' = begun + 1
    /\ \E new \in [made : {TRUE}, method : MfaMethod, isDefault : BOOLEAN, readable : BOOLEAN] :
         adding' = [adding EXCEPT ![a] =
                      [pc |-> IF new.isDefault THEN "update" ELSE "save", fid |-> begun + 1,
                       new |-> new, cleared |-> IF new.isDefault THEN Defaults ELSE {}]]
    /\ UNCHANGED <<factor, lastDefault>>

\* Mutant: without the transaction, the update is there before the row is saved.
ClearDefaultsAtOnce(a) ==
    /\ adding[a].pc = "update"
    /\ factor' = [f \in Fids |-> IF f \in adding[a].cleared
                                   THEN [factor[f] EXCEPT !.isDefault = FALSE] ELSE factor[f]]
    /\ adding' = [adding EXCEPT ![a].pc = "save"]
    /\ UNCHANGED <<begun, lastDefault>>

\* The UPDATE has every lock it waits for.
ClearDefaults(a) ==
    /\ adding[a].pc = "update"
    /\ \A b \in Others(a) : adding[b].cleared \cap adding[a].cleared = {}
    /\ adding' = [adding EXCEPT ![a].pc = "save", ![a].cleared = @ \cap Defaults]
    /\ UNCHANGED <<factor, begun, lastDefault>>

\* The INSERT waits for another default factor that is not committed yet, or for
\* one that is being cleared.
SaveWaits(a) ==
    /\ adding[a].new.isDefault
    /\ \E b \in Others(a) :
         \/ adding[b].pc = "commit" /\ adding[b].new.isDefault
         \/ (adding[b].cleared \cap Defaults) \ adding[a].cleared # {}

\* It fails on one that is committed.
SaveFactor(a) ==
    /\ adding[a].pc = "save"
    /\ ~SaveWaits(a)
    /\ adding' = [adding EXCEPT ![a] =
                    IF @.new.isDefault /\ Defaults \ @.cleared # {}
                      THEN NotAdding ELSE [@ EXCEPT !.pc = "commit"]]
    /\ UNCHANGED <<factor, begun, lastDefault>>

AddedFactor(a) ==
    LET d == adding[a]
    IN  /\ d.pc = "commit"
        /\ factor' = [f \in Fids |-> IF f = d.fid THEN d.new
                                     ELSE IF f \in d.cleared
                                     THEN [factor[f] EXCEPT !.isDefault = FALSE]
                                     ELSE factor[f]]
        /\ lastDefault' = IF d.new.isDefault THEN d.fid ELSE lastDefault
        /\ adding' = [adding EXCEPT ![a] = NotAdding]
        /\ UNCHANGED begun

\* The command dies before its COMMIT, and PostgreSQL undoes it.
AdderDies(a) ==
    /\ adding[a].pc # "off"
    /\ adding' = [adding EXCEPT ![a] = NotAdding]
    /\ UNCHANGED <<factor, begun, lastDefault>>

FactorsNext ==
    \E a \in Adders :
      AddBegins(a) \/ ClearDefaults(a) \/ SaveFactor(a) \/ AddedFactor(a) \/ AdderDies(a)

FactorsSpec == FactorsInit /\ [][FactorsNext]_factorVars

-----------------------------------------------------------------------------
(* MfaService.options: what the member is challenged with.                 *)

Mail == MaxFactors + 1    \* mumin_master.email, without a factor

ChannelOf(method) == IF method = "EMAIL_OTP" THEN "EMAIL" ELSE "SMS"

Usable(f) ==
    /\ factor[f].made
    /\ factor[f].method # "TOTP" => ChannelOf(factor[f].method) \in Channels /\ factor[f].readable

options ==
    LET usable == {f \in Fids : Usable(f)}
    IN  IF HasEmail /\ "EMAIL" \in Channels /\ \A f \in usable : factor[f].method # "EMAIL_OTP"
          THEN usable \cup {Mail} ELSE usable

isDefault(o) == o # Mail /\ factor[o].isDefault
MethodOf(o) == IF o = Mail THEN "EMAIL_OTP" ELSE factor[o].method

\* The first of some options in the order of findActive, the default first, then
\* the oldest; 0: none.
FirstOf(S) ==
    IF S = {} THEN 0
    ELSE CHOOSE o \in S : \A p \in S \ {o} : \/ isDefault(o) /\ ~isDefault(p)
                                             \/ isDefault(o) = isDefault(p) /\ o < p

preferred ==
    LET default == {o \in options : isDefault(o)}
        wished == {o \in options : MethodOf(o) = DefaultMethod}
    IN  IF default # {} THEN FirstOf(default)
        ELSE IF wished # {} THEN FirstOf(wished)
        ELSE FirstOf(options)

-----------------------------------------------------------------------------
(* Properties.                                                             *)

\* What the last completed --default command added is what the member is
\* challenged with, as long as it can be used: no command that overlaps with it,
\* fails or dies demotes it or leaves a second default in front of it.
LastDefaultIsAsked ==
    lastDefault # 0 /\ Usable(lastDefault) => preferred = lastDefault
=============================================================================
