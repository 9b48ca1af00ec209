----------------------------- MODULE TokenStore -----------------------------
(***************************************************************************)
(* The codes and access tokens of oidc-provider in Redis: OidcRedisAdapter *)
(* with the list of keys of every grant, one Redis command at a time, and  *)
(* the two calls that rest on it: a code is exchanged once, and revoking a *)
(* grant deletes what its list names.  What oidc-provider does between the *)
(* adapter's calls is external.                                            *)
(*                                                                         *)
(* upsert reads the TTL of the list before its MULTI, revokeByGrantId      *)
(* reads the list before its own, and consume writes whatever is there.    *)
(***************************************************************************)
EXTENDS Integers, FiniteSets

CONSTANTS
    Calls,          \* slots for requests that overlap
    Codes, Tokens,  \* authorization codes and access tokens
    Grants, NoGrant, NoArtifact,
    CodeLife, TokenLife,
    LastSecond      \* bound on the clock

Artifacts == Codes \cup Tokens
ASSUME StoreSentinels ==
    NoGrant \notin Grants /\ NoArtifact \notin Artifacts /\ Codes \cap Tokens = {}
ASSUME StoreLimits == {CodeLife, TokenLife} \subseteq Nat \ {0} /\ LastSecond \in Nat

VARIABLES
    second,     \* the clock of Redis
    key,        \* oidc:<Model>:<id>
    list,       \* oidc:grant:<id>
    call,       \* the requests in progress
    bought,     \* history: code -> tokens issued for it
    raced       \* history: codes two exchanges had read before either consumed it

storeVars == <<second, key, list, call, bought, raced>>

Life(a) == IF a \in Codes THEN CodeLife ELSE TokenLife
Endless == 0    \* a key without a TTL

\* payload: what find needs; alone: nothing else ran on the grant from TTL to EXEC,
\* and not a second passed.
Key == [there : BOOLEAN, grant : Grants \cup {NoGrant}, expires : Nat, payload : BOOLEAN,
        consumed : BOOLEAN, alone : BOOLEAN]
NoKeyThere == [there |-> FALSE, grant |-> NoGrant, expires |-> 0, payload |-> FALSE,
               consumed |-> FALSE, alone |-> FALSE]
GrantList == [there : BOOLEAN, keys : SUBSET Artifacts, expires : Nat]
NoList == [there |-> FALSE, keys |-> {}, expires |-> 0]

CallPcs == {"off", "consume", "ttl", "exec", "range", "del"}
Call == [pc : CallPcs, code : Codes \cup {NoArtifact}, id : Artifacts \cup {NoArtifact},
         grant : Grants \cup {NoGrant}, ttl : Int, keys : SUBSET Artifacts, mixed : BOOLEAN]
NoCall == [pc |-> "off", code |-> NoArtifact, id |-> NoArtifact, grant |-> NoGrant, ttl |-> 0,
           keys |-> {}, mixed |-> FALSE]

StoreInit ==
    /\ second = 1
    /\ key = [a \in Artifacts |-> NoKeyThere]
    /\ list = [g \in Grants |-> NoList]
    /\ call = [o \in Calls |-> NoCall]
    /\ bought = [c \in Codes |-> 0]
    /\ raced = {}

Found(a) == key[a].there /\ key[a].payload
Unused(a) == key[a].grant = NoGrant /\ \A o \in Calls : call[o].id # a
\* The calls whose MULTI on the grant is still to come.
Between(g) == {o \in Calls : call[o].pc \in {"exec", "del"} /\ call[o].grant = g}
\* Call o goes on as c, which has read grant g: it and those in between are mixed.
Reads(o, c, g) ==
    call' = [q \in Calls |-> IF q = o THEN [c EXCEPT !.mixed = Between(g) \ {o} # {}]
                             ELSE IF q \in Between(g) THEN [call[q] EXCEPT !.mixed = TRUE]
                             ELSE call[q]]
Return(o) == call' = [call EXCEPT ![o] = NoCall]

-----------------------------------------------------------------------------
(* upsert.                                                                 *)

\* finish of an interaction saves a code of the session's grant.
NewCode(o) ==
    /\ call[o].pc = "off"
    /\ \E a \in Codes, g \in Grants :
         /\ Unused(a)
         /\ call' = [call EXCEPT ![o] = [NoCall EXCEPT !.pc = "ttl", !.id = a, !.grant = g]]
    /\ UNCHANGED <<second, key, list, bought, raced>>

\* TTL: -2 without the list, -1 for one without an end.
ReadTtl(o) ==
    LET g == call[o].grant
        ttl == IF ~list[g].there THEN -2
               ELSE IF list[g].expires = Endless THEN -1 ELSE list[g].expires - second
    IN  /\ call[o].pc = "ttl"
        /\ Reads(o, [call[o] EXCEPT !.pc = "exec", !.ttl = ttl], g)
        /\ UNCHANGED <<second, key, list, bought, raced>>

\* Mutant: the list ends with what was added last.
ExecLast(o) ==
    LET a == call[o].id
        g == call[o].grant
    IN  /\ call[o].pc = "exec"
        /\ key' = [key EXCEPT ![a] = [NoKeyThere EXCEPT !.there = TRUE, !.grant = g, !.payload = TRUE,
                                         !.expires = second + Life(a), !.alone = ~call[o].mixed]]
        /\ list' = [list EXCEPT ![g] = [there |-> TRUE, keys |-> @.keys \cup {a},
                                        expires |-> second + Life(a)]]
        /\ bought' = bought
        /\ Return(o)
        /\ UNCHANGED <<second, raced>>

\* The MULTI: the artifact, its entry in the list and, judged by the TTL that
\* was read, the list's end.
Exec(o) ==
    LET a == call[o].id
        g == call[o].grant
        longer == Life(a) > call[o].ttl
    IN  /\ call[o].pc = "exec"
        /\ key' = [key EXCEPT ![a] = [NoKeyThere EXCEPT !.there = TRUE, !.grant = g, !.payload = TRUE,
                                         !.expires = second + Life(a), !.alone = ~call[o].mixed]]
        /\ list' = [list EXCEPT ![g] = [there |-> TRUE, keys |-> @.keys \cup {a},
                                        expires |-> IF longer THEN second + Life(a) ELSE @.expires]]
        /\ bought' = IF a \in Tokens THEN [bought EXCEPT ![call[o].code] = @ + 1] ELSE bought
        /\ Return(o)
        /\ UNCHANGED <<second, raced>>

-----------------------------------------------------------------------------
(* The token endpoint of oidc-provider.                                    *)

\* Mutant: a consumed code is answered with another token.
ExchangeAgain(o) ==
    /\ call[o].pc = "off"
    /\ \E c \in Codes : Found(c) /\
         call' = [call EXCEPT ![o] = [NoCall EXCEPT !.pc = "consume", !.code = c, !.grant = key[c].grant]]
    /\ UNCHANGED <<second, key, list, bought, raced>>

\* find: a consumed code costs the grant, an unused one is consumed.
Exchange(o) ==
    /\ call[o].pc = "off"
    /\ \E c \in Codes :
         /\ Found(c)
         /\ call' = [call EXCEPT ![o] = [NoCall EXCEPT !.pc = IF key[c].consumed THEN "range" ELSE "consume",
                                                       !.code = c, !.grant = key[c].grant]]
         /\ raced' = IF \E q \in Calls : call[q].pc = "consume" /\ call[q].code = c
                       THEN raced \cup {c} ELSE raced
    /\ UNCHANGED <<second, key, list, bought>>

\* HSET: of a code that is gone it makes a key with no payload and no end.
consume(o) ==
    LET c == call[o].code
    IN  /\ call[o].pc = "consume"
        /\ key' = [key EXCEPT ![c] = IF @.there THEN [@ EXCEPT !.consumed = TRUE]
                                     ELSE [@ EXCEPT !.there = TRUE, !.consumed = TRUE, !.expires = Endless]]
        /\ \E a \in Tokens :
             /\ Unused(a)
             /\ call' = [call EXCEPT ![o] = [@ EXCEPT !.pc = "ttl", !.id = a]]
        /\ UNCHANGED <<second, list, bought, raced>>

-----------------------------------------------------------------------------
(* revokeByGrantId, from a replayed code or the logout of the session.     *)

RevokeByGrantId(o) ==
    /\ call[o].pc = "off"
    /\ \E g \in Grants :
         /\ list[g].there
         /\ call' = [call EXCEPT ![o] = [NoCall EXCEPT !.pc = "range", !.grant = g]]
    /\ UNCHANGED <<second, key, list, bought, raced>>

ReadList(o) ==
    LET g == call[o].grant
    IN  /\ call[o].pc = "range"
        /\ Reads(o, [call[o] EXCEPT !.pc = "del", !.keys = list[g].keys], g)
        /\ UNCHANGED <<second, key, list, bought, raced>>

DeleteListed(o) ==
    /\ call[o].pc = "del"
    /\ key' = [a \in Artifacts |-> IF a \in call[o].keys THEN [NoKeyThere EXCEPT !.grant = key[a].grant]
                                   ELSE key[a]]
    /\ list' = [list EXCEPT ![call[o].grant] = NoList]
    /\ Return(o)
    /\ UNCHANGED <<second, bought, raced>>

-----------------------------------------------------------------------------
SecondPasses ==
    /\ second < LastSecond
    /\ second' = second + 1
    /\ key' = [a \in Artifacts |-> IF key[a].there /\ key[a].expires = second + 1
                                     THEN [NoKeyThere EXCEPT !.grant = key[a].grant] ELSE key[a]]
    /\ list' = [g \in Grants |-> IF list[g].there /\ list[g].expires = second + 1 THEN NoList ELSE list[g]]
    /\ call' = [o \in Calls |-> IF call[o].pc \in {"exec", "del"} THEN [call[o] EXCEPT !.mixed = TRUE]
                                ELSE call[o]]
    /\ UNCHANGED <<bought, raced>>

CallDies(o) ==
    /\ call[o].pc # "off"
    /\ Return(o)
    /\ UNCHANGED <<second, key, list, bought, raced>>

CallStep(o) ==
    \/ NewCode(o) \/ ReadTtl(o) \/ Exec(o) \/ Exchange(o) \/ consume(o)
    \/ RevokeByGrantId(o) \/ ReadList(o) \/ DeleteListed(o) \/ CallDies(o)

StoreNext == SecondPasses \/ \E o \in Calls : CallStep(o)

StoreSpec == StoreInit /\ [][StoreNext]_storeVars

-----------------------------------------------------------------------------
(* Properties.                                                             *)

\* Every variable stays in its domain.
StoreTypeOK ==
    /\ second \in Nat
    /\ key \in [Artifacts -> Key]
    /\ list \in [Grants -> GrantList]
    /\ call \in [Calls -> Call]
    /\ bought \in [Codes -> Nat]
    /\ raced \subseteq Codes

\* Whatever can be found can be revoked: a code or a token is in the list of its
\* grant for as long as it lives, unless another call on the grant, or a second,
\* came between the TTL and the MULTI of its own upsert.
LiveArtifactsAreListed ==
    \A a \in Artifacts :
      Found(a) /\ key[a].alone => list[key[a].grant].there /\ a \in list[key[a].grant].keys

\* A code buys one token, unless two exchanges read it before either consumed
\* it: consume marks the code, it does not ask whether it was marked.
CodeBuysOnce == \A c \in Codes : c \notin raced => bought[c] <= 1
=============================================================================
